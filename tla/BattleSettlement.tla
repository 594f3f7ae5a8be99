-------------------------- MODULE BattleSettlement --------------------------
(***************************************************************************)
(* A fight from the stage entry to the kept reward, and what a lost        *)
(* connection or a killed server leaves of it: stage_execute, the battle   *)
(* branch of handle(), battle_end_reward, the starshard choice and the     *)
(* rejoin offer (titan_server.py), over the snapshot of battle_resume.py.  *)
(*                                                                         *)
(* `mem` is the account dict of the connection, `disk` the account file;   *)
(* a ps.save is a point in time of its own wherever the handler does       *)
(* anything after it, and the connection may be lost between any two       *)
(* steps.  A fight is its number of resolved legs, its outcome and whether *)
(* the party took the status a rating forbids.  Fights are told apart by a *)
(* number the code does not have, so that payments can be counted.         *)
(***************************************************************************)
EXTENDS Drops

CONSTANTS
  Fights,     \* numbers for the fights of one behaviour
  NoFight,    \* no fight
  LastDay,    \* bound on the days
  Passes,     \* passes in the bag at first
  Legs,       \* battle requests until a fight is decided
  MaxLosses   \* bound on lost connections

SettlementAssumption ==
  /\ NoFight \notin Fights
  /\ Passes \in Nat /\ Legs \in Nat \ {0} /\ MaxLosses \in Nat
  /\ LastDay \in Nat
ASSUME SettlementAssumption

VARIABLES
  disk,    \* the account file
  mem,     \* the account dict of the connection
  conn,    \* where the connection's thread is
  live,    \* cx.battle
  screen,  \* what the client shows
  losses,  \* lost connections so far
  begun,   \* ghost: fights begun so far
  open,    \* ghost: the fight that is begun and not concluded
  hurt,    \* ghost: fights in which the forbidden status was taken
  day,     \* the day of the drop tables
  loot     \* what the results panel shows: a stage, its day and its drops

fightVars == <<disk, mem, conn, live, screen, losses, begun, open, hurt>>
vars == <<fightVars, day, loot>>

(* Stages by name; "daily" charges a pass.                                 *)
Kinds == DOMAIN Stages

(* What to_state() keeps of a fight, and the Battle object around it.      *)
Snapshot == [fight : Fights, kind : Kinds, leg : 0..Legs, won : BOOLEAN]
Battle == [snap : Snapshot, finished : BOOLEAN, status : BOOLEAN]
NoSnap == [fight |-> NoFight]
NoBattle == [snap |-> NoSnap]

(* The part of an account a fight touches: the passes, the "battle" key,   *)
(* the shard candidates held for a choice (by their fight), the stage mask *)
(* and its payments, and what every fight has paid: party XP and drops,    *)
(* account XP, and a kept shard.                                           *)
Account ==
  [passes : 0..Passes, snap : Snapshot \cup {NoSnap},
   held : Fights \cup {NoFight}, star : SUBSET Kinds,
   starPaid : [Kinds -> Nat], paid : [Fights -> Nat],
   xp : [Fights -> Nat], shards : [Fights -> Nat]]

Fresh ==
  [passes |-> Passes, snap |-> NoSnap, held |-> NoFight, star |-> {},
   starPaid |-> [k \in Kinds |-> 0], paid |-> [f \in Fights |-> 0],
   xp |-> [f \in Fights |-> 0], shards |-> [f \in Fights |-> 0]]

Save(account) == mem' = account /\ disk' = account
At(thread, shown) == conn = thread /\ screen = shown
Goto(thread, shown) == conn' = thread /\ screen' = shown
Decided == live.snap.leg = Legs
Fight == live.snap.fight
Kind == live.snap.kind

-----------------------------------------------------------------------------
(* Entering a stage.                                                       *)

Chargeable(k) == k = "daily" /\ mem.passes > 0

(* stage_execute of a stage with an entry cost: the charge is saved first. *)
EnterCharged ==
  /\ At("idle", "lobby")
  /\ "daily" \in Kinds /\ Chargeable("daily") /\ begun # Fights
  /\ Save([mem EXCEPT !.passes = @ - 1])
  /\ Goto("charged", "lobby")
  /\ UNCHANGED <<live, losses, begun, open, hurt>>

NewFight(f, k) ==
  /\ f \notin begun
  /\ begun' = begun \cup {f}
  /\ open' = f
  /\ live' = [snap |-> [fight |-> f, kind |-> k, leg |-> 0, won |-> FALSE],
              finished |-> FALSE, status |-> FALSE]

(* Variant: the first snapshot waits for the first battle request.         *)
BeginUnsaved(f, k) ==
  /\ NewFight(f, k)
  /\ Goto("idle", "fight")
  /\ UNCHANGED <<disk, mem, losses, hurt>>

(* The Battle is built, its snapshot saved at once and the start sent.     *)
Begin(f, k) ==
  /\ NewFight(f, k)
  /\ Save([mem EXCEPT !.snap = live'.snap])
  /\ Goto("idle", "fight")
  /\ UNCHANGED <<losses, hurt>>

(* A stage without a charge, and one whose charge was refused: the refusal *)
(* is logged and the fight begins all the same.                            *)
Enter ==
  \E f \in Fights :
    \/ At("charged", "lobby") /\ Begin(f, "daily")
    \/ \E k \in Kinds : /\ At("idle", "lobby") /\ ~Chargeable(k)
                        /\ Begin(f, k)

-----------------------------------------------------------------------------
(* The battle branch of handle().                                          *)

(* A battle request that does not end the fight saves its snapshot, unless *)
(* the fight is finished.                                                  *)
Snapshotted(account, b) ==
  IF b.finished THEN account ELSE [account EXCEPT !.snap = b.snap]

(* 505, 500 and a declined offer: the fight is finished, its snapshot goes.*)
Conclude ==
  /\ live' = [live EXCEPT !.finished = TRUE]
  /\ Save([mem EXCEPT !.snap = NoSnap])
  /\ open' = NoFight
  /\ UNCHANGED <<losses, begun, hurt>>

(* Any request of the turn loop.                                           *)
Play ==
  /\ At("idle", "fight") /\ ~Decided
  /\ \E won \in BOOLEAN, taken \in BOOLEAN :
       LET leg == live.snap.leg + 1
       IN /\ won => leg = Legs
          /\ live' = [live EXCEPT !.snap.leg = leg, !.snap.won = won,
                                  !.status = @ \/ taken]
          /\ hurt' = IF taken THEN hurt \cup {Fight} ELSE hurt
  /\ Save(Snapshotted(mem, live'))
  /\ UNCHANGED <<conn, screen, losses, begun, open>>

Retreat ==
  /\ At("idle", "fight") /\ ~Decided
  /\ Conclude
  /\ Goto("idle", "lobby")

(* rating_rewards and the stage mask: a condition is paid once per stage.  *)
Rated(account) ==
  IF live.status \/ Kind \in account.star THEN account
  ELSE [account EXCEPT !.star = @ \cup {Kind}, !.starPaid[Kind] = @ + 1]

(* Party XP, drops and ratings; the shards of a temple are only offered.   *)
Rewarded(account) ==
  LET paid == [Rated(account) EXCEPT !.paid[Fight] = @ + 1]
  IN IF IsTemple(Kind) THEN [paid EXCEPT !.held = Fight] ELSE paid

(* Variant: the account XP is granted before the rewards are saved.        *)
EndRewardXpFirst ==
  /\ At("idle", "fight") /\ Decided
  /\ IF live.snap.won
       THEN Save([Rewarded(mem) EXCEPT !.xp[Fight] = @ + 1])
       ELSE UNCHANGED <<disk, mem>>
  /\ Goto("ending", "result")
  /\ UNCHANGED <<live, losses, begun, open, hurt>>

(* BattleEnd (505), first half: battle_end_reward saves the rewards with   *)
(* the snapshot still in the account, then grants the account XP; the      *)
(* replies are sent.                                                       *)
EndReward ==
  /\ At("idle", "fight") /\ Decided
  /\ IF live.snap.won
       THEN /\ disk' = Rewarded(mem)
            /\ mem' = [Rewarded(mem) EXCEPT !.xp[Fight] = @ + 1]
       ELSE UNCHANGED <<disk, mem>>
  /\ Goto("ending", "result")
  /\ UNCHANGED <<live, losses, begun, open, hurt>>

(* BattleEnd, second half: back in handle(), the fight is concluded.       *)
EndDone ==
  /\ At("ending", "result")
  /\ Conclude
  /\ Goto("idle", "result")

(* Variant: the candidates stay on offer after the choice.                 *)
SelectRuneKept ==
  /\ At("idle", "result")
  /\ IsTemple(Kind) /\ live.snap.won
  /\ Save(Snapshotted(IF mem.held = NoFight THEN mem
                      ELSE [mem EXCEPT !.shards[mem.held] = @ + 1], live))
  /\ UNCHANGED <<conn, live, screen, losses, begun, open, hurt>>

(* SelectRune (508) arrives once from the player and again from the timer  *)
(* of the panel: only the first one keeps a shard.                         *)
SelectRune ==
  /\ At("idle", "result")
  /\ IsTemple(Kind) /\ live.snap.won
  /\ Save(Snapshotted(IF mem.held = NoFight THEN mem
                      ELSE [mem EXCEPT !.shards[mem.held] = @ + 1,
                                       !.held = NoFight], live))
  /\ UNCHANGED <<conn, live, screen, losses, begun, open, hurt>>

(* The player closes the results panel.                                    *)
Leave ==
  /\ At("idle", "result")
  /\ Goto("idle", "lobby")
  /\ UNCHANGED <<disk, mem, live, losses, begun, open, hurt>>

-----------------------------------------------------------------------------
(* Lost connections, and the offer to rejoin.                              *)

(* A send fails, the peer leaves or the server is killed: what was not     *)
(* saved is gone.                                                          *)
Lose ==
  /\ conn # "off" /\ losses < MaxLosses
  /\ losses' = losses + 1
  /\ mem' = disk
  /\ live' = NoBattle
  /\ Goto("off", "lobby")
  /\ UNCHANGED <<disk, begun, open, hurt>>

(* battle_sync_reply: a snapshot in the account is an offer to rejoin it.   *)
Offered(a) == IF a.snap = NoSnap THEN "lobby" ELSE "prompt"

(* LOGIN without a snapshot.                                               *)
Login ==
  /\ conn = "off" /\ disk.snap = NoSnap
  /\ mem' = disk
  /\ Goto("idle", Offered(disk))
  /\ UNCHANGED <<disk, live, losses, begun, open, hurt>>

(* LOGIN with one: restore_battle rebuilds the fight from what to_state()  *)
(* kept, and the battle sync offers to rejoin it.                          *)
LoginRestored ==
  /\ conn = "off" /\ disk.snap # NoSnap
  /\ mem' = disk
  /\ live' = [snap |-> disk.snap, finished |-> FALSE, status |-> FALSE]
  /\ Goto("idle", Offered(disk))
  /\ UNCHANGED <<disk, losses, begun, open, hurt>>

(* A snapshot that cannot be rebuilt is dropped.                           *)
LoginDropped ==
  /\ conn = "off" /\ disk.snap # NoSnap
  /\ Save([disk EXCEPT !.snap = NoSnap])
  /\ open' = NoFight
  /\ Goto("idle", "lobby")
  /\ UNCHANGED <<live, losses, begun, hurt>>

Accept ==
  /\ At("idle", "prompt")
  /\ Save(Snapshotted(mem, live))
  /\ Goto("idle", "fight")
  /\ UNCHANGED <<live, losses, begun, open, hurt>>

Decline ==
  /\ At("idle", "prompt")
  /\ Conclude
  /\ Goto("idle", "lobby")

-----------------------------------------------------------------------------
(* The drops are rolled when the fight is settled, with the sets of the day *)
(* it is settled on, whichever day it was begun or looked up on.           *)
NoLoot == [stage |-> "none", day |-> 0, drops |-> <<>>]

Looted ==
  loot' \in IF live.snap.won
            THEN {[stage |-> Kind, day |-> day, drops |-> d] : d \in StageDrops(Kind, day)}
            ELSE {NoLoot}

NextDay ==
  /\ day < LastDay /\ day' = day + 1
  /\ UNCHANGED <<fightVars, loot>>

Init ==
  /\ day = 0 /\ loot = NoLoot
  /\ disk = Fresh /\ mem = Fresh
  /\ conn = "off" /\ screen = "lobby"
  /\ live = NoBattle
  /\ losses = 0
  /\ begun = {} /\ open = NoFight /\ hurt = {}

Next ==
  \/ /\ \/ EnterCharged \/ Enter \/ Play \/ Retreat \/ EndDone \/ SelectRune
        \/ Login \/ LoginRestored \/ LoginDropped \/ Accept \/ Decline
     /\ UNCHANGED <<day, loot>>
  \/ EndReward /\ Looted /\ UNCHANGED day
  \/ (Leave \/ Lose) /\ loot' = NoLoot /\ UNCHANGED day
  \/ NextDay

Spec == Init /\ [][Next]_vars

-----------------------------------------------------------------------------
(* Properties.                                                             *)

(* Every variable stays in its range; a pass is never overdrawn.           *)
TypeOK ==
  /\ disk \in Account /\ mem \in Account
  /\ conn \in {"off", "idle", "charged", "ending"}
  /\ screen \in {"lobby", "prompt", "fight", "result"}
  /\ live \in Battle \cup {NoBattle}
  /\ losses \in 0..MaxLosses
  /\ begun \subseteq Fights /\ open \in Fights \cup {NoFight}
  /\ hurt \subseteq begun

(* What is offered again after a lost connection is the fight that was     *)
(* begun and not concluded with the client, with everything the client was *)
(* answered, and nothing else: not a fight that was won, lost, retreated   *)
(* from or declined, whose Battle object stays on the connection and still *)
(* takes requests (the "corpse" comment in handle()).                      *)
OpenFightSurvives ==
  /\ (disk.snap # NoSnap) = (open # NoFight)
  /\ open # NoFight => disk.snap.fight = open
  /\ At("idle", "fight") => disk.snap = live.snap

(* Account XP is saved together with the end of the fight, so no fight     *)
(* pays it twice and none pays it without its other rewards; and a rating  *)
(* is paid once per stage even when its fight is settled twice.            *)
PaidOnce ==
  /\ \A f \in Fights : disk.xp[f] <= 1 /\ disk.xp[f] <= disk.paid[f]
  /\ \A k \in Kinds : disk.starPaid[k] = IF k \in disk.star THEN 1 ELSE 0

(* Of the shards a temple offers at most one is kept per fight, however    *)
(* often the choice is sent and the fight resumed.                         *)
ShardKeptOnce == \A f \in Fights : disk.shards[f] <= 1

(* What a clear drops is on the list the stage screen shows that day: the  *)
(* list and the roll are two functions ("This and drops() must change      *)
(* together").                                                             *)
PreviewCovers ==
  \A i \in DOMAIN loot.drops :
    ListedAs(loot.drops[i].piece) \in Preview(loot.stage, loot.day)

(* A won temple offers shards, no more than the panel has places for and   *)
(* of different slots: with none the panel hangs.                          *)
ShardsOffered ==
  loot.stage # "none" /\ IsTemple(loot.stage) =>
    /\ Len(loot.drops) \in 1..PanelMax
    /\ IsInjective([i \in DOMAIN loot.drops |-> loot.drops[i].piece.slot])

(* A won corridor pays all its pieces however many waves share them.       *)
AllPiecesPaid ==
  loot.stage # "none" /\ Origin(loot.stage) = "corridor" =>
    Total(loot.drops, "gremlin") = PiecesOf(loot.stage)

(* The results panel shows what was promised, all of it, and can be closed.*)
DropsAsListed == PreviewCovers /\ ShardsOffered /\ AllPiecesPaid

=============================================================================
