---------------------- MODULE BattleSettlement_proofs ----------------------
(***************************************************************************)
(* The settlement of fights, for any number of fights, stages, legs and    *)
(* lost connections: what is offered again is the fight that is open, and  *)
(* a fight pays its account XP and its shard once.                         *)
(***************************************************************************)
EXTENDS BattleSettlement, SequenceTheorems, Finite_proofs, FiniteSetTheorems, TLAPS

(* Where a thread is says what it holds: nothing is unsaved except the     *)
(* account XP between the two halves of BattleEnd.                         *)
Places ==
  /\ conn \in {"off", "charged"} => screen = "lobby"
  /\ conn = "charged" => "daily" \in Kinds
  /\ conn = "ending" => screen = "result"
  /\ conn # "ending" => mem = disk
  /\ conn = "ending" => \/ mem = disk
                        \/ /\ mem = [disk EXCEPT !.xp[Fight] = @ + 1]
                           /\ disk.paid[Fight] >= 1

(* The snapshot in the file is the open fight's, and the Battle object at  *)
(* hand is that fight or a finished one.                                   *)
AtHand ==
  /\ conn = "idle" /\ screen \in {"fight", "prompt", "result"} => live \in Battle
  /\ conn = "ending" => live \in Battle
  /\ At("idle", "result") => live.finished /\ disk.snap = NoSnap
  /\ conn = "charged" \/ At("idle", "lobby") => disk.snap = NoSnap
  /\ conn = "ending" \/ At("idle", "fight") \/ At("idle", "prompt") =>
       disk.snap = live.snap /\ ~live.finished

OpenIsKept ==
  /\ (disk.snap # NoSnap) = (open # NoFight)
  /\ open # NoFight => disk.snap.fight = open /\ open \in begun

(* A fight has paid nothing for good while it is open or not begun.        *)
Unpaid(f) == disk.xp[f] = 0 /\ disk.shards[f] = 0
PaidInOrder ==
  /\ \A f \in Fights : f \notin begun \/ f = open => Unpaid(f)
  /\ disk.held # NoFight => disk.held \in begun /\ disk.shards[disk.held] = 0

SettlementInv == TypeOK /\ Places /\ AtHand /\ OpenIsKept /\ PaidInOrder
                 /\ PaidOnce /\ ShardKeptOnce

-----------------------------------------------------------------------------
(* What a step makes of an account.                                        *)

LEMMA NoSnapFacts == NoSnap \notin Snapshot /\ NoSnap.fight = NoFight /\ NoFight \notin Fights
BY SettlementAssumption DEF SettlementAssumption, NoSnap, Snapshot

LEMMA AccountFacts ==
  ASSUME NEW a \in Account
  PROVE  /\ a.passes \in 0..Passes /\ a.snap \in Snapshot \cup {NoSnap}
         /\ a.held \in Fights \cup {NoFight} /\ a.star \in SUBSET Kinds
         /\ a.starPaid \in [Kinds -> Nat] /\ a.paid \in [Fights -> Nat]
         /\ a.xp \in [Fights -> Nat] /\ a.shards \in [Fights -> Nat]
BY DEF Account

LEMMA BattleFacts ==
  ASSUME NEW b \in Battle
  PROVE  /\ b.snap \in Snapshot /\ b.finished \in BOOLEAN /\ b.status \in BOOLEAN
         /\ b.snap.fight \in Fights /\ b.snap.kind \in Kinds /\ b.snap.leg \in 0..Legs
         /\ b.snap.won \in BOOLEAN /\ b # NoBattle /\ b.snap # NoSnap
<1>1. b.snap \in Snapshot /\ b.finished \in BOOLEAN /\ b.status \in BOOLEAN
  BY DEF Battle
<1>2. b.snap # NoSnap
  BY <1>1, NoSnapFacts
<1> QED
  BY <1>1, <1>2 DEF Snapshot, NoBattle

LEMMA SnapEdit ==
  ASSUME NEW a \in Account, NEW s \in Snapshot \cup {NoSnap}
  PROVE  LET b == [a EXCEPT !.snap = s]
         IN /\ b \in Account /\ b.snap = s /\ b.held = a.held /\ b.star = a.star
            /\ b.starPaid = a.starPaid /\ b.paid = a.paid /\ b.xp = a.xp /\ b.shards = a.shards
BY DEF Account

LEMMA XpEdit ==
  ASSUME NEW a \in Account, NEW f \in Fights
  PROVE  LET b == [a EXCEPT !.xp[f] = @ + 1]
         IN /\ b \in Account /\ b.snap = a.snap /\ b.held = a.held /\ b.star = a.star
            /\ b.starPaid = a.starPaid /\ b.paid = a.paid /\ b.shards = a.shards
            /\ \A g \in Fights : b.xp[g] = IF g = f THEN a.xp[f] + 1 ELSE a.xp[g]
<1> DEFINE x == [a.xp EXCEPT ![f] = @ + 1]
           b == [a EXCEPT !.xp = x]
<1>1. x \in [Fights -> Nat] /\ \A g \in Fights : x[g] = IF g = f THEN a.xp[f] + 1 ELSE a.xp[g]
  BY AccountFacts
<1>2. [a EXCEPT !.xp[f] = @ + 1] = b
  BY DEF Account
<1> HIDE DEF x
<1>3. /\ b \in Account /\ b.snap = a.snap /\ b.held = a.held /\ b.star = a.star
      /\ b.starPaid = a.starPaid /\ b.paid = a.paid /\ b.shards = a.shards /\ b.xp = x
  BY <1>1 DEF Account
<1> QED
  BY <1>1, <1>2, <1>3

(* The shard of the held candidates is kept, and nothing is held.          *)
LEMMA ShardEdit ==
  ASSUME NEW a \in Account, a.held \in Fights
  PROVE  LET b == [a EXCEPT !.shards[a.held] = @ + 1, !.held = NoFight]
         IN /\ b \in Account /\ b.snap = a.snap /\ b.held = NoFight /\ b.star = a.star
            /\ b.starPaid = a.starPaid /\ b.paid = a.paid /\ b.xp = a.xp
            /\ \A g \in Fights :
                 b.shards[g] = IF g = a.held THEN a.shards[g] + 1 ELSE a.shards[g]
<1> DEFINE x == [a.shards EXCEPT ![a.held] = @ + 1]
           b == [a EXCEPT !.shards = x, !.held = NoFight]
<1>1. /\ x \in [Fights -> Nat]
      /\ \A g \in Fights : x[g] = IF g = a.held THEN a.shards[g] + 1 ELSE a.shards[g]
  BY AccountFacts
<1>2. [a EXCEPT !.shards[a.held] = @ + 1, !.held = NoFight] = b
  BY DEF Account
<1> HIDE DEF x
<1>3. /\ b \in Account /\ b.snap = a.snap /\ b.held = NoFight /\ b.star = a.star
      /\ b.starPaid = a.starPaid /\ b.paid = a.paid /\ b.xp = a.xp /\ b.shards = x
  BY <1>1 DEF Account
<1> QED
  BY <1>1, <1>2, <1>3

StarOnce(a) == \A k \in Kinds : a.starPaid[k] = IF k \in a.star THEN 1 ELSE 0

LEMMA RatedFacts ==
  ASSUME NEW a \in Account, live \in Battle, StarOnce(a)
  PROVE  /\ Rated(a) \in Account /\ StarOnce(Rated(a))
         /\ Rated(a).snap = a.snap /\ Rated(a).held = a.held /\ Rated(a).paid = a.paid
         /\ Rated(a).xp = a.xp /\ Rated(a).shards = a.shards
<1>1. CASE live.status \/ Kind \in a.star
  BY <1>1 DEF Rated
<1>2. CASE ~(live.status \/ Kind \in a.star)
  <2> DEFINE k == Kind
             s == a.star \cup {k}
             p == [a.starPaid EXCEPT ![k] = @ + 1]
             b == [a EXCEPT !.star = s, !.starPaid = p]
  <2>1. Kind \in Kinds
    BY BattleFacts DEF Kind
  <2>2. /\ s \in SUBSET Kinds /\ p \in [Kinds -> Nat]
        /\ \A i \in Kinds : p[i] = IF i \in s THEN 1 ELSE 0
    BY <1>2, <2>1, AccountFacts DEF StarOnce
  <2>3. Rated(a) = b
    BY <1>2 DEF Rated, Account
  <2> HIDE DEF s, p
  <2>4. /\ b \in Account /\ b.star = s /\ b.starPaid = p /\ b.snap = a.snap /\ b.held = a.held
        /\ b.paid = a.paid /\ b.xp = a.xp /\ b.shards = a.shards
    BY <2>2 DEF Account
  <2> QED
    BY <2>2, <2>3, <2>4 DEF StarOnce
<1> QED
  BY <1>1, <1>2

LEMMA RewardedFacts ==
  ASSUME NEW a \in Account, live \in Battle, StarOnce(a)
  PROVE  /\ Rewarded(a) \in Account /\ StarOnce(Rewarded(a))
         /\ Rewarded(a).snap = a.snap /\ Rewarded(a).xp = a.xp /\ Rewarded(a).shards = a.shards
         /\ Rewarded(a).held \in {a.held, Fight}
         /\ \A f \in Fights : Rewarded(a).paid[f] = IF f = Fight THEN a.paid[f] + 1 ELSE a.paid[f]
<1> DEFINE r == Rated(a)
           p == [r.paid EXCEPT ![Fight] = @ + 1]
           b == [r EXCEPT !.paid = p]
<1>1. /\ r \in Account /\ StarOnce(r) /\ r.snap = a.snap /\ r.held = a.held /\ r.paid = a.paid
      /\ r.xp = a.xp /\ r.shards = a.shards
  BY RatedFacts
<1>2. Fight \in Fights
  BY BattleFacts DEF Fight
<1> HIDE DEF r
<1>3. /\ p \in [Fights -> Nat]
      /\ \A f \in Fights : p[f] = IF f = Fight THEN a.paid[f] + 1 ELSE a.paid[f]
  BY <1>1, <1>2, AccountFacts
<1>4. [r EXCEPT !.paid[Fight] = @ + 1] = b
  BY <1>1 DEF Account
<1> HIDE DEF p
<1>5. /\ b \in Account /\ b.paid = p /\ b.snap = r.snap /\ b.held = r.held /\ b.xp = r.xp
      /\ b.shards = r.shards /\ b.star = r.star /\ b.starPaid = r.starPaid
  BY <1>1, <1>3 DEF Account
<1>6. LET c == [b EXCEPT !.held = Fight]
      IN /\ c \in Account /\ c.paid = p /\ c.snap = r.snap /\ c.held = Fight /\ c.xp = r.xp
         /\ c.shards = r.shards /\ c.star = r.star /\ c.starPaid = r.starPaid
  BY <1>2, <1>5 DEF Account
<1>7. Rewarded(a) = IF IsTemple(Kind) THEN [b EXCEPT !.held = Fight] ELSE b
  BY <1>4 DEF Rewarded, r
<1> HIDE DEF b
<1> QED
  BY <1>1, <1>3, <1>5, <1>6, <1>7 DEF StarOnce

-----------------------------------------------------------------------------
(* Every step keeps the invariant.                                         *)

LEMMA SettlementInvInit == Init => SettlementInv
<1> SUFFICES ASSUME Init PROVE SettlementInv
  OBVIOUS
<1>1. Fresh \in Account
  BY SettlementAssumption DEF SettlementAssumption, Fresh, Account
<1>2. TypeOK
  BY <1>1, SettlementAssumption DEF Init, TypeOK, SettlementAssumption
<1>3. Places /\ AtHand /\ OpenIsKept /\ PaidInOrder /\ PaidOnce /\ ShardKeptOnce
  BY NoSnapFacts DEF Init, Fresh, Places, AtHand, OpenIsKept, PaidInOrder, Unpaid, PaidOnce,
                     ShardKeptOnce, At
<1> QED
  BY <1>2, <1>3 DEF SettlementInv

(* The fight at hand, wherever a request of the fight is answered.         *)
LEMMA FightAtHand ==
  ASSUME SettlementInv, conn = "ending" \/ At("idle", "fight") \/ At("idle", "prompt")
  PROVE  /\ live \in Battle /\ ~live.finished /\ live.snap = disk.snap
         /\ Fight \in Fights /\ Fight = open /\ Fight \in begun /\ Unpaid(Fight)
<1>1. live \in Battle /\ ~live.finished /\ disk.snap = live.snap
  BY DEF SettlementInv, AtHand, At
<1>2. Fight \in Fights /\ disk.snap # NoSnap
  BY <1>1, BattleFacts DEF Fight
<1>3. Fight = open /\ open \in begun
  BY <1>1, <1>2 DEF SettlementInv, OpenIsKept, Fight
<1> QED
  BY <1>1, <1>2, <1>3 DEF SettlementInv, PaidInOrder

LEMMA InAccounts ==
  ASSUME SettlementInv
  PROVE  /\ disk \in Account /\ mem \in Account /\ begun \subseteq Fights
         /\ StarOnce(disk) /\ StarOnce(mem)
         /\ mem.paid = disk.paid /\ mem.snap = disk.snap /\ mem.held = disk.held
         /\ mem.shards = disk.shards
<1>1. disk \in Account /\ mem \in Account /\ begun \subseteq Fights
  BY DEF SettlementInv, TypeOK
<1>2. StarOnce(disk)
  BY DEF SettlementInv, PaidOnce, StarOnce
<1>3. CASE mem = disk
  BY <1>1, <1>2, <1>3
<1>4. CASE mem # disk
  <2>1. conn = "ending" /\ mem = [disk EXCEPT !.xp[Fight] = @ + 1]
    BY <1>4 DEF SettlementInv, Places
  <2>2. Fight \in Fights
    BY <2>1, FightAtHand
  <2> QED
    BY <1>1, <1>2, <2>1, <2>2, XpEdit DEF StarOnce
<1> QED
  BY <1>3, <1>4

(* A step that leaves the payments of the account as they are.             *)
LEMMA PaymentsKept ==
  ASSUME SettlementInv, disk' \in Account, open' \in {open, NoFight}, UNCHANGED begun,
         disk'.xp = disk.xp, disk'.paid = disk.paid, disk'.shards = disk.shards,
         disk'.held = disk.held, disk'.star = disk.star, disk'.starPaid = disk.starPaid
  PROVE  PaidInOrder' /\ PaidOnce' /\ ShardKeptOnce'
<1>1. PaidInOrder'
  BY SettlementAssumption DEF SettlementInv, PaidInOrder, Unpaid, SettlementAssumption
<1>2. PaidOnce' /\ ShardKeptOnce'
  BY DEF SettlementInv, PaidOnce, ShardKeptOnce
<1> QED
  BY <1>1, <1>2

LEMMA StepEnterCharged == SettlementInv /\ EnterCharged => SettlementInv'
<1> SUFFICES ASSUME SettlementInv, EnterCharged PROVE SettlementInv'
  OBVIOUS
<1> DEFINE a == [mem EXCEPT !.passes = @ - 1]
<1>1. mem = disk /\ disk \in Account /\ conn = "idle" /\ screen = "lobby" /\ mem.passes > 0
  BY InAccounts DEF SettlementInv, Places, EnterCharged, At, Chargeable
<1>2. /\ a \in Account /\ a.snap = disk.snap /\ a.held = disk.held /\ a.star = disk.star
      /\ a.starPaid = disk.starPaid /\ a.paid = disk.paid /\ a.xp = disk.xp
      /\ a.shards = disk.shards
  <2>1. mem.passes - 1 \in 0..Passes
    BY <1>1, AccountFacts, SettlementAssumption DEF SettlementAssumption
  <2> QED
    BY <1>1, <2>1 DEF Account
<1>3. /\ disk' = a /\ mem' = a /\ conn' = "charged" /\ screen' = "lobby"
      /\ UNCHANGED <<live, losses, begun, open, hurt>>
  BY DEF EnterCharged, Save, Goto
<1> HIDE DEF a
<1>4. TypeOK'
  BY <1>2, <1>3 DEF SettlementInv, TypeOK
<1>5. Places' /\ AtHand' /\ OpenIsKept'
  BY <1>1, <1>2, <1>3 DEF SettlementInv, Places, AtHand, OpenIsKept, At, EnterCharged
<1>6. PaidInOrder' /\ PaidOnce' /\ ShardKeptOnce'
  BY <1>2, <1>3, PaymentsKept
<1> QED
  BY <1>4, <1>5, <1>6 DEF SettlementInv

LEMMA StepBegin ==
  ASSUME SettlementInv, NEW f \in Fights, NEW k \in Kinds, Begin(f, k),
         conn = "charged" \/ At("idle", "lobby")
  PROVE  SettlementInv'
<1> DEFINE s == [fight |-> f, kind |-> k, leg |-> 0, won |-> FALSE]
           a == [mem EXCEPT !.snap = s]
<1>1. mem = disk /\ disk \in Account /\ disk.snap = NoSnap /\ begun \subseteq Fights
  BY InAccounts DEF SettlementInv, Places, AtHand, At
<1>2. s \in Snapshot
  BY SettlementAssumption DEF SettlementAssumption, Snapshot
<1>3. /\ live' = [snap |-> s, finished |-> FALSE, status |-> FALSE] /\ f \notin begun
      /\ begun' = begun \cup {f} /\ open' = f /\ UNCHANGED <<losses, hurt>>
      /\ disk' = a /\ mem' = a /\ conn' = "idle" /\ screen' = "fight"
  BY DEF Begin, NewFight, Save, Goto
<1>4. live' \in Battle /\ live'.snap = s /\ ~live'.finished /\ s.fight = f
  BY <1>2, <1>3 DEF Battle
<1> HIDE DEF s
<1>5. /\ a \in Account /\ a.snap = s /\ a.held = disk.held /\ a.star = disk.star
      /\ a.starPaid = disk.starPaid /\ a.paid = disk.paid /\ a.xp = disk.xp
      /\ a.shards = disk.shards
  BY <1>1, <1>2, SnapEdit
<1> HIDE DEF a
<1>6. TypeOK'
  BY <1>1, <1>3, <1>4, <1>5 DEF SettlementInv, TypeOK
<1>7. Places' /\ AtHand' /\ OpenIsKept'
  BY <1>2, <1>3, <1>4, <1>5, NoSnapFacts DEF Places, AtHand, OpenIsKept, At
<1>8. PaidInOrder'
  <2>1. open = NoFight
    BY <1>1 DEF SettlementInv, OpenIsKept
  <2>2. \A g \in Fights : g \notin begun' \/ g = open' => g \notin begun
    BY <1>3
  <2> QED
    BY <1>3, <1>5, <2>1, <2>2 DEF SettlementInv, PaidInOrder, Unpaid
<1>9. PaidOnce' /\ ShardKeptOnce'
  BY <1>3, <1>5 DEF SettlementInv, PaidOnce, ShardKeptOnce
<1> QED
  BY <1>6, <1>7, <1>8, <1>9 DEF SettlementInv

LEMMA StepEnter == SettlementInv /\ Enter => SettlementInv'
<1> SUFFICES ASSUME SettlementInv, Enter PROVE SettlementInv'
  OBVIOUS
<1>1. PICK f \in Fights : \/ At("charged", "lobby") /\ Begin(f, "daily")
                          \/ \E k \in Kinds : /\ At("idle", "lobby") /\ ~Chargeable(k)
                                              /\ Begin(f, k)
  BY DEF Enter
<1>2. CASE At("charged", "lobby") /\ Begin(f, "daily")
  BY <1>2, StepBegin DEF At, SettlementInv, Places
<1>3. CASE \E k \in Kinds : At("idle", "lobby") /\ Begin(f, k)
  BY <1>3, StepBegin
<1> QED
  BY <1>1, <1>2, <1>3

(* The fight goes on: the file follows the Battle object.                  *)
LEMMA StepPlay == SettlementInv /\ Play => SettlementInv'
<1> SUFFICES ASSUME SettlementInv, Play PROVE SettlementInv'
  OBVIOUS
<1>1. conn = "idle" /\ screen = "fight" /\ mem = disk /\ disk \in Account /\ ~Decided
  BY InAccounts DEF SettlementInv, Places, Play, At
<1>2. live \in Battle /\ ~live.finished /\ Fight = open /\ Fight \in begun /\ Fight \in Fights
  BY <1>1, FightAtHand DEF At
<1>3. PICK won \in BOOLEAN, taken \in BOOLEAN :
        /\ live' = [live EXCEPT !.snap.leg = live.snap.leg + 1, !.snap.won = won,
                                !.status = @ \/ taken]
        /\ hurt' = IF taken THEN hurt \cup {Fight} ELSE hurt
  BY DEF Play
<1>4. live' \in Battle /\ ~live'.finished /\ live'.snap.fight = Fight
  <2> DEFINE s == [live.snap EXCEPT !.leg = live.snap.leg + 1, !.won = won]
             st == live.status \/ taken
             b == [live EXCEPT !.snap = s, !.status = st]
  <2>1. s \in Snapshot /\ s.fight = Fight
    <3>1. live.snap \in Snapshot /\ live.snap.leg + 1 \in 0..Legs
      BY <1>1, <1>2, BattleFacts, SettlementAssumption DEF SettlementAssumption, Decided
    <3> QED
      BY <3>1 DEF Snapshot, Fight
  <2>2. live' = b
    BY <1>2, <1>3 DEF Battle, Snapshot
  <2>3. st \in BOOLEAN
    BY <1>2, BattleFacts
  <2> HIDE DEF s, st
  <2>4. b \in Battle /\ b.snap = s /\ b.finished = live.finished
    BY <1>2, <2>1, <2>3 DEF Battle
  <2> QED
    BY <1>2, <2>1, <2>2, <2>4
<1> DEFINE a == [mem EXCEPT !.snap = live'.snap]
<1>5. /\ disk' = a /\ mem' = a /\ UNCHANGED <<conn, screen, losses, begun, open>>
  BY <1>4 DEF Play, Save, Snapshotted
<1>6. /\ a \in Account /\ a.snap = live'.snap /\ a.held = disk.held /\ a.star = disk.star
      /\ a.starPaid = disk.starPaid /\ a.paid = disk.paid /\ a.xp = disk.xp
      /\ a.shards = disk.shards
  BY <1>1, <1>4, SnapEdit, BattleFacts
<1> HIDE DEF a
<1>7. TypeOK'
  BY <1>2, <1>3, <1>4, <1>5, <1>6 DEF SettlementInv, TypeOK
<1>8. Places' /\ AtHand' /\ OpenIsKept'
  <2>1. live'.snap # NoSnap /\ open # NoFight
    BY <1>2, <1>4, BattleFacts, NoSnapFacts
  <2> QED
    BY <1>1, <1>2, <1>4, <1>5, <1>6, <2>1 DEF SettlementInv, Places, AtHand, OpenIsKept, At
<1>9. PaidInOrder' /\ PaidOnce' /\ ShardKeptOnce'
  BY <1>5, <1>6, PaymentsKept
<1> QED
  BY <1>7, <1>8, <1>9 DEF SettlementInv

(* The fight is over: the snapshot goes with what was not saved yet.       *)
LEMMA StepConclude ==
  ASSUME SettlementInv, Conclude,
         \/ At("idle", "fight") /\ Goto("idle", "lobby")
         \/ conn = "ending" /\ Goto("idle", "result")
         \/ At("idle", "prompt") /\ Goto("idle", "lobby")
  PROVE  SettlementInv'
<1>1. /\ live \in Battle /\ Fight \in Fights /\ Fight = open /\ Fight \in begun /\ Unpaid(Fight)
      /\ disk.snap = live.snap
  BY FightAtHand
<1>2. mem \in Account /\ disk \in Account
  BY InAccounts
<1> DEFINE a == [mem EXCEPT !.snap = NoSnap]
<1>3. /\ disk' = a /\ mem' = a /\ open' = NoFight /\ UNCHANGED <<losses, begun, hurt>>
      /\ live' = [live EXCEPT !.finished = TRUE]
  BY DEF Conclude, Save
<1>4. live' \in Battle /\ live'.finished
  BY <1>1, <1>3 DEF Battle
<1>5. /\ a \in Account /\ a.snap = NoSnap /\ a.held = disk.held /\ a.paid = disk.paid
      /\ a.star = mem.star /\ a.starPaid = mem.starPaid /\ a.shards = disk.shards /\ a.xp = mem.xp
  BY <1>2, SnapEdit, InAccounts
<1> HIDE DEF a
<1>6. TypeOK'
  BY <1>3, <1>4, <1>5 DEF SettlementInv, TypeOK, Goto
<1>7. Places' /\ AtHand' /\ OpenIsKept'
  BY <1>3, <1>4, <1>5 DEF Places, AtHand, OpenIsKept, At, Goto
<1>8. \A g \in Fights : a.xp[g] = IF g = Fight /\ mem # disk THEN 1 ELSE disk.xp[g]
  <2>1. CASE mem = disk
    BY <1>5, <2>1
  <2>2. CASE mem # disk
    <3>1. mem = [disk EXCEPT !.xp[Fight] = @ + 1]
      BY <2>2 DEF SettlementInv, Places
    <3> QED
      BY <1>1, <1>2, <1>5, <2>2, <3>1, XpEdit DEF Unpaid
  <2> QED
    BY <2>1, <2>2
<1>9. PaidInOrder'
  <2>1. \A g \in Fights : g \notin begun' \/ g = open' => g \notin begun
    BY <1>3, NoSnapFacts
  <2>2. \A g \in Fights : g \notin begun => g # Fight
    BY <1>1
  <2> QED
    BY <1>3, <1>5, <1>8, <2>1, <2>2 DEF SettlementInv, PaidInOrder, Unpaid
<1>10. PaidOnce'
  <2>1. ASSUME NEW g \in Fights PROVE a.xp[g] <= 1 /\ a.xp[g] <= a.paid[g]
    <3>1. mem # disk => disk.paid[Fight] >= 1
      BY DEF SettlementInv, Places
    <3>2. disk.xp[g] <= 1 /\ disk.xp[g] <= disk.paid[g]
      BY DEF SettlementInv, PaidOnce
    <3>3. disk.paid[g] \in Nat
      BY <1>2, AccountFacts
    <3> QED
      BY <1>5, <1>8, <3>1, <3>2, <3>3
  <2>2. \A k \in Kinds : a.starPaid[k] = IF k \in a.star THEN 1 ELSE 0
    BY <1>5, InAccounts DEF StarOnce
  <2> QED
    BY <1>3, <2>1, <2>2 DEF PaidOnce
<1>11. ShardKeptOnce'
  BY <1>3, <1>5 DEF SettlementInv, ShardKeptOnce
<1> QED
  BY <1>6, <1>7, <1>9, <1>10, <1>11 DEF SettlementInv

(* The rewards are saved while the fight can still be resumed.             *)
LEMMA StepEndReward == SettlementInv /\ EndReward => SettlementInv'
<1> SUFFICES ASSUME SettlementInv, EndReward PROVE SettlementInv'
  OBVIOUS
<1>1. conn = "idle" /\ screen = "fight" /\ mem = disk /\ disk \in Account
  BY InAccounts DEF SettlementInv, Places, EndReward, At
<1>2. /\ live \in Battle /\ ~live.finished /\ Fight = open /\ Fight \in begun
      /\ Fight \in Fights /\ Unpaid(Fight) /\ live.snap = disk.snap
  BY <1>1, FightAtHand DEF At
<1>3. conn' = "ending" /\ screen' = "result" /\ UNCHANGED <<live, losses, begun, open, hurt>>
  BY DEF EndReward, Goto
<1>4. CASE ~live.snap.won
  <2>1. UNCHANGED <<disk, mem>>
    BY <1>4 DEF EndReward
  <2> QED
    BY <1>1, <1>2, <1>3, <2>1
    DEF SettlementInv, TypeOK, Places, AtHand, OpenIsKept, PaidInOrder, Unpaid, PaidOnce,
        ShardKeptOnce, At
<1>5. CASE live.snap.won
  <2> DEFINE a == Rewarded(disk)
  <2>1. disk' = a /\ mem' = [a EXCEPT !.xp[Fight] = @ + 1]
    BY <1>1, <1>5 DEF EndReward
  <2>2. /\ a \in Account /\ StarOnce(a) /\ a.snap = disk.snap /\ a.xp = disk.xp
        /\ a.shards = disk.shards /\ a.held \in {disk.held, Fight}
        /\ \A f \in Fights : a.paid[f] = IF f = Fight THEN disk.paid[f] + 1 ELSE disk.paid[f]
    BY <1>1, <1>2, InAccounts, RewardedFacts
  <2> HIDE DEF a
  <2>3. mem' \in Account
    BY <1>2, <2>1, <2>2, XpEdit
  <2>4. TypeOK'
    BY <1>3, <2>1, <2>2, <2>3 DEF SettlementInv, TypeOK
  <2>5. \A f \in Fights : disk.paid[f] \in Nat
    BY <1>1, AccountFacts
  <2>6. Places'
    <3>1. Fight' = Fight /\ disk'.paid[Fight] >= 1
      BY <1>2, <1>3, <2>1, <2>2, <2>5 DEF Fight
    <3> QED
      BY <1>3, <2>1, <3>1 DEF Places
  <2>7. AtHand' /\ OpenIsKept'
    BY <1>2, <1>3, <2>1, <2>2 DEF SettlementInv, AtHand, OpenIsKept, At
  <2>8. PaidInOrder'
    BY <1>2, <1>3, <2>1, <2>2 DEF SettlementInv, PaidInOrder, Unpaid
  <2>9. PaidOnce'
    <3>1. \A f \in Fights : a.xp[f] <= 1 /\ a.xp[f] <= a.paid[f]
      BY <1>1, <2>2, <2>5, AccountFacts DEF SettlementInv, PaidOnce
    <3> QED
      BY <2>1, <2>2, <3>1 DEF PaidOnce, StarOnce
  <2>10. ShardKeptOnce'
    BY <2>1, <2>2 DEF SettlementInv, ShardKeptOnce
  <2> QED
    BY <2>4, <2>6, <2>7, <2>8, <2>9, <2>10 DEF SettlementInv
<1> QED
  BY <1>4, <1>5

(* The choice of a shard, sent as often as it likes.                       *)
LEMMA StepSelectRune == SettlementInv /\ SelectRune => SettlementInv'
<1> SUFFICES ASSUME SettlementInv, SelectRune PROVE SettlementInv'
  OBVIOUS
<1>1. conn = "idle" /\ screen = "result" /\ mem = disk /\ disk \in Account
  BY InAccounts DEF SettlementInv, Places, SelectRune, At
<1>2. live \in Battle /\ live.finished /\ disk.snap = NoSnap /\ open = NoFight
  BY <1>1 DEF SettlementInv, AtHand, OpenIsKept, At
<1>3. /\ UNCHANGED <<conn, live, screen, losses, begun, open, hurt>>
      /\ disk' = mem'
      /\ disk' = IF mem.held = NoFight THEN mem
                 ELSE [mem EXCEPT !.shards[mem.held] = @ + 1, !.held = NoFight]
  BY <1>2 DEF SelectRune, Save, Snapshotted
<1>4. CASE disk.held = NoFight
  BY <1>1, <1>3, <1>4
  DEF SettlementInv, TypeOK, Places, AtHand, OpenIsKept, PaidInOrder, Unpaid, PaidOnce,
      ShardKeptOnce, At
<1>5. CASE disk.held # NoFight
  <2>1. disk.held \in Fights /\ disk.held \in begun /\ disk.shards[disk.held] = 0
    BY <1>1, <1>5, AccountFacts DEF SettlementInv, PaidInOrder
  <2>2. /\ disk' \in Account /\ disk'.snap = disk.snap /\ disk'.held = NoFight
        /\ disk'.star = disk.star /\ disk'.starPaid = disk.starPaid /\ disk'.paid = disk.paid
        /\ disk'.xp = disk.xp
        /\ \A g \in Fights : disk'.shards[g] = IF g = disk.held THEN disk.shards[g] + 1
                                               ELSE disk.shards[g]
    <3> DEFINE b == [disk EXCEPT !.shards[disk.held] = @ + 1, !.held = NoFight]
    <3>1. /\ b \in Account /\ b.snap = disk.snap /\ b.held = NoFight /\ b.star = disk.star
          /\ b.starPaid = disk.starPaid /\ b.paid = disk.paid /\ b.xp = disk.xp
          /\ \A g \in Fights : b.shards[g] = IF g = disk.held THEN disk.shards[g] + 1
                                             ELSE disk.shards[g]
      BY <1>1, <2>1, ShardEdit
    <3>2. disk' = b
      BY <1>1, <1>3, <1>5
    <3> HIDE DEF b
    <3> QED
      BY <3>1, <3>2
  <2>3. TypeOK'
    BY <1>3, <2>2 DEF SettlementInv, TypeOK
  <2>4. Places' /\ AtHand' /\ OpenIsKept'
    <3>1. Places'
      BY <1>1, <1>3 DEF Places
    <3>2. AtHand' /\ OpenIsKept'
      BY <1>1, <1>2, <1>3, <2>2 DEF AtHand, OpenIsKept, At
    <3> QED
      BY <3>1, <3>2
  <2>5. PaidInOrder'
    BY <1>2, <1>3, <2>1, <2>2, NoSnapFacts DEF SettlementInv, PaidInOrder, Unpaid
  <2>6. PaidOnce' /\ ShardKeptOnce'
    BY <2>1, <2>2 DEF SettlementInv, PaidOnce, ShardKeptOnce
  <2> QED
    BY <2>3, <2>4, <2>5, <2>6 DEF SettlementInv
<1> QED
  BY <1>4, <1>5

(* The connection goes and comes back.                                     *)
LEMMA StepConnection ==
  SettlementInv /\ (Leave \/ Lose \/ Login \/ LoginRestored \/ Accept) => SettlementInv'
<1>1. CASE SettlementInv /\ Leave
  BY <1>1
  DEF SettlementInv, TypeOK, Places, AtHand, OpenIsKept, PaidInOrder, Unpaid, PaidOnce,
      ShardKeptOnce, At, Leave, Goto
<1>2. CASE SettlementInv /\ Lose
  <2>1. losses' \in 0..MaxLosses
    BY <1>2, SettlementAssumption DEF SettlementAssumption, SettlementInv, TypeOK, Lose
  <2> QED
    BY <1>2, <2>1
    DEF SettlementInv, TypeOK, Places, AtHand, OpenIsKept, PaidInOrder, Unpaid, PaidOnce,
        ShardKeptOnce, At, Lose, Goto
<1>3. CASE SettlementInv /\ Login
  BY <1>3
  DEF SettlementInv, TypeOK, Places, AtHand, OpenIsKept, PaidInOrder, Unpaid, PaidOnce,
      ShardKeptOnce, At, Login, Offered, Goto
<1>4. CASE SettlementInv /\ LoginRestored
  <2>1. disk.snap \in Snapshot
    BY <1>4, AccountFacts DEF SettlementInv, TypeOK, LoginRestored
  <2>2. live' \in Battle /\ live'.snap = disk.snap /\ ~live'.finished
    BY <1>4, <2>1 DEF LoginRestored, Battle
  <2> QED
    BY <1>4, <2>2
    DEF SettlementInv, TypeOK, Places, AtHand, OpenIsKept, PaidInOrder, Unpaid, PaidOnce,
        ShardKeptOnce, At, LoginRestored, Offered, Goto
<1>5. CASE SettlementInv /\ Accept
  <2> DEFINE a == [mem EXCEPT !.snap = live.snap]
  <2>1. conn = "idle" /\ screen = "prompt" /\ mem = disk /\ disk \in Account
    BY <1>5, InAccounts DEF SettlementInv, Places, Accept, At
  <2>2. live \in Battle /\ ~live.finished /\ live.snap = disk.snap
    BY <1>5, <2>1, FightAtHand DEF At
  <2>3. disk' = a /\ mem' = a /\ conn' = "idle" /\ screen' = "fight"
        /\ UNCHANGED <<live, losses, begun, open, hurt>>
    BY <1>5, <2>2 DEF Accept, Save, Snapshotted, Goto
  <2>4. a = disk
    BY <2>1, <2>2 DEF Account
  <2> HIDE DEF a
  <2> QED
    BY <1>5, <2>1, <2>2, <2>3, <2>4
    DEF SettlementInv, TypeOK, Places, AtHand, OpenIsKept, PaidInOrder, Unpaid, PaidOnce,
        ShardKeptOnce, At
<1> QED
  BY <1>1, <1>2, <1>3, <1>4, <1>5

LEMMA StepLoginDropped == SettlementInv /\ LoginDropped => SettlementInv'
<1> SUFFICES ASSUME SettlementInv, LoginDropped PROVE SettlementInv'
  OBVIOUS
<1> DEFINE a == [disk EXCEPT !.snap = NoSnap]
<1>1. /\ a \in Account /\ a.snap = NoSnap /\ a.held = disk.held /\ a.star = disk.star
      /\ a.starPaid = disk.starPaid /\ a.paid = disk.paid /\ a.xp = disk.xp
      /\ a.shards = disk.shards
  BY InAccounts, SnapEdit
<1>2. /\ disk' = a /\ mem' = a /\ open' = NoFight /\ conn' = "idle" /\ screen' = "lobby"
      /\ UNCHANGED <<live, losses, begun, hurt>>
  BY DEF LoginDropped, Save, Goto
<1> HIDE DEF a
<1>3. TypeOK'
  BY <1>1, <1>2 DEF SettlementInv, TypeOK
<1>4. Places' /\ AtHand' /\ OpenIsKept'
  BY <1>1, <1>2 DEF Places, AtHand, OpenIsKept, At
<1>5. PaidInOrder' /\ PaidOnce' /\ ShardKeptOnce'
  BY <1>1, <1>2, PaymentsKept
<1> QED
  BY <1>3, <1>4, <1>5 DEF SettlementInv

LEMMA SettlementInvNext == SettlementInv /\ [Next]_vars => SettlementInv'
<1> SUFFICES ASSUME SettlementInv, [Next]_vars PROVE SettlementInv'
  OBVIOUS
<1>1. CASE UNCHANGED fightVars
  BY <1>1
  DEF fightVars, SettlementInv, TypeOK, Places, AtHand, OpenIsKept, PaidInOrder, Unpaid, PaidOnce,
      ShardKeptOnce, At, Fight
<1>2. CASE Retreat \/ EndDone \/ Decline
  BY <1>2, StepConclude DEF Retreat, EndDone, Decline, At
<1>3. CASE NextDay \/ UNCHANGED vars
  BY <1>1, <1>3 DEF NextDay, vars
<1> QED
  BY <1>2, <1>3, StepEnterCharged, StepEnter, StepPlay, StepEndReward, StepSelectRune,
     StepConnection, StepLoginDropped DEF Next

LEMMA SettlementHolds == Spec => []SettlementInv
BY SettlementInvInit, SettlementInvNext, PTL DEF Spec

(* Passes, candidates and payments stay what the account can hold; a pass  *)
(* is never overdrawn.                                                     *)
THEOREM TypeCorrect == Spec => []TypeOK
BY SettlementHolds, PTL DEF SettlementInv

(* What a login offers to rejoin is the one fight that was begun and not   *)
(* concluded, as far as the client was answered.                           *)
THEOREM OpenFightSafe == Spec => []OpenFightSurvives
<1>1. SettlementInv => OpenFightSurvives
  BY DEF SettlementInv, OpenIsKept, AtHand, OpenFightSurvives, At
<1> QED
  BY <1>1, SettlementHolds, PTL

(* Account XP and ratings are paid once, wherever the connection is lost.  *)
THEOREM PaidSafe == Spec => []PaidOnce
BY SettlementHolds, PTL DEF SettlementInv

(* A fight keeps at most one shard.                                        *)
THEOREM ShardSafe == Spec => []ShardKeptOnce
BY SettlementHolds, PTL DEF SettlementInv

-----------------------------------------------------------------------------
(* Shared out, a number stays what it is: k stacks of q pieces, the first  *)
(* r of them with one more.                                                *)
InStacks(f, k, q, r) == \A i \in 1..k : f[i] = q + (IF i <= r THEN 1 ELSE 0)
Shared(k, q, r) == k * q + (IF k <= r THEN k ELSE r)

LEMMA ShareOut ==
  ASSUME NEW k \in Nat, NEW q \in Nat, NEW r \in Nat, NEW f, InStacks(f, k, q, r)
  PROVE  SumFunctionOnSet(f, 1..k) = Shared(k, q, r)
<1> USE DEF InStacks, Shared
<1> DEFINE Sum(m) == m * q + (IF m <= r THEN m ELSE r)
           F == {1..m : m \in {n \in 0..k : SumFunctionOnSet(f, 1..n) # Sum(n)}}
<1>1. IsFiniteSet(1..k) /\ F \subseteq SUBSET (1..k)
  BY FS_Interval
<1>2. SUFFICES ASSUME F # {} PROVE FALSE
  <2>1. ASSUME SumFunctionOnSet(f, 1..k) # Sum(k) PROVE (1..k) \in F
    BY <2>1
  <2> QED BY <1>2, <2>1
<1>3. PICK T \in F : \A U \in F : U \subseteq T => U = T
  <2> DEFINE S == 1..k
  <2>1. IsFiniteSet(S) /\ F \subseteq SUBSET S /\ F # {}
    BY <1>1, <1>2
  <2> HIDE DEF F, S
  <2> QED BY <2>1, LeastSubset
<1>4. PICK m \in 0..k : T = 1..m /\ SumFunctionOnSet(f, 1..m) # Sum(m)
  OBVIOUS
<1>5. m # 0
  <2> SUFFICES ASSUME m = 0 PROVE FALSE
    OBVIOUS
  <2>1. 1..m = {} /\ Sum(m) = 0
    OBVIOUS
  <2>2. SumFunctionOnSet(f, {}) = 0
    BY SumEmpty, Zenon
  <2> QED BY <1>4, <2>1, <2>2
<1>6. SumFunctionOnSet(f, 1..(m - 1)) = Sum(m - 1)
  <2> SUFFICES ASSUME SumFunctionOnSet(f, 1..(m - 1)) # Sum(m - 1) PROVE FALSE
    OBVIOUS
  <2>1. m - 1 \in 0..k
    BY <1>5
  <2>2. 1..(m - 1) \in F
    BY <2>1
  <2>3. 1..(m - 1) \subseteq 1..m /\ m \in 1..m /\ m \notin 1..(m - 1)
    BY <1>5
  <2> QED BY <1>3, <1>4, <2>2, <2>3
<1>7. SumFunctionOnSet(f, 1..m) = SumFunctionOnSet(f, 1..(m - 1)) + f[m]
  <2> DEFINE T0 == 1..(m - 1)
  <2>1. IsFiniteSet(T0) /\ m \notin T0 /\ T0 \cup {m} = 1..m
    BY <1>5, FS_Interval
  <2>2. \A i \in T0 \cup {m} : f[i] \in Int
    BY <1>5
  <2> HIDE DEF T0
  <2>3. SumFunctionOnSet(f, T0 \cup {m}) = SumFunctionOnSet(f, T0) + f[m]
    BY <2>1, <2>2, SumAdd
  <2> QED BY <2>1, <2>3 DEF T0
<1>8. Sum(m) = Sum(m - 1) + f[m]
  <2>1. f[m] = q + (IF m <= r THEN 1 ELSE 0)
    BY <1>5
  <2>2. m * q = (m - 1) * q + q
    OBVIOUS
  <2>3. (m - 1) * q \in Int /\ m * q \in Int
    OBVIOUS
  <2> QED BY <1>5, <2>1, <2>2, <2>3
<1> QED BY <1>4, <1>6, <1>7, <1>8

(* All the pieces, in stacks of at least one.                              *)
LEMMA SharesAddUp ==
  ASSUME NEW count \in Nat, NEW waves \in Nat \ {0}
  PROVE  /\ Shares(count, waves) \in Seq(Nat \ {0})
         /\ SumFunctionOnSet(Shares(count, waves), DOMAIN Shares(count, waves)) = count
<1> DEFINE base == count \div waves
           extra == count % waves
           filled == IF base > 0 THEN waves ELSE extra
           shares == Shares(count, waves)
<1>1. /\ base \in Nat /\ extra \in 0..(waves - 1) /\ count = waves * base + extra
  OBVIOUS
<1>2. shares = [i \in 1..filled |-> base + (IF i <= extra THEN 1 ELSE 0)]
  BY DEF Shares
<1> HIDE DEF base, extra, shares
<1>3. filled \in Nat
  BY <1>1
<1>4. filled * base + (IF filled <= extra THEN filled ELSE extra) = count
  <2>1. CASE base > 0
    BY <1>1, <2>1
  <2>2. CASE base = 0
    BY <1>1, <2>2
  <2> QED BY <1>1, <2>1, <2>2
<1>5. \A i \in 1..filled : shares[i] = base + (IF i <= extra THEN 1 ELSE 0) /\ shares[i] \in Nat \ {0}
  BY <1>1, <1>2
<1>6. shares \in Seq(Nat \ {0})
  <2>1. shares \in [1..filled -> Nat \ {0}]
    BY <1>2, <1>5
  <2> QED BY <1>3, <2>1
<1>7. DOMAIN shares = 1..filled
  BY <1>2
<1> HIDE DEF filled
<1>8. SumFunctionOnSet(shares, 1..filled) = count
  <2>1. filled \in Nat /\ base \in Nat /\ extra \in Nat /\ InStacks(shares, filled, base, extra)
    BY <1>1, <1>3, <1>5 DEF InStacks
  <2>2. SumFunctionOnSet(shares, 1..filled) = Shared(filled, base, extra)
    BY <2>1, ShareOut
  <2> QED BY <1>4, <2>2 DEF Shared
<1> QED BY <1>6, <1>7, <1>8 DEF shares

LEMMA CorridorDrop ==
  ASSUME NEW s \in Kinds, NEW d \in CorridorDrops(s)
  PROVE  Total(d, "gremlin") = PiecesOf(s)
<1> DEFINE count == PiecesOf(s)
           shares == Shares(count, Stages[s].waves)
           f == [i \in DOMAIN d |-> d[i].n]
<1>1. count \in Nat /\ Stages[s].waves \in Nat \ {0}
  <2>1. Pieces \in Nat /\ Stages[s].waves \in Nat \ {0}
    BY DropsAssumption DEF DropsAssumption, Kinds
  <2> QED BY <2>1 DEF PiecesOf
<1>2. PICK t \in CorridorTiers(s) :
        d = [i \in DOMAIN shares |-> Drop(Piece("gremlin", t), shares[i])]
  BY DEF CorridorDrops
<1> HIDE DEF count
<1>3. shares \in Seq(Nat \ {0}) /\ SumFunctionOnSet(shares, DOMAIN shares) = count
  BY <1>1, SharesAddUp
<1> HIDE DEF shares
<1>4. /\ DOMAIN d = DOMAIN shares
      /\ \A i \in DOMAIN d : d[i].n = shares[i] /\ d[i].piece.what = "gremlin"
  BY <1>2 DEF Drop, Piece
<1>5. {i \in DOMAIN d : d[i].piece.what = "gremlin"} = DOMAIN shares
  BY <1>4
<1>6. f = shares
  BY <1>3, <1>4
<1> QED BY <1>3, <1>5, <1>6 DEF Total, count

-----------------------------------------------------------------------------
(* The drops of a clear and the list of the stage screen.                  *)

LEMMA PieceListed ==
  /\ \A what, grade : ListedAs(Piece(what, grade)) = Piece(what, grade)
  /\ \A set, slot, rank, star : /\ ListedAs(Shard(set, slot, rank, star)) = Icon(set, star)
                                /\ Shard(set, slot, rank, star).slot = slot
BY DEF ListedAs, Piece, Icon, Shard

LEMMA OneOrigin ==
  ASSUME NEW s \in Kinds
  PROVE  /\ Origin(s) \in {"known", "temple", "corridor", "karma", "farm", "generated"}
         /\ IsTemple(s) <=> Origin(s) = "temple"
BY DropsAssumption DEF DropsAssumption, Kinds, Origin, IsTemple

LEMMA TempleDrop ==
  ASSUME NEW s \in Kinds, NEW on \in Nat, IsTemple(s), NEW d \in TempleDrops(s, on)
  PROVE  /\ Len(d) \in 1..PanelMax /\ DOMAIN d = 1..Len(d)
         /\ IsInjective([i \in DOMAIN d |-> d[i].piece.slot])
         /\ \A i \in DOMAIN d : ListedAs(d[i].piece) \in TemplePool(s, on)
<1> DEFINE count == Clamped(Clamped(Stages[s].waves, 1, PanelMax), 1, Cardinality(ShardSlots))
           slots == {f \in [1..count -> ShardSlots] : IsInjective(f)}
           kinds == SetsForDay(on) \X TempleRanks(s) \X TempleStars(s)
<1>1. count \in 1..PanelMax
  <2>1. Stages[s].waves \in Nat \ {0} /\ PanelMax \in Nat \ {0}
    BY DropsAssumption DEF DropsAssumption, Kinds
  <2>2. Cardinality(ShardSlots) \in Nat \ {0}
    BY FS_CardinalityType, FS_EmptySet, DropsAssumption DEF DropsAssumption
  <2> QED
    BY <2>1, <2>2 DEF Clamped
<1> HIDE DEF count
<1>2. PICK f \in slots, k \in [1..count -> kinds] :
        d = [i \in 1..count |-> Drop(Shard(k[i][1], f[i], k[i][2], k[i][3]), 1)]
  BY DEF TempleDrops, count
<1>3. DOMAIN d = 1..count /\ Len(d) = count
  BY <1>1, <1>2
<1>4. \A i \in 1..count : d[i].piece = Shard(k[i][1], f[i], k[i][2], k[i][3])
  BY <1>2 DEF Drop
<1>5. IsInjective([i \in DOMAIN d |-> d[i].piece.slot])
  <2>1. \A i \in 1..count : d[i].piece.slot = f[i]
    BY <1>4, PieceListed
  <2> QED
    BY <1>2, <1>3, <2>1 DEF IsInjective
<1>6. ASSUME NEW i \in 1..count PROVE ListedAs(d[i].piece) \in TemplePool(s, on)
  <2>1. k[i][1] \in SetsForDay(on) /\ k[i][3] \in TempleStars(s)
    BY <1>2
  <2>2. ListedAs(d[i].piece) = Icon(k[i][1], k[i][3])
    BY <1>4, PieceListed
  <2> QED
    BY <2>1, <2>2 DEF TemplePool
<1> QED
  BY <1>1, <1>3, <1>5, <1>6

(* One roll of the pool in every wave, and what a finale adds at the end.  *)
LEMMA GeneratedDrop ==
  ASSUME NEW s \in Kinds, NEW d \in GeneratedDrops(s), NEW i \in DOMAIN d
  PROVE  ListedAs(d[i].piece) \in GeneratedPool(s)
<1> DEFINE n == Stages[s].waves
           Rolled == {Drop(p, 1) : p \in PoolRoll(s) \cup Special(s)}
<1>1. n \in Nat
  BY DropsAssumption DEF DropsAssumption, Kinds
<1>2. \A r \in [1..n -> {Drop(p, 1) : p \in PoolRoll(s)}] : r \in Seq(Rolled)
  BY <1>1
<1>3. \A p \in Special(s) : One(p) \in Seq(Rolled)
  BY DEF One
<1>4. d \in Seq(Rolled)
  <2>1. CASE d \in [1..n -> {Drop(p, 1) : p \in PoolRoll(s)}]
    BY <1>2, <2>1
  <2>2. CASE \E r \in [1..n -> {Drop(p, 1) : p \in PoolRoll(s)}], p \in Special(s) : d = r \o One(p)
    BY <1>2, <1>3, <2>2, ConcatProperties
  <2> QED
    BY <2>1, <2>2 DEF GeneratedDrops
<1>5. d[i] \in Rolled
  BY <1>4, ElementOfSeq, LenProperties
<1>6. PICK p \in PoolRoll(s) \cup Special(s) : d[i] = Drop(p, 1)
  BY <1>5
<1>7. d[i].piece = p
  BY <1>6 DEF Drop
<1>8. p \in GeneratedPool(s)
  BY <1>6 DEF PoolRoll, GeneratedPool
<1>9. ListedAs(p) = p
  BY <1>6, PieceListed DEF PoolRoll, Special, ShardOf
<1> QED
  BY <1>7, <1>8, <1>9

LEMMA DropListed ==
  ASSUME NEW s \in Kinds, NEW on \in Nat, NEW d \in StageDrops(s, on), NEW i \in DOMAIN d
  PROVE  ListedAs(d[i].piece) \in Preview(s, on)
<1>1. CASE Origin(s) = "known"
  BY <1>1 DEF StageDrops, Preview
<1>2. CASE Origin(s) = "temple"
  <2>1. d \in TempleDrops(s, on) /\ Preview(s, on) = TemplePool(s, on)
    BY <1>2 DEF StageDrops, Preview
  <2> QED
    BY <1>2, <2>1, OneOrigin, TempleDrop
<1>3. CASE Origin(s) = "corridor"
  <2>1. d \in CorridorDrops(s) /\ Preview(s, on) = CorridorPool(s)
    BY <1>3 DEF StageDrops, Preview
  <2>2. PICK t \in CorridorTiers(s) : d[i].piece = Piece("gremlin", t)
    BY <2>1 DEF CorridorDrops, Drop
  <2> QED
    BY <2>1, <2>2, PieceListed DEF CorridorPool
<1>4. CASE Origin(s) = "karma"
  <2>1. d = One(Piece("karma", ClearReward(s).grade))
    BY <1>4 DEF StageDrops, KizunaDrops
  <2>2. d[i].piece = Piece("karma", ClearReward(s).grade)
    BY <2>1 DEF One, Drop
  <2>3. ClearReward(s).what = "karma"
    BY <1>4, DropsAssumption DEF DropsAssumption, Kinds, Origin, IsKarma
  <2> QED
    BY <1>4, <2>2, <2>3, PieceListed DEF Preview
<1>5. CASE Origin(s) = "farm"
  <2>1. d \in DungeonDrops(s)
    BY <1>5 DEF StageDrops
  <2>2. d[i].piece = Piece(ClearReward(s).what, ClearReward(s).grade)
    BY <2>1 DEF DungeonDrops, Drop
  <2> QED
    BY <1>5, <2>2, PieceListed DEF Preview
<1>6. CASE Origin(s) = "generated"
  <2>1. d \in GeneratedDrops(s) /\ Preview(s, on) = GeneratedPool(s)
    BY <1>6 DEF StageDrops, Preview
  <2> QED
    BY <2>1, GeneratedDrop
<1> QED
  BY <1>1, <1>2, <1>3, <1>4, <1>5, <1>6, OneOrigin

Rolled ==
  /\ day \in Nat
  /\ \/ loot = NoLoot
     \/ /\ loot.stage \in Kinds /\ loot.day \in Nat
        /\ loot.drops \in StageDrops(loot.stage, loot.day)

LEMMA RolledNext ==
  Rolled /\ SettlementInv /\ [Next]_vars => Rolled'
<1> SUFFICES ASSUME Rolled, SettlementInv, [Next]_vars PROVE Rolled'
  OBVIOUS
<1>1. CASE UNCHANGED <<day, loot>>
  BY <1>1 DEF Rolled
<1>2. CASE EndReward /\ Looted /\ UNCHANGED day
  <2>1. Kind \in Kinds
    BY <1>2, FightAtHand, BattleFacts DEF EndReward, Kind
  <2>2. CASE live.snap.won
    <3>1. PICK d \in StageDrops(Kind, day) : loot' = [stage |-> Kind, day |-> day, drops |-> d]
      BY <1>2, <2>2 DEF Looted, Rolled
    <3>2. loot'.stage = Kind /\ loot'.day = day /\ loot'.drops = d
      BY <3>1
    <3> QED
      BY <1>2, <2>1, <3>1, <3>2 DEF Rolled
  <2>3. CASE ~live.snap.won
    BY <1>2, <2>3 DEF Looted, Rolled
  <2> QED
    BY <2>2, <2>3
<1>3. CASE loot' = NoLoot /\ UNCHANGED day
  BY <1>3 DEF Rolled
<1>4. CASE NextDay
  BY <1>4 DEF NextDay, Rolled
<1> QED
  BY <1>1, <1>2, <1>3, <1>4 DEF Next, vars

(* Whatever the design rows of the stages are, what a clear pays is on the *)
(* list of that day, a temple fills its panel with shards of different     *)
(* slots, and a corridor pays all its pieces in however many waves.        *)
THEOREM DropsSafe == Spec => []DropsAsListed
<1>1. Init => Rolled
  BY DEF Init, Rolled
<1>2. Rolled => PreviewCovers
  <2> SUFFICES ASSUME Rolled, NEW i \in DOMAIN loot.drops
               PROVE  ListedAs(loot.drops[i].piece) \in Preview(loot.stage, loot.day)
    BY DEF PreviewCovers
  <2>1. loot # NoLoot
    BY DEF NoLoot
  <2> QED
    BY <2>1, DropListed DEF Rolled
<1>3. Rolled => ShardsOffered
  <2> SUFFICES ASSUME Rolled, loot.stage # "none", IsTemple(loot.stage) PROVE ShardsOffered
    BY DEF ShardsOffered
  <2>1. loot.stage \in Kinds /\ loot.day \in Nat /\ loot.drops \in StageDrops(loot.stage, loot.day)
    BY DEF Rolled, NoLoot
  <2>2. loot.drops \in TempleDrops(loot.stage, loot.day)
    BY <2>1, OneOrigin DEF StageDrops
  <2> QED
    BY <2>1, <2>2, TempleDrop DEF ShardsOffered
<1>4. Rolled => AllPiecesPaid
  <2> SUFFICES ASSUME Rolled, loot.stage # "none", Origin(loot.stage) = "corridor"
               PROVE  Total(loot.drops, "gremlin") = PiecesOf(loot.stage)
    BY DEF AllPiecesPaid
  <2>1. loot.stage \in Kinds /\ loot.drops \in StageDrops(loot.stage, loot.day)
    BY DEF Rolled, NoLoot
  <2> QED
    BY <2>1, CorridorDrop DEF StageDrops
<1>5. Spec => []Rolled
  BY <1>1, RolledNext, SettlementHolds, PTL DEF Spec
<1> QED
  BY <1>2, <1>3, <1>4, <1>5, PTL DEF DropsAsListed

=============================================================================
