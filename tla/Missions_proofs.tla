-------------------------- MODULE Missions_proofs --------------------------
(***************************************************************************)
(* What is earned is counted once.  Missions, their chains and the login   *)
(* ladder go on step by step, for any quests, any ladder, any length of a  *)
(* week and any time: what the steps of a login, the claims and everything *)
(* that pays leave of their books.                                         *)
(***************************************************************************)
EXTENDS Missions, Finite_proofs, FiniteSetTheorems, SequenceTheorems, TLAPS

Fields == {"cur", "bag", "energy", "gear", "casts", "quests", "sp", "db", "rev", "passDay",
           "stamps", "rung", "book", "total", "lastDay", "checkin", "mail", "karma",
           "decided", "job", "claims"}
Claims == [quest : Quests, at : [Groups -> Int]]

(* The books of the missions: their records, the windows they stand in and *)
(* the claims so far.  No claim was made in a window yet to come, and what *)
(* was claimed in the present window of its group is still marked done.    *)
Kept(a) ==
  /\ DOMAIN a = Fields
  /\ DOMAIN a.sp = Quests
  /\ \A q \in Quests : DOMAIN a.sp[q] = {"cnt", "done"}
  /\ a.stamps \in [Groups -> Int]
  /\ IsFiniteSet(a.claims) /\ a.claims \subseteq Claims
  /\ \A c \in a.claims : \A g \in Groups :
       /\ c.at[g] <= a.stamps[g]
       /\ c.quest \in Missions(g) /\ c.at[g] = a.stamps[g] => a.sp[c.quest].done

InChains(a) ==
  \A q \in Quests : QuestRow[q].sp /\ (a.sp[q].cnt > 0 \/ a.sp[q].done) =>
                      Completed(a, QuestRow[q].pre)

Booked(a) == Kept(a) /\ MetaCounts(a) /\ InChains(a)

(* The ladder: a day is counted when it is climbed, and at most once.      *)
OnLadder(a) ==
  /\ a.rung \in 0..Rungs /\ a.book \in Nat \ {0} /\ a.total \in Nat
  /\ a.lastDay \in Int
  /\ a.total = (a.book - 1) * Rungs + a.rung
  /\ a.total <= a.lastDay + 1

(* Nothing is stamped with a time to come.                                 *)
PeriodAt(g, t) == IF g = "daily" THEN (t + 1) \div 2 ELSE ((t + 1) \div 2) \div Week
Timely(a, t) ==
  /\ a.lastDay <= t \div 2
  /\ \A g \in Groups : a.stamps[g] <= PeriodAt(g, t)

AccountInv(a, t) == Booked(a) /\ OnLadder(a) /\ Timely(a, t)
StepInv == now \in Nat /\ AccountInv(mem, now) /\ AccountInv(disk, now)

-----------------------------------------------------------------------------
(* Time.                                                                   *)

LEMMA DivBounds ==
  ASSUME NEW n \in Nat, NEW d \in Nat \ {0}
  PROVE  n \div d \in Nat /\ d * (n \div d) <= n /\ n < d * (n \div d) + d
OBVIOUS

LEMMA DivMonotone ==
  ASSUME NEW n \in Nat, NEW m \in Nat, n <= m, NEW d \in Nat \ {0}
  PROVE  n \div d <= m \div d
<1> DEFINE a == n \div d
           b == m \div d
<1>1. a \in Nat /\ b \in Nat /\ d * a <= n /\ m < d * b + d
  BY DivBounds
<1> HIDE DEF a, b
<1>2. ASSUME b < a PROVE FALSE
  <2>1. b + 1 <= a
    BY <1>1, <1>2
  <2>2. d * (b + 1) <= d * a
    BY <1>1, <2>1
  <2>3. d * (b + 1) = d * b + d
    BY <1>1
  <2> QED BY <1>1, <2>2, <2>3
<1>3. a <= b
  BY <1>1, <1>2
<1> QED BY <1>3 DEF a, b

LEMMA PeriodFacts ==
  ASSUME NEW t \in Nat, NEW g \in Groups
  PROVE  /\ PeriodAt(g, t) \in Nat /\ PeriodAt(g, t) <= PeriodAt(g, t + 1)
         /\ t \div 2 \in Nat /\ t \div 2 <= (t + 1) \div 2
<1>1. /\ (t + 1) \div 2 \in Nat /\ ((t + 1) + 1) \div 2 \in Nat /\ t \div 2 \in Nat
      /\ (t + 1) \div 2 <= ((t + 1) + 1) \div 2 /\ t \div 2 <= (t + 1) \div 2
  BY DivBounds, DivMonotone
<1>2. /\ ((t + 1) \div 2) \div Week \in Nat
      /\ ((t + 1) \div 2) \div Week <= (((t + 1) + 1) \div 2) \div Week
  BY <1>1, DivBounds, DivMonotone, MissionsAssumption DEF MissionsAssumption
<1> QED BY <1>1, <1>2 DEF PeriodAt

LEMMA LaterIsTimely ==
  ASSUME NEW t \in Nat, NEW a, AccountInv(a, t)
  PROVE  AccountInv(a, t + 1)
<1>1. a.lastDay \in Int /\ a.lastDay <= t \div 2
  BY DEF AccountInv, OnLadder, Timely
<1>2. a.lastDay <= (t + 1) \div 2
  <2>1. t \div 2 \in Nat /\ t \div 2 <= (t + 1) \div 2 /\ (t + 1) \div 2 \in Nat
    BY PeriodFacts, DivBounds DEF Groups
  <2> QED BY <1>1, <2>1
<1>3. ASSUME NEW g \in Groups PROVE a.stamps[g] <= PeriodAt(g, t + 1)
  <2>1. a.stamps[g] \in Int /\ a.stamps[g] <= PeriodAt(g, t)
    BY DEF AccountInv, Booked, Kept, Timely
  <2>2. PeriodAt(g, t) \in Nat /\ PeriodAt(g, t + 1) \in Nat
    BY PeriodFacts
  <2> QED BY <2>1, <2>2, PeriodFacts
<1> QED BY <1>2, <1>3 DEF AccountInv, Timely

-----------------------------------------------------------------------------
(* What of an account an operation leaves alone.                           *)

Outside(a, b, F) == DOMAIN b = Fields /\ \A f \in Fields \ F : b[f] = a[f]
PurseFields == {"cur", "bag", "energy", "gear", "casts"}

LEMMA OutsideTwice ==
  ASSUME NEW F, NEW a, NEW b, NEW c, Outside(a, b, F), Outside(b, c, F)
  PROVE  Outside(a, c, F)
BY DEF Outside

LEMMA OutsideWider ==
  ASSUME NEW F, NEW G, F \subseteq G, NEW a, NEW b, Outside(a, b, F)
  PROVE  Outside(a, b, G)
BY DEF Outside

LEMMA HandOverOutside ==
  ASSUME NEW a, DOMAIN a = Fields, NEW w, NEW n
  PROVE  Outside(a, HandOver(a, w, n), PurseFields)
<1> DEFINE b == AddCurrency(a, "cash", n * w.cur["cash"])
           c == AddCurrency(b, "paid", n * w.cur["paid"])
           d == AddCurrency(c, "coin", n * w.cur["coin"])
<1>1. ASSUME NEW x, DOMAIN x = Fields, NEW k, NEW m
      PROVE  Outside(x, AddCurrency(x, k, m), PurseFields) /\ DOMAIN AddCurrency(x, k, m) = Fields
  BY <1>1 DEF AddCurrency, Outside, PurseFields, Fields
<1>2. Outside(a, b, PurseFields) /\ DOMAIN b = Fields
  BY <1>1
<1>3. Outside(b, c, PurseFields) /\ DOMAIN c = Fields
  <2> HIDE DEF b
  <2> QED BY <1>1, <1>2
<1>4. Outside(c, d, PurseFields) /\ DOMAIN d = Fields
  <2> HIDE DEF c
  <2> QED BY <1>1, <1>3
<1>5. Outside(d, HandOver(a, w, n), PurseFields)
  <2>1. HandOver(a, w, n) =
          [d EXCEPT !.energy = IF w.energy = 0 THEN @ ELSE Capped(@ + n * w.energy, 0),
                    !.gear = @ + AtLeastOne(n) * w.gear,
                    !.casts = @ + AtLeastOne(n) * w.casts,
                    !.bag = [i \in Items |->
                       IF w.bag[i] = 0 THEN @[i] ELSE Capped(@[i] + n * w.bag[i], 0)]]
    BY DEF HandOver
  <2> HIDE DEF d
  <2> QED BY <1>4, <2>1 DEF Outside, PurseFields, Fields
<1> HIDE DEF b, c, d
<1> QED BY <1>2, <1>3, <1>4, <1>5, OutsideTwice

LEMMA RewardOutside ==
  ASSUME NEW a, DOMAIN a = Fields, NEW i, NEW n
  PROVE  /\ Outside(a, GrantReward(a, i, n), PurseFields)
         /\ Outside(a, GrantGoods(a, i, n), PurseFields)
<1>1. Outside(a, HandOver(a, Worth[i], n), PurseFields)
  BY HandOverOutside
<1>2. Outside(a, GrantItem(a, i, n), PurseFields)
  BY DEF GrantItem, Outside, PurseFields, Fields
<1> QED BY <1>1, <1>2 DEF GrantReward, GrantGoods

LEMMA BumpOutside ==
  ASSUME NEW a, DOMAIN a = Fields, NEW case, NEW value, NEW n, NEW to
  PROVE  Outside(a, Bump(a, case, value, n, to), {"db", "sp"})
<1> DEFINE db == Shared(a, Moved(case, value), n, to)
           sp == [q \in Quests |->
                    IF /\ q \in Moved(case, value) /\ QuestRow[q].sp /\ ~a.sp[q].done
                       /\ Completed(a, QuestRow[q].pre)
                      THEN [a.sp[q] EXCEPT !.cnt = Bumped(@, n, to)] ELSE a.sp[q]]
<1>1. Bump(a, case, value, n, to) = [a EXCEPT !.db = db, !.sp = sp]
  BY DEF Bump
<1> HIDE DEF db, sp
<1> QED BY <1>1 DEF Outside, Fields

LEMMA RescueOutside ==
  ASSUME NEW a, DOMAIN a = Fields
  PROVE  Outside(a, RescueAll(a), PurseFields)
BY DEF RescueAll, WithPurse, Outside, PurseFields, Fields

LEMMA AttachedOutside ==
  ASSUME NEW a, DOMAIN a = Fields, NEW items
  PROVE  Outside(a, Attached(a, items), PurseFields)
BY DEF Attached, WithPurse, Outside, PurseFields, Fields

LEMMA SweepOutside ==
  ASSUME NEW a, DOMAIN a = Fields, NEW n, NEW express
  PROVE  /\ Outside(a, Stopped(a), {"bag", "job"})
         /\ Outside(a, Settled(a), {"bag", "job"})
         /\ Outside(a, Settled(StartedSweep(a, n, express)), {"bag", "job"})
<1>1. ASSUME NEW b, DOMAIN b = Fields
      PROVE  Outside(b, Stopped(b), {"bag", "job"}) /\ Outside(b, Settled(b), {"bag", "job"})
  <2>1. Outside(b, Stopped(b), {"bag", "job"}) /\ Outside(b, b, {"bag", "job"})
    BY <1>1 DEF Stopped, Outside, Fields
  <2> QED BY <2>1 DEF Settled
<1> DEFINE b == StartedSweep(a, n, express)
<1>2. Outside(a, b, {"bag", "job"}) /\ DOMAIN b = Fields
  BY DEF StartedSweep, Outside, Fields
<1> HIDE DEF b
<1>3. Outside(a, Settled(b), {"bag", "job"})
  BY <1>1, <1>2, OutsideTwice
<1> QED BY <1>1, <1>3 DEF b

LEMMA ClaimOutside ==
  ASSUME NEW a, DOMAIN a = Fields, NEW n
  PROVE  Outside(a, ClaimMail(a, n), PurseFields \cup {"mail"})
<1> DEFINE b == Attached(a, a.mail[n].items)
           c == [b EXCEPT !.mail[n].read = TRUE]
<1>1. ClaimMail(a, n) = IF a.mail[n].read THEN a ELSE c
  BY DEF ClaimMail
<1>2. Outside(a, b, PurseFields)
  BY AttachedOutside
<1> HIDE DEF b
<1>3. Outside(a, c, PurseFields \cup {"mail"}) /\ Outside(a, a, PurseFields \cup {"mail"})
  BY <1>2 DEF Outside, Fields, PurseFields
<1> HIDE DEF c
<1> QED BY <1>1, <1>3

LEMMA CompleteOutside ==
  ASSUME NEW a, DOMAIN a = Fields, NEW q
  PROVE  Outside(a, Complete(a, q), PurseFields \cup {"sp", "db", "quests", "claims"})
<1> DEFINE F == PurseFields \cup {"sp", "db", "quests", "claims"}
           rec == [cnt |-> IF a.sp[q].cnt < QuestRow[q].need THEN QuestRow[q].need
                           ELSE a.sp[q].cnt, done |-> TRUE]
           done == [a EXCEPT !.sp[q] = rec]
           main == [a EXCEPT !.quests = @ \cup {q}]
           claimed == [done EXCEPT !.claims = @ \cup {[quest |-> q, at |-> done.stamps]}]
           credited == Count(claimed, "claimed", GroupId(QuestRow[q].group), 1)
           b == IF ~QuestRow[q].sp THEN main
                ELSE IF a.sp[q].done THEN done
                ELSE IF QuestRow[q].group = "none" THEN done ELSE credited
<1>1. Complete(a, q) = Paid(b, q)
  BY DEF Complete, Credit
<1>2. Outside(a, main, F) /\ Outside(a, done, F) /\ DOMAIN done = Fields
  BY DEF Outside, PurseFields, Fields
<1> HIDE DEF done, main
<1>3. Outside(a, claimed, F) /\ DOMAIN claimed = Fields
  BY <1>2 DEF Outside, Fields
<1> HIDE DEF claimed
<1>4. Outside(claimed, credited, {"db", "sp"})
  BY <1>3, BumpOutside DEF Count
<1>5. {"db", "sp"} \subseteq F /\ PurseFields \subseteq F
  OBVIOUS
<1> HIDE DEF credited, F
<1>6. Outside(a, credited, F)
  BY <1>3, <1>4, <1>5, OutsideWider, OutsideTwice
<1>7. Outside(a, b, F)
  BY <1>2, <1>6
<1> HIDE DEF b
<1>8. DOMAIN b = Fields
  BY <1>7 DEF Outside
<1>9. Outside(b, Paid(b, q), F)
  <2>1. Outside(b, GrantGoods(b, QuestRow[q].item, QuestRow[q].count), F)
    BY <1>5, <1>8, RewardOutside, OutsideWider
  <2>2. Outside(b, b, F)
    BY <1>8 DEF Outside
  <2> QED BY <2>1, <2>2 DEF Paid
<1> QED BY <1>1, <1>7, <1>9, OutsideTwice DEF F

-----------------------------------------------------------------------------
(* What pays, and what is paid, leaves the books as they are.              *)

Same(a, b) ==
  /\ DOMAIN b = DOMAIN a
  /\ b.quests = a.quests /\ b.sp = a.sp /\ b.stamps = a.stamps /\ b.claims = a.claims
  /\ b.rung = a.rung /\ b.book = a.book /\ b.total = a.total /\ b.lastDay = a.lastDay

LEMMA SameKeeps ==
  ASSUME NEW a, NEW b, Same(a, b), NEW t, AccountInv(a, t)
  PROVE  AccountInv(b, t)
<1>1. Booked(b)
  BY DEF Same, AccountInv, Booked, Kept, MetaCounts, Counted, InChains, Completed
<1>2. OnLadder(b) /\ Timely(b, t)
  BY DEF Same, AccountInv, OnLadder, Timely
<1> QED BY <1>1, <1>2 DEF AccountInv

LEMMA SameTwice ==
  ASSUME NEW a, NEW b, NEW c, Same(a, b), Same(b, c)
  PROVE  Same(a, c)
BY DEF Same

(* What edits none of the books leaves them as they are.                   *)
Books == {"quests", "sp", "stamps", "claims", "rung", "book", "total", "lastDay"}

LEMMA OutsideSame ==
  ASSUME NEW a, DOMAIN a = Fields, NEW b, NEW F, Outside(a, b, F), F \cap Books = {}
  PROVE  Same(a, b) /\ DOMAIN b = Fields
BY DEF Outside, Same, Books, Fields

LEMMA CurrencySame ==
  ASSUME NEW a, DOMAIN a = Fields, NEW k, NEW n
  PROVE  Same(a, AddCurrency(a, k, n)) /\ DOMAIN AddCurrency(a, k, n) = Fields
BY DEF AddCurrency, Same, Fields

LEMMA RewardSame ==
  ASSUME NEW a, DOMAIN a = Fields, NEW i, NEW n
  PROVE  /\ Same(a, GrantReward(a, i, n)) /\ Same(a, GrantGoods(a, i, n))
         /\ DOMAIN GrantReward(a, i, n) = Fields /\ DOMAIN GrantGoods(a, i, n) = Fields
BY RewardOutside, OutsideSame DEF Books, PurseFields

LEMMA PaidSame ==
  ASSUME NEW a, DOMAIN a = Fields, NEW q
  PROVE  Same(a, Paid(a, q))
<1>1. Same(a, a)
  BY DEF Same
<1> QED BY <1>1, RewardSame DEF Paid

LEMMA RefillSame ==
  ASSUME NEW a, DOMAIN a = Fields
  PROVE  Same(a, RefillPasses(a)) /\ DOMAIN RefillPasses(a) = Fields
BY DEF RefillPasses, Same, Fields

LEMMA RescueSame ==
  ASSUME NEW a, DOMAIN a = Fields
  PROVE  Same(a, RescueAll(a))
BY RescueOutside, OutsideSame DEF Books, PurseFields

LEMMA MigrateSame ==
  ASSUME NEW a, DOMAIN a = Fields
  PROVE  Same(a, MigrateBalances(a))
BY DEF MigrateBalances, Same, Fields

LEMMA MailSame ==
  ASSUME NEW a, DOMAIN a = Fields, NEW kind, NEW items, NEW n
  PROVE  /\ Same(a, AddMail(a, kind, items)) /\ DOMAIN AddMail(a, kind, items) = Fields
         /\ Same(a, ClaimMail(a, n))
<1>1. Same(a, AddMail(a, kind, items)) /\ DOMAIN AddMail(a, kind, items) = Fields
  BY DEF AddMail, Same, Fields
<1>2. Same(a, ClaimMail(a, n))
  BY ClaimOutside, OutsideSame DEF Books, PurseFields
<1> QED BY <1>1, <1>2

LEMMA SweepSame ==
  ASSUME NEW a, DOMAIN a = Fields, NEW n, NEW express
  PROVE  /\ Same(a, Stopped(a)) /\ Same(a, Settled(a))
         /\ Same(a, Settled(StartedSweep(a, n, express)))
BY SweepOutside, OutsideSame DEF Books


-----------------------------------------------------------------------------
(* The counters.                                                           *)

(* A bump adds to open records whose predecessor was claimed.              *)
LEMMA BumpFacts ==
  ASSUME NEW a, Kept(a), NEW case, NEW value, NEW n, NEW to
  PROVE  LET b == Bump(a, case, value, n, to)
         IN /\ DOMAIN b = Fields /\ DOMAIN b.sp = Quests
            /\ b.quests = a.quests /\ b.stamps = a.stamps /\ b.claims = a.claims
            /\ b.rung = a.rung /\ b.book = a.book /\ b.total = a.total
            /\ b.lastDay = a.lastDay
            /\ \A q \in Quests :
                 /\ DOMAIN b.sp[q] = {"cnt", "done"} /\ b.sp[q].done = a.sp[q].done
                 /\ b.sp[q].cnt = IF /\ q \in Moved(case, value) /\ QuestRow[q].sp
                                     /\ ~a.sp[q].done /\ Completed(a, QuestRow[q].pre)
                                    THEN Bumped(a.sp[q].cnt, n, to) ELSE a.sp[q].cnt
<1> DEFINE hit == Moved(case, value)
           sp == [q \in Quests |->
                    IF /\ q \in hit /\ QuestRow[q].sp /\ ~a.sp[q].done
                       /\ Completed(a, QuestRow[q].pre)
                      THEN [a.sp[q] EXCEPT !.cnt = Bumped(@, n, to)] ELSE a.sp[q]]
           b == [a EXCEPT !.db = Shared(a, hit, n, to), !.sp = sp]
<1>1. Bump(a, case, value, n, to) = b
  BY DEF Bump
<1>2. /\ DOMAIN sp = Quests
      /\ \A q \in Quests :
           /\ DOMAIN sp[q] = {"cnt", "done"} /\ sp[q].done = a.sp[q].done
           /\ sp[q].cnt = IF /\ q \in Moved(case, value) /\ QuestRow[q].sp
                             /\ ~a.sp[q].done /\ Completed(a, QuestRow[q].pre)
                            THEN Bumped(a.sp[q].cnt, n, to) ELSE a.sp[q].cnt
  BY DEF Kept
<1> HIDE DEF sp
<1>3. /\ DOMAIN b = Fields /\ b.sp = sp
      /\ b.quests = a.quests /\ b.stamps = a.stamps /\ b.claims = a.claims
      /\ b.rung = a.rung /\ b.book = a.book /\ b.total = a.total
      /\ b.lastDay = a.lastDay
  BY DEF Kept, Fields
<1> HIDE DEF b
<1> QED BY <1>1, <1>2, <1>3

(* Progress of any kind but claims.                                        *)
LEMMA BumpKeeps ==
  ASSUME NEW a, NEW t, AccountInv(a, t), NEW case, case # "claimed",
         NEW value, NEW n, NEW to
  PROVE  AccountInv(Bump(a, case, value, n, to), t)
<1> DEFINE b == Bump(a, case, value, n, to)
<1>1. Kept(a) /\ MetaCounts(a) /\ InChains(a) /\ OnLadder(a) /\ Timely(a, t)
  BY DEF AccountInv, Booked
<1>2. /\ DOMAIN b = Fields /\ DOMAIN b.sp = Quests
      /\ b.quests = a.quests /\ b.stamps = a.stamps /\ b.claims = a.claims
      /\ b.rung = a.rung /\ b.book = a.book /\ b.total = a.total
      /\ b.lastDay = a.lastDay
      /\ \A q \in Quests :
           /\ DOMAIN b.sp[q] = {"cnt", "done"} /\ b.sp[q].done = a.sp[q].done
           /\ b.sp[q].cnt = IF /\ q \in Moved(case, value) /\ QuestRow[q].sp
                               /\ ~a.sp[q].done /\ Completed(a, QuestRow[q].pre)
                              THEN Bumped(a.sp[q].cnt, n, to) ELSE a.sp[q].cnt
  BY <1>1, BumpFacts
<1> HIDE DEF b
<1>3. Kept(b)
  BY <1>1, <1>2 DEF Kept, Missions
<1>4. \A p : Completed(b, p) = Completed(a, p)
  BY <1>2 DEF Completed
<1>5. InChains(b)
  BY <1>1, <1>2, <1>4 DEF InChains
<1>6. MetaCounts(b)
  <2>1. \A q \in Quests : QuestRow[q].case = "claimed" => b.sp[q].cnt = a.sp[q].cnt
    BY <1>2 DEF Moved
  <2>2. \A m, g : Counted(b, m, g) = Counted(a, m, g)
    BY <1>2 DEF Counted
  <2> QED BY <1>1, <1>2, <2>1, <2>2 DEF MetaCounts, Missions
<1>7. OnLadder(b) /\ Timely(b, t)
  BY <1>1, <1>2 DEF OnLadder, Timely
<1> QED BY <1>3, <1>5, <1>6, <1>7 DEF AccountInv, Booked, b

LEMMA GroupFacts ==
  ASSUME NEW q \in Quests, QuestRow[q].group # "none"
  PROVE  /\ QuestRow[q].group \in Groups /\ q \in Missions(QuestRow[q].group)
         /\ GroupId(QuestRow[q].group) # AnyValue
         /\ \A g \in Groups : q \in Missions(g) => g = QuestRow[q].group
<1>1. QuestRow[q] \in QuestRows
  BY PurseAssumption DEF PurseAssumption
<1>2. QuestRow[q].group \in Groups /\ QuestRow[q].sp
  BY <1>1, DesignAssumption DEF QuestRows, Groups, DesignAssumption
<1>3. GroupId(QuestRow[q].group) \in Values /\ AnyValue \notin Values
  BY PurseAssumption DEF PurseAssumption, GroupId, Values
<1> QED BY <1>2, <1>3 DEF Missions

(* A claim: the record is closed, and the first one is credited.           *)
LEMMA CompleteKeeps ==
  ASSUME NEW a, NEW t, AccountInv(a, t), NEW q \in Quests, Claimable(a, q)
  PROVE  AccountInv(Complete(a, q), t)
<1> DEFINE rec == [cnt |-> IF a.sp[q].cnt < QuestRow[q].need THEN QuestRow[q].need
                           ELSE a.sp[q].cnt, done |-> TRUE]
           sp == [a.sp EXCEPT ![q] = rec]
           done == [a EXCEPT !.sp = sp]
           main == [a EXCEPT !.quests = @ \cup {q}]
<1>0. Kept(a) /\ MetaCounts(a) /\ InChains(a) /\ OnLadder(a) /\ Timely(a, t)
  BY DEF AccountInv, Booked
<1>1. Complete(a, q) = Paid(IF ~QuestRow[q].sp THEN main
                            ELSE IF a.sp[q].done THEN done ELSE Credit(done, q), q)
  BY DEF Complete
<1>2. /\ DOMAIN sp = Quests /\ sp[q].done
      /\ \A r \in Quests : /\ DOMAIN sp[r] = {"cnt", "done"}
                           /\ r # q => sp[r] = a.sp[r]
                           /\ a.sp[r].done => sp[r].done
  BY <1>0 DEF Kept
<1>3. /\ DOMAIN done = Fields /\ done.sp = sp
      /\ done.quests = a.quests /\ done.stamps = a.stamps /\ done.claims = a.claims
      /\ done.rung = a.rung /\ done.book = a.book /\ done.total = a.total
      /\ done.lastDay = a.lastDay
  BY <1>0 DEF Kept, Fields
<1> HIDE DEF done, sp
<1>4. Kept(done)
  BY <1>0, <1>2, <1>3 DEF Kept, Missions
<1>5. InChains(done)
  <2>1. \A p : Completed(a, p) => Completed(done, p)
    BY <1>2, <1>3 DEF Completed
  <2>2. Completed(a, QuestRow[q].pre)
    BY DEF Claimable
  <2> QED BY <1>0, <1>2, <1>3, <2>1, <2>2 DEF InChains
<1>6. MetaCounts(done)
  <2>1. \A m, g : Counted(done, m, g) = Counted(a, m, g)
    BY <1>3 DEF Counted
  <2> QED BY <1>0, <1>2, <1>3, <2>1 DEF MetaCounts, Missions
<1>7. OnLadder(done) /\ Timely(done, t)
  BY <1>0, <1>3 DEF OnLadder, Timely
<1>8. AccountInv(done, t)
  BY <1>4, <1>5, <1>6, <1>7 DEF AccountInv, Booked
<1>9. AccountInv(main, t)
  <2>1. /\ DOMAIN main = Fields /\ main.quests = a.quests \cup {q}
        /\ main.sp = a.sp /\ main.stamps = a.stamps /\ main.claims = a.claims
        /\ main.rung = a.rung /\ main.book = a.book /\ main.total = a.total
        /\ main.lastDay = a.lastDay
    BY <1>0 DEF Kept, Fields
  <2> HIDE DEF main
  <2>2. Kept(main) /\ OnLadder(main) /\ Timely(main, t)
    BY <1>0, <2>1 DEF Kept, OnLadder, Timely
  <2>3. InChains(main)
    BY <1>0, <2>1 DEF InChains, Completed
  <2>4. MetaCounts(main)
    BY <1>0, <2>1 DEF MetaCounts, Counted
  <2> QED BY <2>2, <2>3, <2>4 DEF AccountInv, Booked
<1>10. ASSUME QuestRow[q].sp, ~a.sp[q].done, QuestRow[q].group # "none"
       PROVE  AccountInv(Credit(done, q), t)
  <2> DEFINE e == [quest |-> q, at |-> done.stamps]
             v == GroupId(QuestRow[q].group)
             c == [done EXCEPT !.claims = @ \cup {e}]
             b == Bump(c, "claimed", v, 1, FALSE)
  <2>1. Credit(done, q) = b
    BY <1>10 DEF Credit, Count
  <2>2. e \in Claims /\ e.quest = q /\ e.at = a.stamps /\ e \notin a.claims
    <3>1. e \in Claims /\ e.quest = q /\ e.at = a.stamps
      BY <1>0, <1>3 DEF Kept, Claims
    <3>2. ASSUME e \in a.claims PROVE FALSE
      BY <1>0, <1>10, <3>1, <3>2, GroupFacts DEF Kept
    <3> QED BY <3>1, <3>2
  <2>3. /\ DOMAIN c = Fields /\ c.claims = a.claims \cup {e} /\ c.sp = sp
        /\ c.quests = a.quests /\ c.stamps = a.stamps
        /\ c.rung = a.rung /\ c.book = a.book /\ c.total = a.total
        /\ c.lastDay = a.lastDay
    BY <1>3 DEF Fields
  <2> HIDE DEF c, e
  <2>4. Kept(c)
    <3>1. IsFiniteSet(c.claims) /\ c.claims \subseteq Claims
      BY <1>0, <2>2, <2>3, FS_AddElement DEF Kept
    <3>2. ASSUME NEW g \in Groups
          PROVE  e.at[g] <= a.stamps[g]
      BY <1>0, <2>2 DEF Kept
    <3>3. ASSUME NEW d \in c.claims, NEW g \in Groups
          PROVE  /\ d.at[g] <= c.stamps[g]
                 /\ d.quest \in Missions(g) /\ d.at[g] = c.stamps[g] => c.sp[d.quest].done
      <4>1. CASE d = e
        BY <1>2, <2>2, <2>3, <3>2, <4>1
      <4>2. CASE d \in a.claims
        BY <1>0, <1>2, <2>3, <4>2 DEF Kept, Missions
      <4> QED BY <2>3, <4>1, <4>2
    <3>4. DOMAIN c = Fields /\ DOMAIN c.sp = Quests /\ c.stamps \in [Groups -> Int]
          /\ \A r \in Quests : DOMAIN c.sp[r] = {"cnt", "done"}
      BY <1>0, <1>2, <2>3 DEF Kept
    <3> QED BY <3>1, <3>3, <3>4 DEF Kept
  <2>5. /\ DOMAIN b = Fields /\ DOMAIN b.sp = Quests
        /\ b.quests = c.quests /\ b.stamps = c.stamps /\ b.claims = c.claims
        /\ b.rung = c.rung /\ b.book = c.book /\ b.total = c.total
        /\ b.lastDay = c.lastDay
        /\ \A r \in Quests :
             /\ DOMAIN b.sp[r] = {"cnt", "done"} /\ b.sp[r].done = c.sp[r].done
             /\ b.sp[r].cnt = IF /\ r \in Moved("claimed", v) /\ QuestRow[r].sp
                                 /\ ~c.sp[r].done /\ Completed(c, QuestRow[r].pre)
                                THEN Bumped(c.sp[r].cnt, 1, FALSE) ELSE c.sp[r].cnt
    <3> HIDE DEF v
    <3>1. \A to : b = Bump(c, "claimed", v, 1, to) =>
            /\ DOMAIN b = Fields /\ DOMAIN b.sp = Quests
            /\ b.quests = c.quests /\ b.stamps = c.stamps /\ b.claims = c.claims
            /\ b.rung = c.rung /\ b.book = c.book /\ b.total = c.total
            /\ b.lastDay = c.lastDay
            /\ \A r \in Quests :
                 /\ DOMAIN b.sp[r] = {"cnt", "done"} /\ b.sp[r].done = c.sp[r].done
                 /\ b.sp[r].cnt = IF /\ r \in Moved("claimed", v) /\ QuestRow[r].sp
                                     /\ ~c.sp[r].done /\ Completed(c, QuestRow[r].pre)
                                    THEN Bumped(c.sp[r].cnt, 1, to) ELSE c.sp[r].cnt
      <4> HIDE DEF b
      <4> QED BY <2>4, BumpFacts
    <3> QED BY <3>1, Zenon
  <2> HIDE DEF b
  <2>6. Kept(b) /\ OnLadder(b) /\ Timely(b, t)
    <3>1. Kept(b)
      BY <2>4, <2>5 DEF Kept, Missions
    <3>2. OnLadder(b) /\ Timely(b, t)
      BY <1>0, <2>3, <2>5 DEF OnLadder, Timely
    <3> QED BY <3>1, <3>2
  <2>7. InChains(b)
    <3>1. \A p : Completed(b, p) = Completed(done, p) /\ Completed(c, p) = Completed(done, p)
      BY <1>3, <2>3, <2>5 DEF Completed
    <3> QED BY <1>3, <1>5, <2>3, <2>5, <3>1 DEF InChains
  <2>8. MetaCounts(b)
    <3> SUFFICES ASSUME NEW g \in Groups, NEW m \in Missions(g),
                        QuestRow[m].case = "claimed", QuestRow[m].served,
                        QuestRow[m].pre = NoQuest, ~b.sp[m].done
                 PROVE  b.sp[m].cnt = Cardinality(Counted(b, m, g))
      BY DEF MetaCounts
    <3>1. m \in Quests /\ QuestRow[m].sp /\ m # q /\ ~a.sp[m].done /\ c.sp[m] = a.sp[m]
          /\ ~c.sp[m].done /\ Completed(c, QuestRow[m].pre)
      BY <1>2, <2>3, <2>5 DEF Missions, Completed
    <3>2. a.sp[m].cnt = Cardinality(Counted(a, m, g)) /\ IsFiniteSet(Counted(a, m, g))
      <4>1. IsFiniteSet(Counted(a, m, g))
        BY <1>0, FS_Subset DEF Counted, Kept
      <4> QED BY <1>0, <3>1, <4>1 DEF MetaCounts
    <3>3. b.sp[m].cnt = IF QuestRow[m].value = v THEN a.sp[m].cnt + 1 ELSE a.sp[m].cnt
      <4>1. v # AnyValue
        BY <1>10, GroupFacts
      <4>2. m \in Moved("claimed", v) <=> QuestRow[m].value = v
        BY <3>1, <4>1 DEF Moved
      <4> QED BY <2>5, <3>1, <4>2 DEF Bumped
    <3>4. Counted(b, m, g) = IF QuestRow[m].value = v THEN Counted(a, m, g) \cup {e}
                             ELSE Counted(a, m, g)
      BY <2>2, <2>3, <2>5 DEF Counted
    <3>5. e \notin Counted(a, m, g)
      BY <2>2 DEF Counted
    <3> QED BY <3>2, <3>3, <3>4, <3>5, FS_AddElement
  <2> QED BY <2>1, <2>6, <2>7, <2>8 DEF AccountInv, Booked
<1>11. ASSUME QuestRow[q].sp, ~a.sp[q].done, QuestRow[q].group = "none"
       PROVE  AccountInv(Credit(done, q), t)
  BY <1>8, <1>11 DEF Credit
<1> DEFINE c == IF ~QuestRow[q].sp THEN main
                ELSE IF a.sp[q].done THEN done ELSE Credit(done, q)
<1>12. AccountInv(c, t)
  BY <1>8, <1>9, <1>10, <1>11
<1> HIDE DEF c
<1>13. Same(c, Paid(c, q))
  BY <1>12, PaidSame DEF AccountInv, Booked, Kept
<1> QED BY <1>1, <1>12, <1>13, SameKeeps DEF c


LEMMA CountKeeps ==
  ASSUME NEW a, NEW t, AccountInv(a, t), NEW case, case # "claimed", NEW value, NEW n
  PROVE  AccountInv(Count(a, case, value, n), t) /\ AccountInv(Reach(a, case, value, n), t)
<1>1. \A to : AccountInv(Bump(a, case, value, n, to), t)
  BY BumpKeeps
<1> QED BY <1>1, Zenon DEF Count, Reach

-----------------------------------------------------------------------------
(* The login.                                                              *)

(* A new window begins with open records; the old claims are not of it.    *)
LEMMA RearmKeeps ==
  ASSUME now \in Nat, NEW a, AccountInv(a, now)
  PROVE  AccountInv(Rearm(a), now)
<1> DEFINE sp == [q \in Quests |->
                    IF \E g \in Due(a) : q \in Missions(g) THEN NothingDone ELSE a.sp[q]]
           stamps == [g \in Groups |-> Period(g)]
           b == [a EXCEPT !.stamps = stamps, !.sp = sp]
<1>0. Kept(a) /\ MetaCounts(a) /\ InChains(a) /\ OnLadder(a) /\ Timely(a, now)
  BY DEF AccountInv, Booked
<1>1. Rearm(a) = b
  BY DEF Rearm
<1>2. ASSUME NEW g \in Groups
      PROVE  /\ Period(g) = PeriodAt(g, now) /\ Period(g) \in Nat
             /\ stamps[g] = Period(g) /\ a.stamps[g] \in Int /\ a.stamps[g] <= Period(g)
             /\ g \notin Due(a) => a.stamps[g] = Period(g)
             /\ g \in Due(a) => a.stamps[g] < Period(g)
  <2>1. Period(g) = PeriodAt(g, now)
    BY DEF Period, PeriodAt, Day
  <2>2. Period(g) \in Nat /\ a.stamps[g] \in Int /\ a.stamps[g] <= Period(g)
    BY <1>0, <2>1, PeriodFacts DEF Kept, Timely
  <2> QED BY <2>1, <2>2 DEF Due
<1>3. /\ DOMAIN b = Fields /\ b.sp = sp /\ b.stamps = stamps
      /\ b.quests = a.quests /\ b.claims = a.claims
      /\ b.rung = a.rung /\ b.book = a.book /\ b.total = a.total
      /\ b.lastDay = a.lastDay
  BY <1>0 DEF Kept, Fields
<1>4. /\ DOMAIN sp = Quests
      /\ \A q \in Quests :
           /\ DOMAIN sp[q] = {"cnt", "done"}
           /\ (\E g \in Due(a) : q \in Missions(g)) => sp[q].cnt = 0 /\ ~sp[q].done
           /\ (\A g \in Due(a) : q \notin Missions(g)) => sp[q] = a.sp[q]
  BY <1>0 DEF Kept, NothingDone
<1>5. stamps \in [Groups -> Int]
  BY <1>2
<1> HIDE DEF b, sp, stamps
<1>6. \A c \in a.claims : c.quest \in Quests /\ c.at \in [Groups -> Int]
  BY <1>0 DEF Kept, Claims
<1>7. \A q \in Quests : \A g, h \in Groups : q \in Missions(g) /\ q \in Missions(h) => g = h
  BY DEF Missions
<1>8. Due(a) \subseteq Groups
  BY DEF Due
<1>9. Kept(b)
  <2>1. ASSUME NEW c \in a.claims, NEW g \in Groups
        PROVE  /\ c.at[g] <= stamps[g]
               /\ c.quest \in Missions(g) /\ c.at[g] = stamps[g] => sp[c.quest].done
    <3>1. c.at[g] \in Int /\ c.at[g] <= a.stamps[g]
      BY <1>0, <1>6 DEF Kept
    <3>2. CASE g \in Due(a)
      BY <1>2, <3>1, <3>2
    <3>3. CASE g \notin Due(a)
      <4>1. a.stamps[g] = stamps[g]
        BY <1>2, <3>3
      <4>2. ASSUME c.quest \in Missions(g), c.at[g] = stamps[g] PROVE sp[c.quest].done
        <5>1. a.sp[c.quest].done
          BY <1>0, <4>1, <4>2 DEF Kept
        <5>2. \A h \in Due(a) : c.quest \notin Missions(h)
          BY <1>6, <1>7, <1>8, <3>3, <4>2
        <5> QED BY <1>4, <1>6, <5>1, <5>2
      <4> QED BY <3>1, <4>1, <4>2
    <3> QED BY <3>2, <3>3
  <2>2. /\ IsFiniteSet(b.claims) /\ b.claims \subseteq Claims
        /\ \A q \in Quests : DOMAIN b.sp[q] = {"cnt", "done"}
    BY <1>0, <1>3, <1>4 DEF Kept
  <2> QED BY <1>3, <1>4, <1>5, <2>1, <2>2 DEF Kept
<1>10. MetaCounts(b)
  <2> SUFFICES ASSUME NEW g \in Groups, NEW m \in Missions(g),
                      QuestRow[m].case = "claimed", QuestRow[m].served,
                      QuestRow[m].pre = NoQuest, ~b.sp[m].done
               PROVE  b.sp[m].cnt = Cardinality(Counted(b, m, g))
    BY DEF MetaCounts
  <2>1. m \in Quests
    BY DEF Missions
  <2>2. CASE g \in Due(a)
    <3>1. Counted(b, m, g) = {}
      <4>1. ASSUME NEW c \in a.claims PROVE c.at[g] # stamps[g]
        <5>1. c.at[g] \in Int /\ c.at[g] <= a.stamps[g]
          BY <1>0, <1>6 DEF Kept
        <5> QED BY <1>2, <2>2, <5>1
      <4> QED BY <1>3, <4>1 DEF Counted
    <3> QED BY <1>3, <1>4, <2>1, <2>2, <3>1, FS_EmptySet
  <2>3. CASE g \notin Due(a)
    <3>1. Counted(b, m, g) = Counted(a, m, g)
      BY <1>2, <1>3, <2>3 DEF Counted
    <3>2. b.sp[m] = a.sp[m]
      BY <1>3, <1>4, <1>7, <1>8, <2>1, <2>3
    <3> QED BY <1>0, <3>1, <3>2 DEF MetaCounts
  <2> QED BY <2>2, <2>3
<1>11. InChains(b)
  <2> SUFFICES ASSUME NEW q \in Quests, QuestRow[q].sp, b.sp[q].cnt > 0 \/ b.sp[q].done
               PROVE  Completed(b, QuestRow[q].pre)
    BY DEF InChains
  <2>1. \A g \in Due(a) : q \notin Missions(g)
    BY <1>3, <1>4
  <2>2. Completed(a, QuestRow[q].pre)
    BY <1>0, <1>3, <1>4, <2>1 DEF InChains
  <2>3. \A g \in Due(a) : QuestRow[q].pre \notin Missions(g)
    BY <1>8, <2>1, DesignAssumption DEF DesignAssumption
  <2> QED BY <1>3, <1>4, <2>2, <2>3 DEF Completed
<1>12. OnLadder(b) /\ Timely(b, now)
  BY <1>0, <1>2, <1>3 DEF OnLadder, Timely
<1> QED BY <1>1, <1>9, <1>10, <1>11, <1>12 DEF AccountInv, Booked

(* A rung a day: the book is turned where the ladder ends.                 *)
LEMMA ClimbKeeps ==
  ASSUME now \in Nat, NEW a, AccountInv(a, now)
  PROVE  AccountInv(Climb(a), now)
<1> DEFINE wrap == a.rung + 1 > Rungs
           day == IF wrap THEN 1 ELSE a.rung + 1
           c == [a EXCEPT !.rung = day, !.book = IF wrap THEN @ + 1 ELSE @,
                          !.checkin = day, !.total = @ + 1, !.lastDay = UtcDay]
           r == RungItem[day]
           mailed == AddMail(c, "ladder", [NoItems EXCEPT ![r.item] = r.n])
           d == IF r.n = 0 THEN c ELSE mailed
<1>0. Kept(a) /\ MetaCounts(a) /\ InChains(a) /\ OnLadder(a) /\ Timely(a, now)
  BY DEF AccountInv, Booked
<1>1. Climb(a) = IF a.lastDay = UtcDay THEN a ELSE Reach(d, "days", AnyValue, a.total + 1)
  BY DEF Climb
<1>2. /\ DOMAIN c = Fields
      /\ c.quests = a.quests /\ c.sp = a.sp /\ c.stamps = a.stamps /\ c.claims = a.claims
      /\ c.rung = day /\ c.book = (IF wrap THEN a.book + 1 ELSE a.book)
      /\ c.total = a.total + 1 /\ c.lastDay = UtcDay
  BY <1>0 DEF Kept, Fields
<1>3. ASSUME a.lastDay # UtcDay PROVE AccountInv(c, now)
  <2>1. Booked(c)
    BY <1>0, <1>2 DEF Booked, Kept, MetaCounts, Counted, InChains, Completed
  <2>2. Timely(c, now)
    <3>1. UtcDay = now \div 2 /\ UtcDay \in Nat
      BY PeriodFacts DEF UtcDay, Groups
    <3> QED BY <1>0, <1>2, <3>1 DEF Timely
  <2>3. OnLadder(c)
    <3>1. /\ a.rung \in 0..Rungs /\ a.book \in Nat \ {0} /\ a.total \in Nat
          /\ a.lastDay \in Int /\ a.total = (a.book - 1) * Rungs + a.rung
          /\ a.total <= a.lastDay + 1 /\ Rungs \in Nat \ {0}
      BY <1>0, MissionsAssumption DEF OnLadder, MissionsAssumption
    <3>2. UtcDay \in Nat /\ a.lastDay < UtcDay
      <4>1. UtcDay = now \div 2 /\ UtcDay \in Nat
        BY PeriodFacts DEF UtcDay, Groups
      <4>2. a.lastDay <= now \div 2
        BY <1>0 DEF Timely
      <4> QED BY <1>3, <3>1, <4>1, <4>2
    <3>3. c.total <= c.lastDay + 1 /\ c.total \in Nat /\ c.lastDay \in Int
      BY <1>2, <3>1, <3>2
    <3>4. CASE wrap
      <4>1. a.rung = Rungs /\ c.rung = 1 /\ c.book = a.book + 1
        BY <1>2, <3>1, <3>4
      <4> HIDE DEF c
      <4>2. (c.book - 1) * Rungs = (a.book - 1) * Rungs + Rungs
        <5>1. \A n \in Nat \ {0} : n * Rungs = (n - 1) * Rungs + Rungs
          BY <3>1
        <5>2. (c.book - 1) * Rungs = a.book * Rungs
          BY <3>1, <4>1
        <5> QED BY <3>1, <5>1, <5>2
      <4> QED BY <1>2, <3>1, <3>3, <4>1, <4>2 DEF OnLadder
    <3>5. CASE ~wrap
      <4>1. a.rung + 1 <= Rungs /\ c.rung = a.rung + 1 /\ c.book = a.book
        BY <1>2, <3>1, <3>5
      <4> HIDE DEF c
      <4> QED BY <1>2, <3>1, <3>3, <4>1 DEF OnLadder
    <3> QED BY <3>4, <3>5
  <2> QED BY <2>1, <2>2, <2>3 DEF AccountInv
<1> HIDE DEF c
<1>4. ASSUME a.lastDay # UtcDay PROVE AccountInv(d, now)
  <2>1. Same(c, mailed)
    BY <1>2, MailSame
  <2> HIDE DEF mailed
  <2> QED BY <1>3, <1>4, <2>1, SameKeeps
<1> HIDE DEF d
<1>5. ASSUME a.lastDay # UtcDay PROVE AccountInv(Reach(d, "days", AnyValue, a.total + 1), now)
  BY <1>4, <1>5, CountKeeps
<1> QED BY <1>1, <1>5


-----------------------------------------------------------------------------
(* Karma.                                                                  *)

LEMMA ChooseKeeps ==
  ASSUME NEW a, NEW t, AccountInv(a, t), NEW c, NEW fexp
  PROVE  LET first == [a EXCEPT !.decided = @ \cup {c}]
             given == AddCurrency(first, SceneRow[c].cur, SceneRow[c].n)
         IN AccountInv(given, t) /\ AccountInv(GrantKarma(given, fexp), t)
<1> DEFINE first == [a EXCEPT !.decided = @ \cup {c}]
           given == AddCurrency(first, SceneRow[c].cur, SceneRow[c].n)
<1>1. DOMAIN a = Fields
  BY DEF AccountInv, Booked, Kept
<1>2. Same(a, first) /\ DOMAIN first = Fields
  BY <1>1 DEF Same, Fields
<1> HIDE DEF first
<1>3. Same(first, given) /\ DOMAIN given = Fields
  BY <1>2, CurrencySame
<1>4. AccountInv(given, t)
  BY <1>2, <1>3, SameTwice, SameKeeps
<1> HIDE DEF given
<1>5. ASSUME NEW b, DOMAIN b = Fields, AccountInv(b, t)
      PROVE  AccountInv(GrantKarma(b, fexp), t)
  <2> DEFINE have == b.karma.fxp + fexp
             Need(to) == SumFunctionOnSet(KarmaNeed, b.karma.flv..(to - 1))
             lv == Max({l \in b.karma.flv..MaxFlv : Need(l) <= have})
             fxp == IF lv = MaxFlv THEN 0 ELSE have - Need(lv)
             owed == RankRewards(b.karma.flv, lv)
             d == [b EXCEPT !.karma = [flv |-> lv, fxp |-> fxp]]
             e == IF owed = NoItems THEN d ELSE AddMail(d, "karma", owed)
             k == lv - b.karma.flv
  <2>1. GrantKarma(b, fexp) = IF lv = b.karma.flv THEN d ELSE Count(e, "karma", AnyValue, k)
    BY DEF GrantKarma
  <2> HIDE DEF lv, fxp, owed, k
  <2>2. Same(b, d) /\ DOMAIN d = Fields
    BY <1>5 DEF Same, Fields
  <2> HIDE DEF d
  <2>3. Same(d, d)
    BY DEF Same
  <2>4. AccountInv(e, t)
    BY <1>5, <2>2, <2>3, MailSame, SameTwice, SameKeeps
  <2>5. AccountInv(d, t)
    BY <1>5, <2>2, SameKeeps
  <2> HIDE DEF e
  <2>6. AccountInv(Count(e, "karma", AnyValue, k), t)
    BY <2>4, CountKeeps
  <2> QED BY <2>1, <2>5, <2>6
<1>6. AccountInv(GrantKarma(given, fexp), t)
  BY <1>3, <1>4, <1>5
<1> QED BY <1>4, <1>6 DEF given, first

-----------------------------------------------------------------------------
(* What is owed is mailed.                                                 *)

Letters == [kind : {"ladder", "karma"}, items : [Items -> Nat], read : BOOLEAN]
Posted(a) ==
  /\ a.mail \in Seq(Letters)
  /\ a.karma \in [flv : 1..MaxFlv, fxp : Nat]
  /\ \A i \in Items : /\ Mailed(a, "ladder", i) = RungsOwed(a, i)
                      /\ Mailed(a, "karma", i) = RanksOwed(a, i)

LEMMA PostedSame ==
  ASSUME NEW a, Posted(a), NEW b, b.mail = a.mail, b.karma = a.karma, b.total = a.total
  PROVE  Posted(b)
BY DEF Posted, Mailed, RungsOwed, RanksOwed

LEMMA OutsidePosted ==
  ASSUME NEW a, Posted(a), NEW b, NEW F, Outside(a, b, F),
         "mail" \notin F, "karma" \notin F, "total" \notin F
  PROVE  Posted(b)
<1>1. b.mail = a.mail /\ b.karma = a.karma /\ b.total = a.total
  BY DEF Outside, Fields
<1> QED BY <1>1, PostedSame

(* A letter more, and a letter read.                                       *)
LEMMA LetterMore ==
  ASSUME NEW mail \in Seq(Letters), NEW l \in Letters, NEW kind, NEW i \in Items
  PROVE  LET more == Append(mail, l)
         IN /\ more \in Seq(Letters)
            /\ SumFunctionOnSet(OfKind(more, kind, i), DOMAIN more)
                 = SumFunctionOnSet(OfKind(mail, kind, i), DOMAIN mail)
                     + (IF l.kind = kind THEN l.items[i] ELSE 0)
<1> DEFINE more == Append(mail, l)
           n == Len(mail)
           f == OfKind(mail, kind, i)
           g == OfKind(more, kind, i)
           S == DOMAIN mail
<1>1. /\ more \in Seq(Letters) /\ n \in Nat /\ S = 1..n /\ DOMAIN more = 1..(n + 1)
      /\ more[n + 1] = l /\ \A k \in S : more[k] = mail[k] /\ mail[k] \in Letters
  OBVIOUS
<1>2. IsFiniteSet(S) /\ n + 1 \notin S /\ DOMAIN more = S \cup {n + 1}
  <2>1. IsFiniteSet(1..n)
    BY <1>1, FS_Interval
  <2>2. n + 1 \notin 1..n /\ 1..(n + 1) = (1..n) \cup {n + 1}
    BY <1>1
  <2> HIDE DEF S, more, n
  <2> QED BY <1>1, <2>1, <2>2
<1>3. /\ \A k \in S : f[k] \in Int /\ g[k] = f[k]
      /\ g[n + 1] = IF l.kind = kind THEN l.items[i] ELSE 0
      /\ g[n + 1] \in Int
  BY <1>1, <1>2 DEF OfKind, Letters
<1> HIDE DEF f, g, S, more
<1>4. SumFunctionOnSet(g, S \cup {n + 1}) = SumFunctionOnSet(g, S) + g[n + 1]
  <2>1. \A k \in S : g[k] \in Int
    BY <1>3
  <2> QED BY <1>2, <1>3, <2>1, SumAdd
<1>5. SumFunctionOnSet(f, S) = SumFunctionOnSet(g, S)
  BY <1>2, <1>3, SumAgree
<1> QED BY <1>1, <1>2, <1>3, <1>4, <1>5 DEF f, g, S, more

LEMMA LetterRead ==
  ASSUME NEW mail \in Seq(Letters), NEW n \in DOMAIN mail, NEW kind, NEW i \in Items
  PROVE  LET after == [mail EXCEPT ![n].read = TRUE]
         IN /\ after \in Seq(Letters) /\ DOMAIN after = DOMAIN mail
            /\ SumFunctionOnSet(OfKind(after, kind, i), DOMAIN after)
                 = SumFunctionOnSet(OfKind(mail, kind, i), DOMAIN mail)
<1> DEFINE after == [mail EXCEPT ![n].read = TRUE]
           f == OfKind(mail, kind, i)
           g == OfKind(after, kind, i)
           S == DOMAIN mail
<1>1. S = 1..Len(mail) /\ Len(mail) \in Nat /\ \A k \in S : mail[k] \in Letters
  OBVIOUS
<1>2. DOMAIN after = S /\ \A k \in S : /\ after[k] \in Letters
                                       /\ after[k].kind = mail[k].kind
                                       /\ after[k].items = mail[k].items
  BY <1>1 DEF Letters
<1>3. after \in Seq(Letters)
  <2>1. after \in [1..Len(mail) -> Letters]
    BY <1>1, <1>2
  <2> QED BY <1>1, <2>1, SeqDef
<1> HIDE DEF after
<1>4. IsFiniteSet(S) /\ \A k \in S : f[k] \in Int /\ g[k] = f[k]
  <2>1. IsFiniteSet(S)
    BY <1>1, FS_Interval
  <2>2. \A k \in S : f[k] \in Int /\ g[k] = f[k]
    BY <1>1, <1>2 DEF OfKind, Letters
  <2> QED BY <2>1, <2>2
<1> HIDE DEF f, g, S
<1>5. SumFunctionOnSet(f, S) = SumFunctionOnSet(g, S)
  BY <1>4, SumAgree
<1> QED BY <1>2, <1>3, <1>5 DEF f, g, S, after

LEMMA MailedIsInt ==
  ASSUME NEW mail \in Seq(Letters), NEW kind, NEW i \in Items
  PROVE  SumFunctionOnSet(OfKind(mail, kind, i), DOMAIN mail) \in Int
<1> DEFINE f == OfKind(mail, kind, i)
           S == DOMAIN mail
<1>1. S = 1..Len(mail) /\ Len(mail) \in Nat /\ \A k \in S : mail[k] \in Letters
  OBVIOUS
<1>2. IsFiniteSet(S)
  BY <1>1, FS_Interval
<1>3. \A k \in S : f[k] \in Int
  BY <1>1 DEF OfKind, Letters
<1> HIDE DEF f, S
<1> QED BY <1>2, <1>3, SumType DEF f, S

(* The rung of a day is the one its number gives.                          *)
LEMMA RungOfDay ==
  ASSUME NEW d \in Nat \ {0}, NEW b \in Nat, NEW r \in 0..(d - 1)
  PROVE  (b * d + r) % d = r
<1> DEFINE n == b * d + r
           q == n \div d
           m == n % d
<1>1. b * d \in Nat /\ n \in Nat
  <2>1. \A x, y \in Nat : x * y \in Nat
    OBVIOUS
  <2> QED BY <2>1
<1>2. q \in Int /\ m \in 0..(d - 1) /\ n = d * q + m
  <2> HIDE DEF n
  <2> QED BY <1>1
<1> HIDE DEF q, m
<1>3. b * d = d * b
  OBVIOUS
<1>4. d * b + r = d * q + m
  BY <1>2, <1>3
<1>5. \A x, y \in Int : x + 1 <= y => d * x + d <= d * y
  <2> TAKE x, y \in Int
  <2> HAVE x + 1 <= y
  <2>1. PICK k \in Nat : y = (x + 1) + k
    <3>1. y - (x + 1) \in Nat /\ y = (x + 1) + (y - (x + 1))
      OBVIOUS
    <3> QED BY <3>1
  <2>2. d * y = d * x + d + d * k
    BY <2>1
  <2>3. d * k \in Nat /\ d * x \in Int
    OBVIOUS
  <2> QED BY <2>2, <2>3
<1>6. q = b
  <2>1. d * b \in Int /\ d * q \in Int
    BY <1>2
  <2>2. ~(q + 1 <= b) /\ ~(b + 1 <= q)
    BY <1>2, <1>4, <1>5, <2>1
  <2> QED BY <1>2, <2>2
<1>7. m = r
  <2>1. d * b \in Int
    OBVIOUS
  <2> QED BY <1>2, <1>4, <1>6, <2>1
<1> QED BY <1>7 DEF m, n

LEMMA NextRung ==
  ASSUME NEW a, OnLadder(a)
  PROVE  RungOn(a.total + 1) = RungItem[IF a.rung + 1 > Rungs THEN 1 ELSE a.rung + 1]
<1>1. /\ a.rung \in 0..Rungs /\ a.book \in Nat \ {0} /\ Rungs \in Nat \ {0}
      /\ a.total \in Nat /\ a.total = (a.book - 1) * Rungs + a.rung
  BY MissionsAssumption DEF OnLadder, MissionsAssumption
<1>2. RungOn(a.total + 1) = RungItem[(a.total % Rungs) + 1]
  <2>1. (a.total + 1) - 1 = a.total
    BY <1>1
  <2> QED BY <2>1 DEF RungOn
<1>3. CASE a.rung = Rungs
  <2>1. a.total = a.book * Rungs + 0
    <3>1. a.book * Rungs = (a.book - 1) * Rungs + Rungs
      BY <1>1
    <3>2. a.book * Rungs \in Int
      BY <1>1
    <3> QED BY <1>1, <1>3, <3>1, <3>2
  <2>2. a.total % Rungs = 0
    <3>1. 0 \in 0..(Rungs - 1) /\ a.book \in Nat
      BY <1>1
    <3> QED BY <1>1, <2>1, <3>1, RungOfDay
  <2> QED BY <1>1, <1>2, <1>3, <2>2
<1>4. CASE a.rung # Rungs
  <2>1. a.rung \in 0..(Rungs - 1) /\ a.book - 1 \in Nat
    BY <1>1, <1>4
  <2>2. a.total % Rungs = a.rung
    BY <1>1, <2>1, RungOfDay
  <2> QED BY <1>1, <1>2, <2>1, <2>2
<1> QED BY <1>3, <1>4

LEMMA RungIsReward ==
  ASSUME NEW d \in Nat \ {0}
  PROVE  RungOn(d) \in Rewards
<1>1. Rungs \in Nat \ {0} /\ RungItem \in [1..Rungs -> Rewards]
  BY MissionsAssumption DEF MissionsAssumption
<1>2. ((d - 1) % Rungs) + 1 \in 1..Rungs
  BY <1>1
<1> QED BY <1>1, <1>2 DEF RungOn

LEMMA OwedMore ==
  ASSUME NEW t \in Nat, NEW i \in Items
  PROVE  /\ SumFunctionOnSet(OnDay(i, 1..(t + 1)), 1..(t + 1))
              = SumFunctionOnSet(OnDay(i, 1..t), 1..t)
                  + (IF RungOn(t + 1).item = i THEN RungOn(t + 1).n ELSE 0)
         /\ RungOn(t + 1) \in Rewards
<1> DEFINE S == 1..t
           f == OnDay(i, 1..t)
           g == OnDay(i, 1..(t + 1))
<1>1. \A d \in 1..(t + 1) : RungOn(d) \in Rewards
  BY RungIsReward
<1>2. IsFiniteSet(S) /\ t + 1 \notin S /\ 1..(t + 1) = S \cup {t + 1}
  <2>1. IsFiniteSet(1..t)
    BY FS_Interval
  <2> QED BY <2>1
<1>3. \A d \in S : f[d] \in Int /\ g[d] = f[d] /\ g[d] \in Int
  BY <1>1 DEF OnDay, Rewards
<1>4. g[t + 1] = (IF RungOn(t + 1).item = i THEN RungOn(t + 1).n ELSE 0) /\ g[t + 1] \in Int
  BY <1>1 DEF OnDay, Rewards
<1>5. t + 1 \in 1..(t + 1)
  OBVIOUS
<1> HIDE DEF S, f, g
<1>6. SumFunctionOnSet(g, S \cup {t + 1}) = SumFunctionOnSet(g, S) + g[t + 1]
  BY <1>2, <1>3, <1>4, SumAdd
<1>7. SumFunctionOnSet(f, S) = SumFunctionOnSet(g, S)
  BY <1>2, <1>3, SumAgree
<1> QED BY <1>1, <1>2, <1>4, <1>5, <1>6, <1>7 DEF S, f, g

LEMMA DaysOwed ==
  ASSUME NEW a, a.total \in Nat, NEW i \in Items
  PROVE  RungsOwed(a, i) \in Int
<1> DEFINE S == 1..a.total
           f == OnDay(i, S)
<1>1. IsFiniteSet(S)
  BY FS_Interval
<1>2. \A d \in S : RungOn(d) \in Rewards
  BY RungIsReward
<1>3. \A d \in S : f[d] \in Int
  BY <1>2 DEF OnDay, Rewards
<1> HIDE DEF S, f
<1>4. SumFunctionOnSet(f, S) \in Int
  BY <1>1, <1>3, SumType
<1> QED BY <1>4 DEF RungsOwed, f, S

LEMMA ClimbPosted ==
  ASSUME NEW a, DOMAIN a = Fields, OnLadder(a), Posted(a)
  PROVE  Posted(Climb(a))
<1> DEFINE wrap == a.rung + 1 > Rungs
           day == IF wrap THEN 1 ELSE a.rung + 1
           c == [a EXCEPT !.rung = day, !.book = IF wrap THEN @ + 1 ELSE @,
                          !.checkin = day, !.total = @ + 1, !.lastDay = UtcDay]
           r == RungItem[day]
           items == [NoItems EXCEPT ![r.item] = r.n]
           l == [kind |-> "ladder", items |-> items, read |-> FALSE]
           mailed == AddMail(c, "ladder", items)
           d == IF r.n = 0 THEN c ELSE mailed
<1>1. Climb(a) = IF a.lastDay = UtcDay THEN a ELSE Reach(d, "days", AnyValue, a.total + 1)
  BY DEF Climb
<1>2. DOMAIN c = Fields /\ c.mail = a.mail /\ c.karma = a.karma /\ c.total = a.total + 1
  BY DEF Fields
<1>3. r = RungOn(a.total + 1)
  BY NextRung
<1>4. a.total \in Nat /\ r \in Rewards
  <2>1. a.total \in Nat /\ a.total + 1 \in Nat \ {0}
    BY DEF OnLadder
  <2> QED BY <1>3, <2>1, RungIsReward
<1> HIDE DEF c, r
<1>5. /\ DOMAIN mailed = Fields /\ mailed.mail = Append(a.mail, l)
      /\ mailed.karma = a.karma /\ mailed.total = a.total + 1
  BY <1>2 DEF AddMail, Fields
<1>6. l \in Letters /\ \A i \in Items : items[i] = IF r.item = i THEN r.n ELSE 0
  BY <1>4 DEF Letters, Rewards, NoItems
<1> HIDE DEF l, items
<1>7. Posted(d)
  <2>1. /\ a.mail \in Seq(Letters)
        /\ a.karma \in [flv : 1..MaxFlv, fxp : Nat]
    BY DEF Posted
  <2>2. \A i \in Items :
          RungsOwed(d, i) = RungsOwed(a, i) + (IF r.item = i THEN r.n ELSE 0)
    BY <1>2, <1>3, <1>4, <1>5, OwedMore DEF RungsOwed
  <2>3. \A i \in Items : RanksOwed(d, i) = RanksOwed(a, i)
    BY <1>2, <1>5 DEF RanksOwed
  <2>4. CASE r.n = 0
    <3>1. d.mail = a.mail /\ d.karma = a.karma
      BY <1>2, <2>4
    <3>2. \A i \in Items : /\ Mailed(d, "ladder", i) = Mailed(a, "ladder", i)
                           /\ Mailed(d, "karma", i) = Mailed(a, "karma", i)
      BY <3>1 DEF Mailed
    <3>3. \A i \in Items : RungsOwed(d, i) = RungsOwed(a, i)
      <4>1. \A i \in Items : RungsOwed(a, i) \in Int
        BY DaysOwed DEF OnLadder
      <4> QED BY <2>2, <2>4, <4>1
    <3> HIDE DEF d
    <3> QED BY <2>1, <2>3, <3>1, <3>2, <3>3 DEF Posted
  <2>5. CASE r.n # 0
    <3>1. d.mail = Append(a.mail, l) /\ d.karma = a.karma
      BY <1>5, <2>5
    <3>2. l.kind = "ladder" /\ l.items = items
      BY DEF l
    <3> HIDE DEF d
    <3>3. /\ d.mail \in Seq(Letters)
          /\ \A i \in Items :
               /\ Mailed(d, "ladder", i) = Mailed(a, "ladder", i) + items[i]
               /\ Mailed(d, "karma", i) = Mailed(a, "karma", i) + 0
      <4>1. d.mail \in Seq(Letters)
        BY <1>6, <2>1, <3>1
      <4>2. \A i \in Items : Mailed(d, "ladder", i) = Mailed(a, "ladder", i) + items[i]
        BY <1>6, <2>1, <3>1, <3>2, LetterMore DEF Mailed
      <4>3. \A i \in Items : Mailed(d, "karma", i) = Mailed(a, "karma", i) + 0
        BY <1>6, <2>1, <3>1, <3>2, LetterMore DEF Mailed
      <4> QED BY <4>1, <4>2, <4>3
    <3>4. \A i \in Items : Mailed(a, "karma", i) \in Int
      BY <2>1, MailedIsInt DEF Mailed
    <3> QED BY <1>6, <2>1, <2>2, <2>3, <3>1, <3>3, <3>4 DEF Posted
  <2> QED BY <2>4, <2>5
<1>8. DOMAIN d = Fields
  BY <1>2, <1>5
<1> HIDE DEF d
<1>9. Outside(d, Reach(d, "days", AnyValue, a.total + 1), {"db", "sp"})
  BY <1>8, BumpOutside DEF Reach
<1> QED BY <1>1, <1>7, <1>9, OutsidePosted

LEMMA RanksAreInts ==
  ASSUME NEW i \in Items
  PROVE  \A l \in 1..MaxFlv : Lines(RankItem, i)[l] \in Int
BY MissionsAssumption DEF MissionsAssumption, Lines, Rewards

(* The ranks already had, and the ranks crossed: all of them.              *)
LEMMA RanksCrossed ==
  ASSUME NEW from \in 1..MaxFlv, NEW to \in from..MaxFlv, NEW i \in Items
  PROVE  SumFunctionOnSet(Lines(RankItem, i), 2..to)
           = SumFunctionOnSet(Lines(RankItem, i), 2..from) + RankRewards(from, to)[i]
<1> DEFINE f == Lines(RankItem, i)
           S == 2..from
           T == (from + 1)..to
<1>1. MaxFlv \in Nat \ {0} /\ from \in Nat /\ to \in Nat /\ from <= to
  BY MissionsAssumption DEF MissionsAssumption
<1>2. IsFiniteSet(S) /\ IsFiniteSet(T)
  BY <1>1, FS_Interval
<1>3. S \cap T = {} /\ S \cup T = 2..to
  BY <1>1
<1>4. \A l \in S \cup T : f[l] \in Int
  <2>1. S \cup T \subseteq 1..MaxFlv
    BY <1>1
  <2> QED BY <2>1, RanksAreInts
<1>5. RankRewards(from, to)[i] = SumFunctionOnSet(f, T)
  BY DEF RankRewards
<1> HIDE DEF f, S, T
<1>6. SumFunctionOnSet(f, S \cup T) = SumFunctionOnSet(f, S) + SumFunctionOnSet(f, T)
  BY <1>2, <1>3, <1>4, SumUnion
<1> QED BY <1>3, <1>5, <1>6 DEF f, S, T

LEMMA RankRewardsType ==
  ASSUME NEW from \in 1..MaxFlv, NEW to \in from..MaxFlv
  PROVE  RankRewards(from, to) \in [Items -> Nat]
<1>1. ASSUME NEW i \in Items
      PROVE  SumFunctionOnSet(Lines(RankItem, i), (from + 1)..to) \in Nat
  <2> DEFINE f == Lines(RankItem, i)
             T == (from + 1)..to
  <2>1. MaxFlv \in Nat \ {0} /\ from \in Nat /\ to \in Nat /\ to <= MaxFlv /\ from >= 1
    BY MissionsAssumption DEF MissionsAssumption
  <2>2. IsFiniteSet(T)
    BY <2>1, FS_Interval
  <2>3. \A l \in T : f[l] \in Nat
    BY <2>1, MissionsAssumption DEF MissionsAssumption, Lines, Rewards
  <2> HIDE DEF f, T
  <2>4. SumFunctionOnSet(f, T) \in Nat
    BY <2>2, <2>3, SumNat
  <2> QED BY <2>4 DEF f, T
<1> QED BY <1>1 DEF RankRewards

(* What grant_karma makes of the Karma: a rank that is no lower, and what  *)
(* is left of the points.                                                  *)
KarmaNow(k, fexp) ==
  LET have == k.fxp + fexp
      Need(to) == SumFunctionOnSet(KarmaNeed, k.flv..(to - 1))
      lv == Max({l \in k.flv..MaxFlv : Need(l) <= have})
  IN [flv |-> lv, fxp |-> IF lv = MaxFlv THEN 0 ELSE have - Need(lv)]

LEMMA KarmaRises ==
  ASSUME NEW k \in [flv : 1..MaxFlv, fxp : Nat], NEW fexp \in Nat
  PROVE  /\ KarmaNow(k, fexp) \in [flv : 1..MaxFlv, fxp : Nat]
         /\ KarmaNow(k, fexp).flv \in k.flv..MaxFlv
<1> DEFINE have == k.fxp + fexp
           Need(to) == SumFunctionOnSet(KarmaNeed, k.flv..(to - 1))
           R == {l \in k.flv..MaxFlv : Need(l) <= have}
           lv == Max(R)
           fxp == IF lv = MaxFlv THEN 0 ELSE have - Need(lv)
<1>1. MaxFlv \in Nat \ {0} /\ k.flv \in 1..MaxFlv /\ k.flv \in Nat /\ k.fxp \in Nat /\ have \in Nat
  BY MissionsAssumption DEF MissionsAssumption
<1>2. Need(k.flv) = 0
  <2>1. k.flv..(k.flv - 1) = {}
    BY <1>1
  <2>2. SumFunctionOnSet(KarmaNeed, {}) = 0
    BY SumEmpty, Zenon
  <2> QED BY <2>1, <2>2
<1>3. ASSUME NEW l \in k.flv..MaxFlv PROVE Need(l) \in Nat
  <2> DEFINE T == k.flv..(l - 1)
  <2>1. IsFiniteSet(T)
    BY <1>1, FS_Interval
  <2>2. \A x \in T : KarmaNeed[x] \in Nat
    <3>1. KarmaNeed \in [1..(MaxFlv - 1) -> Nat \ {0}]
      BY MissionsAssumption DEF MissionsAssumption
    <3>2. T \subseteq 1..(MaxFlv - 1)
      BY <1>1
    <3> QED BY <3>1, <3>2
  <2> HIDE DEF T
  <2>3. SumFunctionOnSet(KarmaNeed, T) \in Nat
    BY <2>1, <2>2, SumNat
  <2> QED BY <2>3 DEF T
<1> HIDE DEF Need
<1>4. IsFiniteSet(R) /\ R \subseteq Nat /\ R # {}
  <2>1. IsFiniteSet(k.flv..MaxFlv)
    BY <1>1, FS_Interval
  <2>2. k.flv \in R
    BY <1>1, <1>2
  <2>3. R \subseteq k.flv..MaxFlv /\ R \subseteq Nat
    BY <1>1
  <2> HIDE DEF R
  <2> QED BY <2>1, <2>2, <2>3, FS_Subset
<1>5. lv \in R
  <2> HIDE DEF R
  <2> QED BY <1>4, MaxIsGreatest
<1> HIDE DEF lv
<1>6. lv \in k.flv..MaxFlv /\ Need(lv) <= have /\ Need(lv) \in Nat
  BY <1>3, <1>5
<1>7. fxp \in Nat /\ lv \in 1..MaxFlv
  BY <1>1, <1>6
<1>8. KarmaNow(k, fexp) = [flv |-> lv, fxp |-> fxp]
  BY DEF KarmaNow, lv, Need
<1> HIDE DEF fxp
<1> QED BY <1>6, <1>7, <1>8

LEMMA KarmaPosted ==
  ASSUME NEW a, DOMAIN a = Fields, Posted(a), NEW fexp \in Nat
  PROVE  /\ Posted(GrantKarma(a, fexp))
         /\ Outside(a, GrantKarma(a, fexp), {"karma", "mail", "db", "sp"})
<1> DEFINE k == KarmaNow(a.karma, fexp)
           owed == RankRewards(a.karma.flv, k.flv)
           l == [kind |-> "karma", items |-> owed, read |-> FALSE]
           b == [a EXCEPT !.karma = k]
           mailed == AddMail(b, "karma", owed)
           c == IF owed = NoItems THEN b ELSE mailed
           d == Count(c, "karma", AnyValue, k.flv - a.karma.flv)
           F == {"karma", "mail", "db", "sp"}
<1>1. GrantKarma(a, fexp) = IF k.flv = a.karma.flv THEN b ELSE d
  BY DEF GrantKarma, KarmaNow
<1>2. /\ a.mail \in Seq(Letters)
      /\ a.karma \in [flv : 1..MaxFlv, fxp : Nat]
      /\ a.karma.flv \in 1..MaxFlv
  BY DEF Posted
<1>3. k \in [flv : 1..MaxFlv, fxp : Nat] /\ k.flv \in a.karma.flv..MaxFlv
  BY <1>2, KarmaRises
<1> HIDE DEF k
<1>4. /\ DOMAIN b = Fields /\ b.mail = a.mail /\ b.karma = k /\ b.total = a.total
      /\ Outside(a, b, F)
  BY DEF Outside, Fields
<1> HIDE DEF b
<1>5. /\ DOMAIN mailed = Fields /\ mailed.mail = Append(a.mail, l)
      /\ mailed.karma = k /\ mailed.total = a.total /\ Outside(a, mailed, F)
  BY <1>4 DEF AddMail, Fields, Outside
<1>6. owed \in [Items -> Nat]
  BY <1>2, <1>3, RankRewardsType
<1>7. \A i \in Items : SumFunctionOnSet(Lines(RankItem, i), 2..k.flv)
                         = RanksOwed(a, i) + owed[i]
  BY <1>2, <1>3, RanksCrossed DEF RanksOwed
<1> HIDE DEF owed, mailed
<1>8. l \in Letters /\ l.kind = "karma" /\ l.items = owed
  BY <1>6 DEF Letters
<1> HIDE DEF l
<1>9. \A i \in Items : /\ Mailed(a, "ladder", i) \in Int /\ Mailed(a, "karma", i) \in Int
                       /\ owed[i] \in Int
  BY <1>2, <1>6, MailedIsInt DEF Mailed
<1>10. ASSUME owed = NoItems PROVE Posted(b)
  <2>1. \A i \in Items : owed[i] = 0
    BY <1>10 DEF NoItems
  <2>2. \A i \in Items : /\ Mailed(b, "ladder", i) = RungsOwed(b, i)
                         /\ Mailed(b, "karma", i) = RanksOwed(b, i)
    <3> TAKE i \in Items
    <3>1. Mailed(b, "ladder", i) = Mailed(a, "ladder", i) /\ Mailed(b, "karma", i) = Mailed(a, "karma", i)
      BY <1>4 DEF Mailed
    <3>2. RungsOwed(b, i) = RungsOwed(a, i) /\ RanksOwed(b, i) = RanksOwed(a, i) + owed[i]
      BY <1>4, <1>7 DEF RungsOwed, RanksOwed
    <3>3. Mailed(a, "ladder", i) = RungsOwed(a, i) /\ Mailed(a, "karma", i) = RanksOwed(a, i)
      BY DEF Posted
    <3> QED BY <1>9, <2>1, <3>1, <3>2, <3>3
  <2> QED BY <1>2, <1>3, <1>4, <2>2 DEF Posted
<1>11. Posted(mailed)
  <2>1. mailed.mail \in Seq(Letters)
    BY <1>2, <1>5, <1>8
  <2>2. \A i \in Items : /\ Mailed(mailed, "ladder", i) = RungsOwed(mailed, i)
                         /\ Mailed(mailed, "karma", i) = RanksOwed(mailed, i)
    <3> TAKE i \in Items
    <3>1. Mailed(mailed, "ladder", i) = Mailed(a, "ladder", i) + 0
      BY <1>2, <1>5, <1>8, LetterMore DEF Mailed
    <3>2. Mailed(mailed, "karma", i) = Mailed(a, "karma", i) + owed[i]
      BY <1>2, <1>5, <1>8, LetterMore DEF Mailed
    <3>3. RungsOwed(mailed, i) = RungsOwed(a, i) /\ RanksOwed(mailed, i) = RanksOwed(a, i) + owed[i]
      BY <1>5, <1>7 DEF RungsOwed, RanksOwed
    <3>4. Mailed(a, "ladder", i) = RungsOwed(a, i) /\ Mailed(a, "karma", i) = RanksOwed(a, i)
      BY DEF Posted
    <3> QED BY <1>9, <3>1, <3>2, <3>3, <3>4
  <2> QED BY <1>3, <1>5, <2>1, <2>2 DEF Posted
<1>12. ASSUME k.flv = a.karma.flv PROVE owed = NoItems
  <2>1. \A i \in Items : owed[i] = 0
    <3> TAKE i \in Items
    <3>1. SumFunctionOnSet(Lines(RankItem, i), 2..k.flv) = RanksOwed(a, i)
      BY <1>12 DEF RanksOwed
    <3>2. Mailed(a, "karma", i) = RanksOwed(a, i)
      BY DEF Posted
    <3> QED BY <1>7, <1>9, <3>1, <3>2
  <2>2. owed = [i \in Items |-> owed[i]]
    BY <1>6
  <2> QED BY <2>1, <2>2 DEF NoItems
<1>13. Posted(c) /\ DOMAIN c = Fields /\ Outside(a, c, F)
  BY <1>4, <1>5, <1>10, <1>11
<1> HIDE DEF c
<1>14. Outside(c, d, {"db", "sp"})
  BY <1>13, BumpOutside DEF Count
<1>15. Posted(d)
  BY <1>13, <1>14, OutsidePosted
<1>16. Outside(a, d, F)
  <2>1. {"db", "sp"} \subseteq F
    OBVIOUS
  <2> HIDE DEF F, d
  <2> QED BY <1>13, <1>14, <2>1, OutsideWider, OutsideTwice
<1> HIDE DEF d, F
<1> QED BY <1>1, <1>4, <1>10, <1>12, <1>15, <1>16 DEF F

-----------------------------------------------------------------------------
(* The account, in memory and in the file.                                 *)

LEMMA InitInv == Init => StepInv
<1> SUFFICES ASSUME Init PROVE StepInv
  OBVIOUS
<1> DEFINE a == NewAccount
<1>1. /\ DOMAIN a = Fields
      /\ a.quests = {} /\ a.sp = [q \in Quests |-> NothingDone]
      /\ a.stamps = [g \in Groups |-> -1] /\ a.claims = {}
      /\ a.rung = 0 /\ a.book = 1 /\ a.total = 0 /\ a.lastDay = -1
  BY DEF NewAccount, FreshPurse, Fields
<1> HIDE DEF a
<1>2. Kept(a)
  BY <1>1, FS_EmptySet DEF Kept, NothingDone
<1>3. MetaCounts(a)
  <2>1. \A m, g : Counted(a, m, g) = {}
    BY <1>1 DEF Counted
  <2>2. \A q \in Quests : a.sp[q].cnt = 0
    BY <1>1 DEF NothingDone
  <2>3. \A m, g : Cardinality(Counted(a, m, g)) = 0
    BY <2>1, FS_EmptySet
  <2> QED BY <2>2, <2>3 DEF MetaCounts, Missions
<1>4. InChains(a)
  BY <1>1 DEF InChains, NothingDone
<1>5. OnLadder(a)
  BY <1>1, MissionsAssumption DEF OnLadder, MissionsAssumption
<1>6. now = 0 /\ now \in Nat
  BY DEF Init
<1>7. Timely(a, now)
  <2>1. \A g \in Groups : PeriodAt(g, 0) \in Nat /\ 0 \div 2 \in Nat
    BY PeriodFacts
  <2>2. "daily" \in Groups
    BY DEF Groups
  <2> QED BY <1>1, <1>6, <2>1, <2>2 DEF Timely
<1> QED BY <1>2, <1>3, <1>4, <1>5, <1>6, <1>7 DEF StepInv, AccountInv, Booked, Init, a

LEMMA LoginKeeps ==
  ASSUME StepInv, Load \/ Migrate \/ RearmMissions \/ CreditLogin \/ AdvanceLogin \/ Crash
  PROVE  StepInv'
<1>1. now \in Nat /\ AccountInv(mem, now) /\ AccountInv(disk, now)
  BY DEF StepInv
<1>2. DOMAIN mem = Fields /\ DOMAIN disk = Fields
  BY <1>1 DEF AccountInv, Booked, Kept
<1>3. now' = now
  BY DEF Load, Migrate, RearmMissions, CreditLogin, AdvanceLogin, Crash, Step
<1>4. ASSUME NEW from, NEW to, NEW a, NEW saved, Step(from, to, a, saved),
             AccountInv(a, now)
      PROVE  AccountInv(mem', now) /\ AccountInv(disk', now)
  BY <1>1, <1>4 DEF Step
<1>5. AccountInv(mem', now) /\ AccountInv(disk', now)
  <2>1. CASE Load
    <3> DEFINE b == RefillPasses(disk)
    <3>1. Same(disk, b) /\ DOMAIN b = Fields
      BY <1>2, RefillSame
    <3> HIDE DEF b
    <3>2. Same(b, RescueAll(b))
      BY <3>1, RescueSame
    <3>3. AccountInv(RescueAll(b), now)
      BY <1>1, <3>1, <3>2, SameKeeps
    <3> QED BY <2>1, <3>3 DEF Load, b
  <2>2. CASE Migrate
    <3>1. AccountInv(MigrateBalances(mem), now)
      BY <1>1, <1>2, MigrateSame, SameKeeps
    <3> QED BY <1>1, <2>2, <3>1 DEF Migrate, Step
  <2>3. CASE RearmMissions
    <3>1. AccountInv(Rearm(mem), now)
      BY <1>1, RearmKeeps
    <3> QED BY <1>1, <2>3, <3>1 DEF RearmMissions, Step
  <2>4. CASE CreditLogin
    <3>1. AccountInv(Count(mem, "login", AnyValue, 1), now)
      BY <1>1, CountKeeps
    <3> QED BY <1>1, <2>4, <3>1 DEF CreditLogin, Step
  <2>5. CASE AdvanceLogin
    <3>1. AccountInv(Climb(mem), now)
      BY <1>1, ClimbKeeps
    <3> QED BY <1>1, <2>5, <3>1 DEF AdvanceLogin, Step
  <2>6. CASE Crash
    BY <1>1, <2>6 DEF Crash
  <2> QED BY <2>1, <2>2, <2>3, <2>4, <2>5, <2>6
<1> QED BY <1>1, <1>3, <1>5 DEF StepInv

LEMMA HandlerKeeps ==
  ASSUME StepInv, NEW a, Handler(a), AccountInv(a, now)
  PROVE  StepInv'
BY DEF StepInv, Handler

LEMMA NextKeeps == StepInv /\ [Next]_vars => StepInv'
<1> SUFFICES ASSUME StepInv, [Next]_vars PROVE StepInv'
  OBVIOUS
<1>1. now \in Nat /\ AccountInv(mem, now) /\ AccountInv(disk, now)
  BY DEF StepInv
<1>2. DOMAIN mem = Fields
  BY <1>1 DEF AccountInv, Booked, Kept
<1>3. CASE Load \/ Migrate \/ RearmMissions \/ CreditLogin \/ AdvanceLogin \/ Crash
  BY <1>3, LoginKeeps
<1>4. ASSUME NEW q \in Quests, Claim(q) PROVE StepInv'
  <2>1. AccountInv(Complete(mem, q), now)
    BY <1>1, <1>4, CompleteKeeps DEF Claim
  <2> QED BY <1>4, <2>1, HandlerKeeps DEF Claim
<1>5. ASSUME NEW n, ReceiveMail(n) PROVE StepInv'
  <2>1. AccountInv(ClaimMail(mem, n), now)
    BY <1>1, <1>2, MailSame, SameKeeps
  <2> QED BY <1>5, <2>1, HandlerKeeps DEF ReceiveMail
<1>6. CASE SyncLadder
  <2>1. Same(mem, [mem EXCEPT !.checkin = 0])
    BY <1>2 DEF Same, Fields
  <2>2. AccountInv([mem EXCEPT !.checkin = 0], now)
    BY <1>1, <2>1, SameKeeps
  <2> QED BY <1>6, <2>2, HandlerKeeps DEF SyncLadder
<1>7. CASE ClearStage
  <2>1. AccountInv(Count(mem, "clear", AnyValue, 1), now)
    BY <1>1, CountKeeps
  <2> QED BY <1>7, <2>1, HandlerKeeps DEF ClearStage
<1>8. ASSUME NEW c, Choose(c) PROVE StepInv'
  <2> DEFINE first == [mem EXCEPT !.decided = @ \cup {c}]
             given == AddCurrency(first, SceneRow[c].cur, SceneRow[c].n)
             b == IF c \in mem.decided THEN mem
                  ELSE IF SceneRow[c].fexp > 0 THEN GrantKarma(given, SceneRow[c].fexp)
                  ELSE given
  <2>1. AccountInv(given, now) /\ AccountInv(GrantKarma(given, SceneRow[c].fexp), now)
    BY <1>1, ChooseKeeps
  <2>2. Handler(b)
    BY <1>8 DEF Choose
  <2> HIDE DEF given
  <2>3. AccountInv(b, now)
    BY <1>1, <2>1
  <2> HIDE DEF b
  <2> QED BY <2>2, <2>3, HandlerKeeps
<1>9. CASE (\E n \in SweepCounts, express \in BOOLEAN : StartSweep(n, express)) \/ StopSweep
  <2>1. ASSUME NEW n, NEW express, StartSweep(n, express) PROVE StepInv'
    <3>1. AccountInv(Settled(StartedSweep(mem, n, express)), now)
      BY <1>1, <1>2, SweepSame, SameKeeps
    <3> QED BY <2>1, <3>1, HandlerKeeps DEF StartSweep
  <2>2. CASE StopSweep
    <3>1. AccountInv(Stopped(mem), now)
      BY <1>1, <1>2, SweepSame, SameKeeps
    <3> QED BY <2>2, <3>1, HandlerKeeps DEF StopSweep
  <2> QED BY <1>9, <2>1, <2>2
<1>10. CASE SyncSweep
  <2>1. AccountInv(Settled(mem), now)
    BY <1>1, <1>2, SweepSame, SameKeeps
  <2> QED BY <1>1, <1>10, <2>1 DEF SyncSweep, StepInv
<1>11. CASE Tick
  <2>1. AccountInv(mem, now + 1) /\ AccountInv(disk, now + 1)
    BY <1>1, LaterIsTimely
  <2> QED BY <1>1, <1>11, <2>1 DEF Tick, StepInv
<1>12. CASE UNCHANGED vars
  BY <1>1, <1>12 DEF vars, StepInv
<1> QED BY <1>3, <1>4, <1>5, <1>6, <1>7, <1>8, <1>9, <1>10, <1>11, <1>12 DEF Next

-----------------------------------------------------------------------------
(* What is owed is mailed, step by step.                                   *)

PostInv == StepInv /\ Posted(mem) /\ Posted(disk)

LEMMA ReadPosted ==
  ASSUME NEW a, DOMAIN a = Fields, Posted(a), NEW n \in DOMAIN a.mail
  PROVE  Posted(ClaimMail(a, n))
<1> DEFINE b == Attached(a, a.mail[n].items)
           c == [b EXCEPT !.mail[n].read = TRUE]
           after == [a.mail EXCEPT ![n].read = TRUE]
<1>1. ClaimMail(a, n) = IF a.mail[n].read THEN a ELSE c
  BY DEF ClaimMail
<1>2. Outside(a, b, PurseFields)
  BY AttachedOutside
<1> HIDE DEF b
<1>3. DOMAIN b = Fields /\ b.mail = a.mail /\ b.karma = a.karma /\ b.total = a.total
  BY <1>2 DEF Outside, Fields, PurseFields
<1>4. c.mail = after /\ c.karma = a.karma /\ c.total = a.total
  BY <1>3 DEF Fields
<1>5. a.mail \in Seq(Letters)
  BY DEF Posted
<1> HIDE DEF c
<1>6. /\ after \in Seq(Letters)
      /\ \A i \in Items : \A kind :
           SumFunctionOnSet(OfKind(after, kind, i), DOMAIN after)
             = SumFunctionOnSet(OfKind(a.mail, kind, i), DOMAIN a.mail)
  <2>1. Pass \in Items
    BY MissionsAssumption DEF MissionsAssumption
  <2>2. after \in Seq(Letters)
    BY <1>5, <2>1, LetterRead
  <2>3. ASSUME NEW i \in Items, NEW kind
        PROVE  SumFunctionOnSet(OfKind(after, kind, i), DOMAIN after)
                 = SumFunctionOnSet(OfKind(a.mail, kind, i), DOMAIN a.mail)
    BY <1>5, LetterRead
  <2> QED BY <2>2, <2>3
<1> HIDE DEF after
<1>7. \A i \in Items : /\ Mailed(c, "ladder", i) = Mailed(a, "ladder", i)
                       /\ Mailed(c, "karma", i) = Mailed(a, "karma", i)
                       /\ RungsOwed(c, i) = RungsOwed(a, i)
                       /\ RanksOwed(c, i) = RanksOwed(a, i)
  BY <1>4, <1>6 DEF Mailed, RungsOwed, RanksOwed
<1>8. Posted(c)
  BY <1>4, <1>6, <1>7 DEF Posted
<1> QED BY <1>1, <1>8

LEMMA ChoosePosted ==
  ASSUME NEW a, DOMAIN a = Fields, Posted(a), NEW c \in Scenes
  PROVE  LET first == [a EXCEPT !.decided = @ \cup {c}]
             paid == AddCurrency(first, SceneRow[c].cur, SceneRow[c].n)
         IN Posted(paid) /\ Posted(GrantKarma(paid, SceneRow[c].fexp))
<1> DEFINE first == [a EXCEPT !.decided = @ \cup {c}]
           paid == AddCurrency(first, SceneRow[c].cur, SceneRow[c].n)
<1>1. /\ DOMAIN first = Fields /\ first.mail = a.mail /\ first.karma = a.karma
      /\ first.total = a.total
  BY DEF Fields
<1> HIDE DEF first
<1>2. /\ DOMAIN paid = Fields /\ paid.mail = a.mail /\ paid.karma = a.karma
      /\ paid.total = a.total
  BY <1>1 DEF AddCurrency, Fields
<1> HIDE DEF paid
<1>3. Posted(paid)
  BY <1>2, PostedSame
<1>4. SceneRow[c].fexp \in Nat
  BY MissionsAssumption DEF MissionsAssumption
<1> QED BY <1>2, <1>3, <1>4, KarmaPosted DEF paid, first

LEMMA PostInit == Init => PostInv
<1> SUFFICES ASSUME Init PROVE PostInv
  OBVIOUS
<1> DEFINE a == NewAccount
<1>1. a.mail = <<>> /\ a.karma = [flv |-> 1, fxp |-> 0] /\ a.total = 0
  BY DEF NewAccount
<1> HIDE DEF a
<1>2. ASSUME NEW f PROVE SumFunctionOnSet(f, {}) = 0
  BY SumEmpty, Zenon
<1>3. \A i \in Items : /\ Mailed(a, "ladder", i) = 0 /\ Mailed(a, "karma", i) = 0
                       /\ RungsOwed(a, i) = 0 /\ RanksOwed(a, i) = 0
  <2>1. DOMAIN a.mail = {} /\ 1..a.total = {} /\ 2..a.karma.flv = {}
    BY <1>1
  <2>2. ASSUME NEW i
        PROVE  /\ Mailed(a, "ladder", i) = SumFunctionOnSet(OfKind(a.mail, "ladder", i), {})
               /\ Mailed(a, "karma", i) = SumFunctionOnSet(OfKind(a.mail, "karma", i), {})
               /\ RungsOwed(a, i) = SumFunctionOnSet(OnDay(i, {}), {})
               /\ RanksOwed(a, i) = SumFunctionOnSet(Lines(RankItem, i), {})
    BY <2>1 DEF Mailed, RungsOwed, RanksOwed
  <2> QED BY <1>2, <2>2
<1>4. Posted(a)
  BY <1>1, <1>3, MissionsAssumption DEF Posted, MissionsAssumption
<1> QED BY <1>4, InitInv DEF PostInv, Init, a

LEMMA LoginPosted ==
  ASSUME PostInv, Load \/ Migrate \/ RearmMissions \/ CreditLogin \/ AdvanceLogin \/ Crash
  PROVE  Posted(mem') /\ Posted(disk')
<1>1. Posted(mem) /\ Posted(disk) /\ OnLadder(mem)
  BY DEF PostInv, StepInv, AccountInv
<1>2. DOMAIN mem = Fields /\ DOMAIN disk = Fields
  BY DEF PostInv, StepInv, AccountInv, Booked, Kept
<1>3. CASE Load
  <2> DEFINE b == RefillPasses(disk)
  <2>1. DOMAIN b = Fields /\ b.mail = disk.mail /\ b.karma = disk.karma /\ b.total = disk.total
    BY <1>2 DEF RefillPasses, Fields
  <2> HIDE DEF b
  <2>2. Posted(b)
    BY <1>1, <2>1, PostedSame
  <2>3. Posted(RescueAll(b))
    BY <2>1, <2>2, RescueOutside, OutsidePosted DEF PurseFields
  <2> QED BY <1>3, <2>3 DEF Load, b
<1>4. CASE Migrate
  <2> DEFINE b == MigrateBalances(mem)
  <2>1. b.mail = mem.mail /\ b.karma = mem.karma /\ b.total = mem.total
    BY <1>2 DEF MigrateBalances, Fields
  <2> HIDE DEF b
  <2>2. Posted(b)
    BY <1>1, <2>1, PostedSame
  <2> QED BY <1>1, <1>4, <2>2 DEF Migrate, Step, b
<1>5. CASE RearmMissions
  <2> DEFINE b == Rearm(mem)
  <2>1. b.mail = mem.mail /\ b.karma = mem.karma /\ b.total = mem.total
    BY <1>2 DEF Rearm, Fields
  <2> HIDE DEF b
  <2>2. Posted(b)
    BY <1>1, <2>1, PostedSame
  <2> QED BY <1>1, <1>5, <2>2 DEF RearmMissions, Step, b
<1>6. CASE CreditLogin
  <2>1. Posted(Count(mem, "login", AnyValue, 1))
    BY <1>1, <1>2, BumpOutside, OutsidePosted DEF Count
  <2> QED BY <1>1, <1>6, <2>1 DEF CreditLogin, Step
<1>7. CASE AdvanceLogin
  <2>1. Posted(Climb(mem))
    BY <1>1, <1>2, ClimbPosted
  <2> QED BY <1>1, <1>7, <2>1 DEF AdvanceLogin, Step
<1>8. CASE Crash
  BY <1>1, <1>8 DEF Crash
<1> QED BY <1>3, <1>4, <1>5, <1>6, <1>7, <1>8

LEMMA PostNext == PostInv /\ [Next]_vars => PostInv'
<1> SUFFICES ASSUME PostInv, [Next]_vars PROVE PostInv'
  OBVIOUS
<1>1. Posted(mem) /\ Posted(disk)
  BY DEF PostInv
<1>2. DOMAIN mem = Fields
  BY DEF PostInv, StepInv, AccountInv, Booked, Kept
<1>3. SUFFICES Posted(mem') /\ Posted(disk')
  BY <1>3, NextKeeps DEF PostInv
<1>4. ASSUME NEW a, Handler(a), Posted(a) PROVE Posted(mem') /\ Posted(disk')
  BY <1>4 DEF Handler
<1>5. CASE Load \/ Migrate \/ RearmMissions \/ CreditLogin \/ AdvanceLogin \/ Crash
  BY <1>5, LoginPosted
<1>6. ASSUME NEW q \in Quests, Claim(q) PROVE Posted(mem') /\ Posted(disk')
  <2>1. Posted(Complete(mem, q))
    BY <1>1, <1>2, CompleteOutside, OutsidePosted DEF PurseFields
  <2> QED BY <1>4, <1>6, <2>1 DEF Claim
<1>7. ASSUME NEW n \in DOMAIN mem.mail, ReceiveMail(n) PROVE Posted(mem') /\ Posted(disk')
  <2>1. Posted(ClaimMail(mem, n))
    BY <1>1, <1>2, ReadPosted
  <2> QED BY <1>4, <1>7, <2>1 DEF ReceiveMail
<1>8. CASE SyncLadder
  <2> DEFINE b == [mem EXCEPT !.checkin = 0]
  <2>1. b.mail = mem.mail /\ b.karma = mem.karma /\ b.total = mem.total
    BY <1>2 DEF Fields
  <2>2. Handler(b)
    BY <1>8 DEF SyncLadder
  <2> HIDE DEF b
  <2> QED BY <1>1, <1>4, <2>1, <2>2, PostedSame
<1>9. CASE ClearStage
  <2>1. Posted(Count(mem, "clear", AnyValue, 1))
    BY <1>1, <1>2, BumpOutside, OutsidePosted DEF Count
  <2> QED BY <1>4, <1>9, <2>1 DEF ClearStage
<1>10. ASSUME NEW c \in Scenes, Choose(c) PROVE Posted(mem') /\ Posted(disk')
  <2> DEFINE first == [mem EXCEPT !.decided = @ \cup {c}]
             paid == AddCurrency(first, SceneRow[c].cur, SceneRow[c].n)
             b == IF c \in mem.decided THEN mem
                  ELSE IF SceneRow[c].fexp > 0 THEN GrantKarma(paid, SceneRow[c].fexp)
                  ELSE paid
  <2>1. Posted(paid) /\ Posted(GrantKarma(paid, SceneRow[c].fexp))
    BY <1>1, <1>2, ChoosePosted
  <2>2. Handler(b)
    BY <1>10 DEF Choose
  <2> HIDE DEF paid
  <2>3. Posted(b)
    BY <1>1, <2>1
  <2> HIDE DEF b
  <2> QED BY <1>4, <2>2, <2>3
<1>11. ASSUME NEW n, NEW express, StartSweep(n, express) \/ StopSweep
       PROVE  Posted(mem') /\ Posted(disk')
  <2>1. Posted(Stopped(mem)) /\ Posted(Settled(StartedSweep(mem, n, express)))
    BY <1>1, <1>2, SweepOutside, OutsidePosted
  <2> QED BY <1>4, <1>11, <2>1 DEF StartSweep, StopSweep
<1>12. CASE SyncSweep
  <2>1. Posted(Settled(mem))
    BY <1>1, <1>2, SweepOutside, OutsidePosted
  <2> QED BY <1>1, <1>12, <2>1 DEF SyncSweep
<1>13. CASE Tick
  BY <1>1, <1>13 DEF Tick
<1>14. CASE UNCHANGED vars
  BY <1>1, <1>14 DEF vars
<1> QED BY <1>5, <1>6, <1>7, <1>8, <1>9, <1>10, <1>11, <1>12, <1>13, <1>14 DEF Next

LEMMA InvSuffices == PostInv => StepByStep
<1> SUFFICES ASSUME PostInv PROVE StepByStep
  OBVIOUS
<1>0. StepInv /\ Posted(mem) /\ Posted(disk)
  BY DEF PostInv
<1>1. MetaCountsClaims /\ ChainOrder
  BY <1>0 DEF StepInv, AccountInv, Booked, InChains, MetaCountsClaims, ChainOrder, Both
<1>2. LadderInOrder
  <2>1. UtcDay = now \div 2 /\ UtcDay \in Nat
    BY <1>0, PeriodFacts DEF UtcDay, Groups, StepInv
  <2>2. ASSUME NEW a, AccountInv(a, now)
        PROVE  a.total = (a.book - 1) * Rungs + a.rung /\ a.total <= UtcDay + 1
    BY <2>1, <2>2 DEF AccountInv, OnLadder, Timely
  <2> QED BY <1>0, <2>2 DEF StepInv, LadderInOrder, Both
<1>3. MailedOnce
  BY <1>0 DEF MailedOnce, Both, Posted
<1> QED BY <1>1, <1>2, <1>3 DEF StepByStep

-----------------------------------------------------------------------------
(* Whatever the quests, the ladder and the clock are, and wherever a login *)
(* is cut short: a mission that counts missions counts each claim once in  *)
(* each window, a chain is taken in order, the login ladder climbs at most *)
(* one rung a UTC day, and the mailbox holds the reward of every rung and  *)
(* of every Karma rank that was reached, once (complete_quests,            *)
(* bump_mission_claimed, reset_periodic_missions, bump_quest_counter,      *)
(* advance_login_bonus, karma_rank_rewards, grant_karma, add_mail).        *)
THEOREM StepsSafe == Spec => []StepByStep
<1>1. Init => PostInv
  BY PostInit
<1>2. PostInv /\ [Next]_vars => PostInv'
  BY PostNext
<1>3. PostInv => StepByStep
  BY InvSuffices
<1> QED BY <1>1, <1>2, <1>3, PTL DEF Spec

-----------------------------------------------------------------------------
(* The purse.                                                              *)

Recorded(a) == a = [f \in Fields |-> a[f]]
PurseTyped(a) ==
  /\ a.cur \in [Currencies -> 0..BalanceMax]
  /\ a.cur["cash"] + a.cur["paid"] <= BalanceMax
  /\ a.bag \in [Items -> 0..BalanceMax]
  /\ a.energy \in Nat /\ a.gear \in Nat /\ a.casts \in Nat
Sound(a) == Recorded(a) /\ PurseTyped(a)

(* What an account may become while it is granted something.               *)
Purses(a) ==
  {c \in [cur : [Currencies -> 0..BalanceMax], bag : [Items -> 0..BalanceMax],
          energy : Nat, gear : Nat, casts : Nat, quests : {a.quests}, sp : {a.sp},
          db : {a.db}, rev : {a.rev}, passDay : {a.passDay}, stamps : {a.stamps},
          rung : {a.rung}, book : {a.book}, total : {a.total}, lastDay : {a.lastDay},
          checkin : {a.checkin}, mail : {a.mail}, karma : {a.karma},
          decided : {a.decided}, job : {a.job}, claims : {a.claims}] :
     c.cur["cash"] = a.cur["cash"] /\ c.cur["paid"] = a.cur["paid"]}

LEMMA InPurses ==
  ASSUME NEW a, Sound(a), NEW b, Sound(b), Outside(a, b, PurseFields),
         b.cur["cash"] = a.cur["cash"], b.cur["paid"] = a.cur["paid"]
  PROVE  b \in Purses(a)
<1>1. \A f \in Fields \ PurseFields : b[f] = a[f]
  BY DEF Outside
<1>2. b = [f \in Fields |-> b[f]]
  BY DEF Sound, Recorded
<1> QED BY <1>1, <1>2 DEF Sound, PurseTyped, Purses, Fields, PurseFields

LEMMA OfPurses ==
  ASSUME NEW a, Sound(a), NEW b \in Purses(a)
  PROVE  /\ Sound(b) /\ Outside(a, b, PurseFields) /\ DOMAIN b = Fields
         /\ b.cur["cash"] = a.cur["cash"] /\ b.cur["paid"] = a.cur["paid"]
<1>1. DOMAIN b = Fields /\ Recorded(b)
  BY DEF Purses, Recorded, Fields
<1>2. Outside(a, b, PurseFields)
  BY <1>1 DEF Purses, Outside, Fields, PurseFields
<1> QED BY <1>1, <1>2 DEF Purses, Sound, PurseTyped

LEMMA PurseTaken ==
  ASSUME NEW a, Sound(a), NEW d \in Purses(a)
  PROVE  WithPurse(a, d) = d
<1>1. Sound(d) /\ Outside(a, d, PurseFields)
  BY OfPurses
<1>2. DOMAIN a = Fields /\ d = [f \in Fields |-> d[f]] /\ \A f \in Fields \ PurseFields : d[f] = a[f]
  BY <1>1 DEF Sound, Recorded, Outside
<1>3. WithPurse(a, d) = [f \in Fields |-> IF f \in PurseFields THEN d[f] ELSE a[f]]
  BY <1>2 DEF WithPurse, Fields, PurseFields
<1>4. \A f \in Fields : (IF f \in PurseFields THEN d[f] ELSE a[f]) = d[f]
  BY <1>2
<1> QED BY <1>2, <1>3, <1>4

LEMMA CapType ==
  ASSUME NEW v \in Int, NEW h \in 0..BalanceMax
  PROVE  Capped(v, h) \in 0..(BalanceMax - h) /\ (0 <= v /\ v + h <= BalanceMax => Capped(v, h) = v)
BY PurseAssumption DEF PurseAssumption, Capped

LEMMA CurrencySound ==
  ASSUME NEW a, Sound(a), NEW k \in Currencies, NEW n \in Nat
  PROVE  LET b == AddCurrency(a, k, n)
         IN /\ Sound(b) /\ b.bag = a.bag /\ b.energy = a.energy /\ b.gear = a.gear
            /\ b.casts = a.casts
            /\ \A j \in Currencies : j # k \/ n = 0 => b.cur[j] = a.cur[j]
<1> DEFINE b == AddCurrency(a, k, n)
           m == Capped(a.cur[k] + n, Headroom(a, k))
<1>1. DOMAIN a = Fields /\ a.cur \in [Currencies -> 0..BalanceMax] /\ BalanceMax \in Nat
  BY PurseAssumption DEF Sound, Recorded, PurseTyped, PurseAssumption
<1>2. a.cur["cash"] + a.cur["paid"] <= BalanceMax
  BY DEF Sound, PurseTyped
<1>3. a.cur["cash"] \in 0..BalanceMax /\ a.cur["paid"] \in 0..BalanceMax
      /\ a.cur["coin"] \in 0..BalanceMax
  BY <1>1 DEF Currencies
<1>4. /\ Headroom(a, k) \in 0..BalanceMax /\ a.cur[k] \in 0..BalanceMax
      /\ a.cur[k] + Headroom(a, k) <= BalanceMax
      /\ k = "cash" => Headroom(a, k) = a.cur["paid"]
      /\ k = "paid" => Headroom(a, k) = a.cur["cash"]
  BY <1>1, <1>2, <1>3 DEF Headroom, Currencies
<1>5. m \in 0..(BalanceMax - Headroom(a, k)) /\ (n = 0 => m = a.cur[k])
  BY <1>1, <1>4, CapType
<1>6. b = [a EXCEPT !.cur = [a.cur EXCEPT ![k] = m]]
  BY DEF AddCurrency
<1> HIDE DEF m
<1>7. /\ Recorded(b) /\ b.cur = [a.cur EXCEPT ![k] = m] /\ b.bag = a.bag
      /\ b.energy = a.energy /\ b.gear = a.gear /\ b.casts = a.casts
  BY <1>1, <1>6 DEF Recorded, Fields
<1> HIDE DEF b
<1>8. b.cur \in [Currencies -> 0..BalanceMax]
  BY <1>1, <1>4, <1>5, <1>7
<1>9. b.cur["cash"] + b.cur["paid"] <= BalanceMax
  BY <1>1, <1>2, <1>3, <1>4, <1>5, <1>7 DEF Currencies
<1>10. \A j \in Currencies : j # k \/ n = 0 => b.cur[j] = a.cur[j]
  BY <1>1, <1>5, <1>7
<1> QED BY <1>7, <1>8, <1>9, <1>10 DEF b, Sound, PurseTyped

LEMMA HandOverSound ==
  ASSUME NEW a, Sound(a), NEW w \in Payouts, w.cur["cash"] = 0, w.cur["paid"] = 0,
         NEW n \in Nat
  PROVE  LET b == HandOver(a, w, n)
         IN /\ Sound(b) /\ Outside(a, b, PurseFields)
            /\ b.cur["cash"] = a.cur["cash"] /\ b.cur["paid"] = a.cur["paid"]
            /\ b.gear = a.gear + AtLeastOne(n) * w.gear
            /\ \A i \in Items : b.bag[i] = IF w.bag[i] = 0 THEN a.bag[i]
                                           ELSE Capped(a.bag[i] + n * w.bag[i], 0)
<1> DEFINE c == AddCurrency(a, "cash", n * w.cur["cash"])
           d == AddCurrency(c, "paid", n * w.cur["paid"])
           e == AddCurrency(d, "coin", n * w.cur["coin"])
           b == HandOver(a, w, n)
           bag == [i \in Items |-> IF w.bag[i] = 0 THEN e.bag[i]
                                   ELSE Capped(e.bag[i] + n * w.bag[i], 0)]
<1>1. /\ w.cur["coin"] \in Nat /\ w.energy \in Nat /\ w.gear \in Nat /\ w.casts \in Nat
      /\ w.bag \in [Items -> Nat]
  BY DEF Payouts, Currencies
<1>2. /\ n * w.cur["cash"] = 0 /\ n * w.cur["paid"] = 0
      /\ n * w.cur["coin"] \in Nat /\ n * w.energy \in Nat
      /\ AtLeastOne(n) * w.gear \in Nat /\ AtLeastOne(n) * w.casts \in Nat
      /\ \A i \in Items : n * w.bag[i] \in Nat
  <2>1. \A x, y \in Nat : x * y \in Nat
    OBVIOUS
  <2>2. AtLeastOne(n) \in Nat
    BY DEF AtLeastOne
  <2> QED BY <1>1, <2>1, <2>2
<1>3. {"cash", "paid", "coin"} \subseteq Currencies
  BY DEF Currencies
<1>4. /\ Sound(c) /\ c.bag = a.bag /\ c.energy = a.energy /\ c.gear = a.gear
      /\ c.casts = a.casts /\ c.cur["cash"] = a.cur["cash"] /\ c.cur["paid"] = a.cur["paid"]
  BY <1>2, <1>3, CurrencySound
<1> HIDE DEF c
<1>5. /\ Sound(d) /\ d.bag = a.bag /\ d.energy = a.energy /\ d.gear = a.gear
      /\ d.casts = a.casts /\ d.cur["cash"] = a.cur["cash"] /\ d.cur["paid"] = a.cur["paid"]
  BY <1>2, <1>3, <1>4, CurrencySound
<1> HIDE DEF d
<1>6. /\ Sound(e) /\ e.bag = a.bag /\ e.energy = a.energy /\ e.gear = a.gear
      /\ e.casts = a.casts /\ e.cur["cash"] = a.cur["cash"] /\ e.cur["paid"] = a.cur["paid"]
  <2> DEFINE m == n * w.cur["coin"]
  <2>1. m \in Nat /\ "coin" \in Currencies /\ "cash" \in Currencies /\ "paid" \in Currencies
    BY <1>2, <1>3
  <2>2. e = AddCurrency(d, "coin", m)
    OBVIOUS
  <2> HIDE DEF m
  <2>3. /\ Sound(AddCurrency(d, "coin", m)) /\ AddCurrency(d, "coin", m).bag = d.bag
        /\ AddCurrency(d, "coin", m).energy = d.energy
        /\ AddCurrency(d, "coin", m).gear = d.gear
        /\ AddCurrency(d, "coin", m).casts = d.casts
        /\ \A j \in Currencies : j # "coin" => AddCurrency(d, "coin", m).cur[j] = d.cur[j]
    BY <1>5, <2>1, CurrencySound
  <2> HIDE DEF e
  <2> QED BY <1>5, <2>1, <2>2, <2>3
<1>7. b = [e EXCEPT !.energy = IF w.energy = 0 THEN @ ELSE Capped(@ + n * w.energy, 0),
                    !.gear = @ + AtLeastOne(n) * w.gear,
                    !.casts = @ + AtLeastOne(n) * w.casts, !.bag = bag]
  BY DEF HandOver, c, d, e
<1> HIDE DEF e
<1>8. DOMAIN e = Fields
  BY <1>6 DEF Sound, Recorded
<1>9. BalanceMax \in Nat /\ 0 \in 0..BalanceMax
  BY PurseAssumption DEF PurseAssumption
<1>10. bag \in [Items -> 0..BalanceMax]
  <2> SUFFICES ASSUME NEW i \in Items PROVE bag[i] \in 0..BalanceMax
    OBVIOUS
  <2>1. e.bag[i] \in 0..BalanceMax
    BY <1>6 DEF Sound, PurseTyped
  <2>2. Capped(e.bag[i] + n * w.bag[i], 0) \in 0..BalanceMax
    <3> DEFINE v == e.bag[i] + n * w.bag[i]
    <3>1. v \in Int
      BY <1>2, <2>1
    <3> HIDE DEF v
    <3>2. Capped(v, 0) \in 0..BalanceMax
      BY <1>9, <3>1, CapType
    <3> QED BY <3>2 DEF v
  <2> QED BY <2>1, <2>2
<1>11. \A i \in Items : bag[i] = IF w.bag[i] = 0 THEN a.bag[i]
                                 ELSE Capped(a.bag[i] + n * w.bag[i], 0)
  BY <1>6
<1> HIDE DEF bag
<1>12. Capped(e.energy + n * w.energy, 0) \in Nat
  <2> DEFINE v == e.energy + n * w.energy
  <2>1. v \in Int
    BY <1>2, <1>6 DEF Sound, PurseTyped
  <2> HIDE DEF v
  <2>2. Capped(v, 0) \in 0..BalanceMax
    BY <1>9, <2>1, CapType
  <2> QED BY <1>9, <2>2 DEF v
<1>13. /\ Recorded(b) /\ b.cur = e.cur /\ b.bag = bag /\ b.gear = a.gear + AtLeastOne(n) * w.gear
       /\ b.energy \in Nat /\ b.gear \in Nat /\ b.casts \in Nat
  <2>1. /\ Recorded(b) /\ b.cur = e.cur /\ b.bag = bag
        /\ b.gear = e.gear + AtLeastOne(n) * w.gear
        /\ b.casts = e.casts + AtLeastOne(n) * w.casts
        /\ b.energy = IF w.energy = 0 THEN e.energy ELSE Capped(e.energy + n * w.energy, 0)
    BY <1>7, <1>8 DEF Recorded, Fields
  <2>2. e.gear \in Nat /\ e.casts \in Nat /\ e.energy \in Nat
    BY <1>6 DEF Sound, PurseTyped
  <2>3. b.energy \in Nat
    BY <1>12, <2>1, <2>2
  <2> DEFINE g == AtLeastOne(n) * w.gear
             k == AtLeastOne(n) * w.casts
  <2>4. g \in Nat /\ k \in Nat /\ b.gear = e.gear + g /\ b.casts = e.casts + k
    BY <1>2, <2>1
  <2> HIDE DEF b, g, k
  <2>5. b.gear \in Nat /\ b.casts \in Nat /\ b.gear = a.gear + g
    BY <1>6, <2>2, <2>4
  <2> QED BY <2>1, <2>3, <2>5 DEF g
<1>14. Outside(a, b, PurseFields)
  <2>1. DOMAIN a = Fields
    BY DEF Sound, Recorded
  <2> QED BY <2>1, HandOverOutside
<1> HIDE DEF b
<1>15. Sound(b)
  BY <1>6, <1>10, <1>13 DEF Sound, PurseTyped
<1> QED BY <1>6, <1>11, <1>13, <1>14, <1>15 DEF b

-----------------------------------------------------------------------------
(* What is granted, where a reward can be told by what it is.              *)

Owned == MailOnly \cup Boxes \cup {Drop}

LEMMA OwnedFacts ==
  /\ Owned \subseteq Items /\ Boxes \subseteq Items /\ IsFiniteSet(Items) /\ IsFiniteSet(Boxes)
  /\ BalanceMax \in Nat /\ Pass \in Items /\ Coupon \in Items /\ Drop \in Owned
<1>1. IsFiniteSet(Boxes)
  BY PurseAssumption, FS_Subset DEF PurseAssumption
<1>2. MailOnly \subseteq Items
  BY MissionsAssumption DEF MailOnly, MissionsAssumption, Rewards
<1> QED BY <1>1, <1>2, PurseAssumption, MissionsAssumption
      DEF Owned, PurseAssumption, MissionsAssumption

LEMMA GoodsSound ==
  ASSUME RewardsApart, NEW a, Sound(a), NEW i \in Items, NEW n \in Nat
  PROVE  LET b == GrantGoods(a, i, n)
         IN /\ b \in Purses(a)
            /\ b.gear = a.gear + (IF i \in Boxes THEN AtLeastOne(n) ELSE 0)
            /\ \A j \in Owned : b.bag[j] = IF i = j /\ i \notin Boxes
                                             THEN Capped(a.bag[j] + n, 0) ELSE a.bag[j]
<1> DEFINE b == GrantGoods(a, i, n)
           w == Worth[i]
<1>1. w \in Payouts /\ w.cur["cash"] = 0 /\ w.cur["paid"] = 0
      /\ w.gear = IF i \in Boxes THEN 1 ELSE 0
  BY PurseAssumption DEF PurseAssumption, RewardsApart
<1>2. \A j \in Owned : w.bag[j] = IF i = j /\ i \notin Boxes THEN 1 ELSE 0
  BY DEF RewardsApart, Owned
<1>3. b = HandOver(a, w, n)
  BY DEF GrantGoods
<1> HIDE DEF w
<1>4. /\ Sound(b) /\ Outside(a, b, PurseFields)
      /\ b.cur["cash"] = a.cur["cash"] /\ b.cur["paid"] = a.cur["paid"]
      /\ b.gear = a.gear + AtLeastOne(n) * w.gear
      /\ \A j \in Items : b.bag[j] = IF w.bag[j] = 0 THEN a.bag[j]
                                     ELSE Capped(a.bag[j] + n * w.bag[j], 0)
  BY <1>1, <1>3, HandOverSound
<1> HIDE DEF b
<1>5. b \in Purses(a)
  BY <1>4, InPurses
<1>6. b.gear = a.gear + (IF i \in Boxes THEN AtLeastOne(n) ELSE 0)
  <2>1. AtLeastOne(n) \in Nat
    BY DEF AtLeastOne
  <2>2. AtLeastOne(n) * 1 = AtLeastOne(n) /\ AtLeastOne(n) * 0 = 0
    BY <2>1
  <2> QED BY <1>1, <1>4, <2>2
<1>7. ASSUME NEW j \in Owned
      PROVE  b.bag[j] = IF i = j /\ i \notin Boxes THEN Capped(a.bag[j] + n, 0) ELSE a.bag[j]
  <2>1. j \in Items
    BY OwnedFacts
  <2>2. n * 1 = n
    OBVIOUS
  <2> QED BY <1>2, <1>4, <2>1, <2>2
<1> QED BY <1>5, <1>6, <1>7 DEF b

LEMMA RewardSound ==
  ASSUME RewardsApart, NEW a, Sound(a), NEW i \in Items, NEW n \in Nat
  PROVE  LET b == GrantReward(a, i, n)
         IN /\ b \in Purses(a) /\ b.gear = a.gear
            /\ \A j \in Owned : b.bag[j] = IF i = j THEN Capped(a.bag[j] + n, 0) ELSE a.bag[j]
<1>1. CASE i \notin Boxes
  <2>1. GrantReward(a, i, n) = GrantGoods(a, i, n)
    BY <1>1 DEF GrantReward, GrantGoods
  <2>2. a.gear \in Nat
    BY DEF Sound, PurseTyped
  <2> QED BY <1>1, <2>1, <2>2, GoodsSound
<1>2. CASE i \in Boxes
  <2> DEFINE b == GrantItem(a, i, n)
             m == Capped(a.bag[i] + n, 0)
  <2>1. GrantReward(a, i, n) = b
    BY <1>2 DEF GrantReward
  <2>2. DOMAIN a = Fields /\ a.bag \in [Items -> 0..BalanceMax]
    BY DEF Sound, Recorded, PurseTyped
  <2>3. m \in 0..BalanceMax
    <3> DEFINE v == a.bag[i] + n
    <3>1. BalanceMax \in Nat
      BY OwnedFacts
    <3>2. v \in Int /\ 0 \in 0..BalanceMax
      BY <2>2, <3>1
    <3> HIDE DEF v
    <3>3. Capped(v, 0) \in 0..(BalanceMax - 0)
      BY <3>2, CapType
    <3>4. Capped(v, 0) \in 0..BalanceMax
      BY <3>1, <3>3
    <3> QED BY <3>4 DEF v
  <2>4. b = [a EXCEPT !.bag = [a.bag EXCEPT ![i] = m]]
    BY DEF GrantItem
  <2> HIDE DEF m
  <2>5. /\ Recorded(b) /\ b.bag = [a.bag EXCEPT ![i] = m] /\ b.cur = a.cur
        /\ b.energy = a.energy /\ b.gear = a.gear /\ b.casts = a.casts
        /\ Outside(a, b, PurseFields)
    BY <2>2, <2>4 DEF Recorded, Fields, Outside, PurseFields
  <2> HIDE DEF b
  <2>6. Sound(b)
    BY <2>2, <2>3, <2>5 DEF Sound, PurseTyped
  <2>7. b \in Purses(a)
    BY <2>5, <2>6, InPurses
  <2>8. ASSUME NEW j \in Owned
        PROVE  b.bag[j] = IF i = j THEN m ELSE a.bag[j]
    BY <2>2, <2>5, OwnedFacts
  <2> QED BY <2>1, <2>5, <2>7, <2>8 DEF m
<1> QED BY <1>1, <1>2

(* claim_mail: every line of a letter is added, and nothing else.          *)
LEMMA AttachedSound ==
  ASSUME RewardsApart, NEW a, Sound(a), NEW it \in [Items -> Nat],
         \A j \in Owned : a.bag[j] + it[j] <= BalanceMax
  PROVE  LET b == Attached(a, it)
         IN /\ b \in Purses(a) /\ b.gear = a.gear
            /\ \A j \in Owned : b.bag[j] = a.bag[j] + it[j]
<1> DEFINE V == Purses(a)
           grant(c, i) == IF it[i] = 0 THEN c ELSE GrantReward(c, i, it[i])
           step == [p \in Items \X V |-> grant(p[2], p[1])]
<1>1. a \in V
  <2>1. Outside(a, a, PurseFields)
    BY DEF Outside, Sound, Recorded
  <2> QED BY <2>1, InPurses
<1>2. ASSUME NEW c \in V, NEW i \in Items
      PROVE  /\ grant(c, i) \in V /\ grant(c, i).gear = c.gear
             /\ \A j \in Owned : grant(c, i).bag[j] =
                  IF i = j /\ it[i] # 0 THEN Capped(c.bag[j] + it[j], 0) ELSE c.bag[j]
  <2>1. Sound(c) /\ Outside(a, c, PurseFields)
        /\ c.cur["cash"] = a.cur["cash"] /\ c.cur["paid"] = a.cur["paid"]
    BY <1>2, OfPurses
  <2>2. CASE it[i] = 0
    BY <1>2, <2>2
  <2>3. CASE it[i] # 0
    <3> DEFINE d == GrantReward(c, i, it[i])
    <3>1. /\ d \in Purses(c) /\ d.gear = c.gear
          /\ \A j \in Owned : d.bag[j] = IF i = j THEN Capped(c.bag[j] + it[i], 0) ELSE c.bag[j]
      BY <2>1, RewardSound
    <3>2. grant(c, i) = d
      BY <2>3
    <3> HIDE DEF d, grant, V
    <3>3. /\ Sound(d) /\ Outside(c, d, PurseFields)
          /\ d.cur["cash"] = c.cur["cash"] /\ d.cur["paid"] = c.cur["paid"]
      BY <2>1, <3>1, OfPurses
    <3>4. d \in V
      BY <2>1, <3>3, OutsideTwice, InPurses DEF V
    <3> QED BY <2>3, <3>1, <3>2, <3>4
  <2> QED BY <2>2, <2>3
<1>3. step \in [Items \X V -> V] /\ \A i \in Items : \A c \in V : step[<<i, c>>] = grant(c, i)
  <2> HIDE DEF grant, V
  <2> QED BY <1>2
<1> HIDE DEF step
<1>4. PICK g \in [SUBSET Items -> V] : IsRun(g, step, a, Items)
  <2> HIDE DEF V
  <2> QED BY <1>1, <1>3, OwnedFacts, RunExists
<1>5. ASSUME NEW s \in SUBSET Items, s # {}
      PROVE  /\ Some(s) \in s /\ Less(s) \in SUBSET Items /\ Less(s) \subseteq s /\ Less(s) # s
             /\ s = Less(s) \cup {Some(s)} /\ Some(s) \notin Less(s)
             /\ g[Less(s)] \in V /\ g[s] = grant(g[Less(s)], Some(s))
  <2>1. Some(s) \in s
    BY <1>5 DEF Some
  <2>2. Less(s) \in SUBSET Items /\ Less(s) \subseteq s /\ Less(s) # s
        /\ s = Less(s) \cup {Some(s)} /\ Some(s) \notin Less(s)
    BY <2>1 DEF Less
  <2>3. g[s] = step[<<Some(s), g[Less(s)]>>]
    BY <1>4, <1>5 DEF IsRun
  <2> HIDE DEF V, grant
  <2> QED BY <1>3, <1>4, <2>1, <2>2, <2>3
<1> DEFINE E(r) == [s \in SUBSET Items |->
                      IF s = {} THEN a
                      ELSE IF it[CHOOSE x \in s : TRUE] = 0 THEN r[s \ {CHOOSE x \in s : TRUE}]
                      ELSE GrantReward(r[s \ {CHOOSE x \in s : TRUE}], CHOOSE x \in s : TRUE,
                                       it[CHOOSE x \in s : TRUE])]
           run == CHOOSE r : r = E(r)
<1>6. FoldSet(LAMBDA i, c : IF it[i] = 0 THEN c ELSE GrantReward(c, i, it[i]), a, Items)
        = run[Items]
  BY DEF FoldSet, MapThenFoldSet
<1>7. g = E(g)
  <2>1. \A s \in SUBSET Items : g[s] = IF s = {} THEN a ELSE grant(g[Less(s)], Some(s))
    <3> HIDE DEF grant, V
    <3> QED BY <1>4, <1>5 DEF IsRun
  <2> HIDE DEF V
  <2> QED BY <1>4, <2>1 DEF Some, Less
<1>8. run = E(run)
  BY <1>7
<1> HIDE DEF run
<1>9. \A s \in SUBSET Items : run[s] = g[s]
  <2> DEFINE F == {s \in SUBSET Items : run[s] # g[s]}
  <2> SUFFICES ASSUME F # {} PROVE FALSE
    OBVIOUS
  <2>1. F \subseteq SUBSET Items
    OBVIOUS
  <2>2. PICK s \in F : \A u \in F : u \subseteq s => u = s
    <3> HIDE DEF F
    <3> QED BY <2>1, LeastSubset, OwnedFacts
  <2>3. run[s] = IF s = {} THEN a ELSE grant(run[Less(s)], Some(s))
    BY <1>8, <2>2 DEF Some, Less
  <2>4. g[s] = IF s = {} THEN a ELSE grant(g[Less(s)], Some(s))
    BY <1>7, <2>2 DEF Some, Less
  <2>5. s # {} => run[Less(s)] = g[Less(s)]
    <3> HIDE DEF grant, V, E
    <3> QED BY <1>5, <2>2
  <2> HIDE DEF grant
  <2> QED BY <2>2, <2>3, <2>4, <2>5
<1> DEFINE P(s) == /\ g[s].gear = a.gear
                   /\ \A j \in Owned : g[s].bag[j] = a.bag[j] + (IF j \in s THEN it[j] ELSE 0)
<1>10. \A s \in SUBSET Items : P(s)
  <2> DEFINE F == {s \in SUBSET Items : ~P(s)}
  <2> SUFFICES ASSUME F # {} PROVE FALSE
    OBVIOUS
  <2>1. F \subseteq SUBSET Items
    OBVIOUS
  <2>2. PICK s \in F : \A u \in F : u \subseteq s => u = s
    <3> HIDE DEF F
    <3> QED BY <2>1, LeastSubset, OwnedFacts
  <2>3. \A j \in Owned : a.bag[j] \in 0..BalanceMax /\ it[j] \in Nat
    BY OwnedFacts DEF Sound, PurseTyped
  <2>4. s # {}
    <3> SUFFICES ASSUME s = {} PROVE FALSE
      OBVIOUS
    <3>1. g[s] = a
      BY <1>4 DEF IsRun
    <3>2. P(s)
      BY <2>3, <3>1
    <3> QED BY <2>2, <3>2
  <2> DEFINE u == Less(s)
             x == Some(s)
  <2>5. x \in s /\ x \in Items /\ u \in SUBSET Items /\ u \subseteq s /\ u # s
        /\ s = u \cup {x} /\ x \notin u
        /\ g[u] \in V /\ g[s] = grant(g[u], x)
    <3> HIDE DEF grant, V, P
    <3> QED BY <1>5, <2>2, <2>4
  <2>6. P(u)
    BY <2>2, <2>5
  <2>7. /\ g[s].gear = g[u].gear
        /\ \A j \in Owned : g[s].bag[j] =
             IF x = j /\ it[x] # 0 THEN Capped(g[u].bag[j] + it[j], 0) ELSE g[u].bag[j]
    <3> DEFINE c == g[u]
               d == grant(c, x)
    <3>1. c \in V /\ x \in Items /\ g[s] = d
      BY <2>5
    <3> HIDE DEF V, u, x, c, grant
    <3>2. d.gear = c.gear /\ \A j \in Owned : d.bag[j] =
            IF x = j /\ it[x] # 0 THEN Capped(c.bag[j] + it[j], 0) ELSE c.bag[j]
      BY <1>2, <3>1
    <3> HIDE DEF d
    <3> QED BY <3>1, <3>2 DEF c
  <2> HIDE DEF u, x, grant, V
  <2>8. ASSUME NEW j \in Owned
        PROVE  g[s].bag[j] = a.bag[j] + (IF j \in s THEN it[j] ELSE 0)
    <3>1. g[u].bag[j] = a.bag[j] + (IF j \in u THEN it[j] ELSE 0)
      BY <2>6
    <3>2. CASE x # j
      BY <2>5, <2>7, <3>1, <3>2
    <3>3. CASE x = j
      <4>1. g[u].bag[j] = a.bag[j] /\ j \in s
        BY <2>3, <2>5, <3>1, <3>3
      <4>2. /\ a.bag[j] + it[j] \in Int /\ 0 <= a.bag[j] + it[j]
            /\ a.bag[j] + it[j] + 0 <= BalanceMax /\ 0 \in 0..BalanceMax
        BY <2>3, OwnedFacts
      <4>3. Capped(a.bag[j] + it[j], 0) = a.bag[j] + it[j]
        BY <4>2, CapType
      <4> QED BY <2>3, <2>7, <3>3, <4>1, <4>3
    <3> QED BY <3>2, <3>3
  <2>9. P(s)
    BY <2>6, <2>7, <2>8
  <2> QED BY <2>2, <2>9
<1> DEFINE d == g[Items]
           b == Attached(a, it)
<1>11. d \in V /\ d.gear = a.gear /\ \A j \in Owned : d.bag[j] = a.bag[j] + it[j]
  <2> HIDE DEF V
  <2> QED BY <1>4, <1>10, OwnedFacts
<1>12. b = WithPurse(a, d)
  BY <1>6, <1>9 DEF Attached
<1> HIDE DEF d, b
<1> QED BY <1>11, <1>12, PurseTaken DEF b

(* _rescue_bagged_rewards: a box that is opened is a piece rolled.         *)
LEMMA OpenSound ==
  ASSUME RewardsApart, NEW a, Sound(a), NEW i \in Boxes
  PROVE  LET b == OpenOne(a, i)
         IN /\ b \in Purses(a) /\ b.gear = a.gear + AtLeastOne(a.bag[i])
            /\ \A j \in Owned : b.bag[j] = IF j = i THEN 0 ELSE a.bag[j]
<1> DEFINE c == [a EXCEPT !.bag[i] = 0]
           n == AtLeastOne(a.bag[i])
           b == OpenOne(a, i)
<1>1. DOMAIN a = Fields /\ a.bag \in [Items -> 0..BalanceMax] /\ i \in Items
  BY OwnedFacts DEF Sound, Recorded, PurseTyped
<1>2. n \in Nat /\ AtLeastOne(n) = n
  BY <1>1, OwnedFacts DEF AtLeastOne
<1>3. /\ Recorded(c) /\ c.bag = [a.bag EXCEPT ![i] = 0] /\ c.cur = a.cur
      /\ c.energy = a.energy /\ c.gear = a.gear /\ c.casts = a.casts
      /\ Outside(a, c, PurseFields)
  BY <1>1 DEF Recorded, Fields, Outside, PurseFields
<1>4. b = GrantGoods(c, i, n)
  BY DEF OpenOne
<1> HIDE DEF c, n
<1>5. Sound(c)
  BY <1>1, <1>3, OwnedFacts DEF Sound, PurseTyped
<1> HIDE DEF b
<1>6. /\ b \in Purses(c) /\ b.gear = c.gear + n
      /\ \A j \in Owned : b.bag[j] = c.bag[j]
  <2>1. /\ GrantGoods(c, i, n) \in Purses(c)
        /\ GrantGoods(c, i, n).gear = c.gear + (IF i \in Boxes THEN AtLeastOne(n) ELSE 0)
        /\ \A j \in Owned : GrantGoods(c, i, n).bag[j] =
             IF i = j /\ i \notin Boxes THEN Capped(c.bag[j] + n, 0) ELSE c.bag[j]
    BY <1>1, <1>2, <1>5, GoodsSound
  <2> QED BY <1>2, <1>4, <2>1
<1>7. b \in Purses(a)
  <2>1. /\ Sound(b) /\ Outside(c, b, PurseFields)
        /\ b.cur["cash"] = c.cur["cash"] /\ b.cur["paid"] = c.cur["paid"]
    BY <1>5, <1>6, OfPurses
  <2> QED BY <1>3, <2>1, OutsideTwice, InPurses
<1>8. \A j \in Owned : b.bag[j] = IF j = i THEN 0 ELSE a.bag[j]
  BY <1>1, <1>3, <1>6, OwnedFacts
<1> QED BY <1>3, <1>6, <1>7, <1>8 DEF b, n

LEMMA BoxTold ==
  ASSUME NEW f, NEW g, NEW e \in Boxes,
         \A x \in Boxes : f[x] \in Int /\ g[x] \in Int /\ (x # e => g[x] = f[x])
  PROVE  Boxed(g) = Boxed(f) + (g[e] - f[e])
BY OwnedFacts, SumChange DEF Boxed

LEMMA RescueSound ==
  ASSUME RewardsApart, NEW a, Sound(a)
  PROVE  LET b == RescueAll(a)
         IN /\ b \in Purses(a) /\ b.gear + Boxed(b.bag) = a.gear + Boxed(a.bag)
            /\ \A j \in Owned : b.bag[j] = IF j \in Boxes THEN 0 ELSE a.bag[j]
<1> DEFINE S == Stuck(a)
           V == Purses(a)
           step == [p \in S \X V |-> OpenOne(p[2], p[1])]
<1>1. a \in V
  <2>1. Outside(a, a, PurseFields)
    BY DEF Outside, Sound, Recorded
  <2> QED BY <2>1, InPurses
<1>2. ASSUME NEW c \in V, NEW i \in Boxes
      PROVE  /\ OpenOne(c, i) \in V /\ OpenOne(c, i).gear = c.gear + AtLeastOne(c.bag[i])
             /\ \A j \in Owned : OpenOne(c, i).bag[j] = IF j = i THEN 0 ELSE c.bag[j]
  <2>1. Sound(c) /\ Outside(a, c, PurseFields)
        /\ c.cur["cash"] = a.cur["cash"] /\ c.cur["paid"] = a.cur["paid"]
    BY <1>2, OfPurses
  <2> DEFINE d == OpenOne(c, i)
  <2>2. /\ d \in Purses(c) /\ d.gear = c.gear + AtLeastOne(c.bag[i])
        /\ \A j \in Owned : d.bag[j] = IF j = i THEN 0 ELSE c.bag[j]
    BY <2>1, OpenSound
  <2> HIDE DEF d, V
  <2>3. /\ Sound(d) /\ Outside(c, d, PurseFields)
        /\ d.cur["cash"] = c.cur["cash"] /\ d.cur["paid"] = c.cur["paid"]
    BY <2>1, <2>2, OfPurses
  <2>4. d \in V
    BY <2>1, <2>3, OutsideTwice, InPurses DEF V
  <2> QED BY <2>2, <2>4 DEF d
<1>3. S \subseteq Boxes /\ IsFiniteSet(S)
  BY OwnedFacts, FS_Subset DEF Stuck
<1>4. step \in [S \X V -> V] /\ \A i \in S : \A c \in V : step[<<i, c>>] = OpenOne(c, i)
  <2> HIDE DEF V, S
  <2> QED BY <1>2, <1>3
<1> HIDE DEF step
<1>5. PICK g \in [SUBSET S -> V] : IsRun(g, step, a, S)
  <2> HIDE DEF V, S
  <2> QED BY <1>1, <1>3, <1>4, RunExists
<1>6. ASSUME NEW s \in SUBSET S, s # {}
      PROVE  /\ Some(s) \in s /\ Less(s) \in SUBSET S /\ Less(s) \subseteq s /\ Less(s) # s
             /\ s = Less(s) \cup {Some(s)} /\ Some(s) \notin Less(s)
             /\ g[Less(s)] \in V /\ g[s] = OpenOne(g[Less(s)], Some(s))
  <2>1. Some(s) \in s
    BY <1>6 DEF Some
  <2>2. Less(s) \in SUBSET S /\ Less(s) \subseteq s /\ Less(s) # s
        /\ s = Less(s) \cup {Some(s)} /\ Some(s) \notin Less(s)
    BY <2>1 DEF Less
  <2>3. g[s] = step[<<Some(s), g[Less(s)]>>]
    BY <1>5, <1>6 DEF IsRun
  <2> HIDE DEF V, S
  <2> QED BY <1>4, <1>5, <2>1, <2>2, <2>3
<1> DEFINE E(r) == [s \in SUBSET S |->
                      IF s = {} THEN a
                      ELSE OpenOne(r[s \ {CHOOSE x \in s : TRUE}], CHOOSE x \in s : TRUE)]
           run == CHOOSE r : r = E(r)
<1>7. FoldSet(LAMBDA i, c : OpenOne(c, i), a, S) = run[S]
  BY DEF FoldSet, MapThenFoldSet
<1>8. g = E(g)
  <2>1. \A s \in SUBSET S : g[s] = IF s = {} THEN a ELSE OpenOne(g[Less(s)], Some(s))
    <3> HIDE DEF V, S
    <3> QED BY <1>5, <1>6 DEF IsRun
  <2> HIDE DEF V, S
  <2> QED BY <1>5, <2>1 DEF Some, Less
<1>9. run = E(run)
  BY <1>8
<1> HIDE DEF run
<1>10. \A s \in SUBSET S : run[s] = g[s]
  <2> DEFINE F == {s \in SUBSET S : run[s] # g[s]}
  <2> SUFFICES ASSUME F # {} PROVE FALSE
    OBVIOUS
  <2>1. F \subseteq SUBSET S
    OBVIOUS
  <2>2. PICK s \in F : \A u \in F : u \subseteq s => u = s
    <3> HIDE DEF F, S
    <3> QED BY <1>3, <2>1, LeastSubset
  <2>3. run[s] = IF s = {} THEN a ELSE OpenOne(run[Less(s)], Some(s))
    <3> HIDE DEF S
    <3> QED BY <1>9, <2>2 DEF Some, Less
  <2>4. g[s] = IF s = {} THEN a ELSE OpenOne(g[Less(s)], Some(s))
    <3> HIDE DEF S
    <3> QED BY <1>8, <2>2 DEF Some, Less
  <2>5. s # {} => run[Less(s)] = g[Less(s)]
    <3> HIDE DEF V, E, S
    <3> QED BY <1>6, <2>2
  <2> QED BY <2>2, <2>3, <2>4, <2>5
<1> DEFINE P(s) == /\ g[s].gear + Boxed(g[s].bag) = a.gear + Boxed(a.bag)
                   /\ \A j \in Owned : g[s].bag[j] = IF j \in s THEN 0 ELSE a.bag[j]
<1>11. \A s \in SUBSET S : P(s)
  <2> DEFINE F == {s \in SUBSET S : ~P(s)}
  <2> SUFFICES ASSUME F # {} PROVE FALSE
    OBVIOUS
  <2>1. F \subseteq SUBSET S
    OBVIOUS
  <2>2. PICK s \in F : \A u \in F : u \subseteq s => u = s
    <3> HIDE DEF F, S
    <3> QED BY <1>3, <2>1, LeastSubset
  <2>3. s # {}
    <3> SUFFICES ASSUME s = {} PROVE FALSE
      OBVIOUS
    <3>1. g[s] = a
      <4> HIDE DEF S
      <4> QED BY <1>5 DEF IsRun
    <3>2. P(s)
      BY <3>1
    <3> QED BY <2>2, <3>2
  <2> DEFINE u == Less(s)
             x == Some(s)
             c == g[u]
             d == OpenOne(c, x)
  <2>4. x \in s /\ x \in S /\ u \in SUBSET S /\ u \subseteq s /\ u # s
        /\ s = u \cup {x} /\ x \notin u /\ c \in V /\ g[s] = d
    <3> HIDE DEF V, P, S
    <3> QED BY <1>6, <2>2, <2>3
  <2>5. P(u)
    BY <2>2, <2>4
  <2>6. x \in Boxes /\ x \in Owned /\ a.bag[x] > 0
    BY <2>4 DEF Stuck, Owned
  <2> HIDE DEF u, x, c, S
  <2>7. /\ d \in V /\ d.gear = c.gear + AtLeastOne(c.bag[x])
        /\ \A j \in Owned : d.bag[j] = IF j = x THEN 0 ELSE c.bag[j]
    <3> HIDE DEF V
    <3> QED BY <1>2, <2>4, <2>6
  <2> HIDE DEF d
  <2>8. /\ c.gear + Boxed(c.bag) = a.gear + Boxed(a.bag)
        /\ \A j \in Owned : c.bag[j] = IF j \in u THEN 0 ELSE a.bag[j]
    BY <2>5 DEF c
  <2>9. Sound(c) /\ Sound(d)
    BY <2>4, <2>7, OfPurses
  <2>10. /\ c.bag \in [Items -> 0..BalanceMax] /\ d.bag \in [Items -> 0..BalanceMax]
         /\ c.gear \in Nat
    BY <2>9 DEF Sound, PurseTyped
  <2>11. c.bag[x] = a.bag[x] /\ AtLeastOne(c.bag[x]) = c.bag[x] /\ d.bag[x] = 0
         /\ c.bag[x] \in Int
    BY <2>4, <2>6, <2>7, <2>8, <2>10, OwnedFacts DEF AtLeastOne
  <2>12. Boxed(d.bag) = Boxed(c.bag) + (0 - c.bag[x])
    <3>1. \A y \in Boxes : /\ c.bag[y] \in Int /\ d.bag[y] \in Int
                           /\ (y # x => d.bag[y] = c.bag[y])
      BY <2>7, <2>10, OwnedFacts DEF Owned
    <3> DEFINE f == c.bag
               h == d.bag
    <3>2. \A y \in Boxes : f[y] \in Int /\ h[y] \in Int /\ (y # x => h[y] = f[y])
      BY <3>1
    <3>3. h[x] = 0 /\ f[x] \in Int
      BY <2>11
    <3> HIDE DEF f, h
    <3>4. Boxed(h) = Boxed(f) + (h[x] - f[x])
      <4> HIDE DEF P
      <4> QED BY <2>6, <3>2, BoxTold
    <3>5. Boxed(f) \in Int
      BY <3>2, OwnedFacts, SumType DEF Boxed
    <3>6. Boxed(h) = Boxed(f) + (0 - f[x])
      BY <3>3, <3>4, <3>5
    <3> QED BY <3>6 DEF f, h
  <2>13. Boxed(c.bag) \in Int
    <3>1. \A y \in Boxes : c.bag[y] \in Int
      BY <2>10, OwnedFacts
    <3> QED BY <3>1, OwnedFacts, SumType DEF Boxed
  <2>14. d.gear + Boxed(d.bag) = a.gear + Boxed(a.bag)
    BY <2>7, <2>8, <2>10, <2>11, <2>12, <2>13
  <2>15. \A j \in Owned : d.bag[j] = IF j \in s THEN 0 ELSE a.bag[j]
    BY <2>4, <2>7, <2>8
  <2> QED BY <2>2, <2>4, <2>14, <2>15
<1> DEFINE d == g[S]
           b == RescueAll(a)
<1>12. /\ d \in V /\ d.gear + Boxed(d.bag) = a.gear + Boxed(a.bag)
       /\ \A j \in Owned : d.bag[j] = IF j \in S THEN 0 ELSE a.bag[j]
  <2>1. S \in SUBSET S
    OBVIOUS
  <2> HIDE DEF V, S
  <2> QED BY <1>5, <1>11, <2>1
<1>13. \A j \in Owned : (IF j \in S THEN 0 ELSE a.bag[j])
                          = IF j \in Boxes THEN 0 ELSE a.bag[j]
  <2>1. \A j \in Owned : a.bag[j] \in Nat
    BY OwnedFacts DEF Sound, PurseTyped
  <2> QED BY <2>1 DEF Stuck
<1>14. b = WithPurse(a, d)
  BY <1>7, <1>10 DEF RescueAll
<1> HIDE DEF d, b, S
<1> QED BY <1>12, <1>13, <1>14, PurseTaken DEF b

-----------------------------------------------------------------------------
(* What was read.                                                          *)

LEMMA UnreadMore ==
  ASSUME NEW mail \in Seq(Letters), NEW l \in Letters, ~l.read, NEW i \in Items
  PROVE  LET more == Append(mail, l)
         IN SumFunctionOnSet(OfRead(more, i), DOMAIN more)
              = SumFunctionOnSet(OfRead(mail, i), DOMAIN mail)
<1> DEFINE more == Append(mail, l)
           n == Len(mail)
           f == OfRead(mail, i)
           g == OfRead(more, i)
           S == DOMAIN mail
<1>1. /\ n \in Nat /\ S = 1..n /\ DOMAIN more = 1..(n + 1)
      /\ more[n + 1] = l /\ \A k \in S : more[k] = mail[k] /\ mail[k] \in Letters
  OBVIOUS
<1>2. IsFiniteSet(S) /\ n + 1 \notin S /\ DOMAIN more = S \cup {n + 1}
  <2>1. IsFiniteSet(1..n)
    BY <1>1, FS_Interval
  <2>2. n + 1 \notin 1..n /\ 1..(n + 1) = (1..n) \cup {n + 1}
    BY <1>1
  <2> HIDE DEF S, more, n
  <2> QED BY <1>1, <2>1, <2>2
<1>3. /\ \A k \in S : f[k] \in Int /\ g[k] = f[k]
      /\ g[n + 1] = 0 /\ g[n + 1] \in Int
  BY <1>1, <1>2 DEF OfRead, Letters
<1> HIDE DEF f, g, S, more
<1>4. SumFunctionOnSet(g, S \cup {n + 1}) = SumFunctionOnSet(g, S) + g[n + 1]
  <2>1. \A k \in S : g[k] \in Int
    BY <1>3
  <2> QED BY <1>2, <1>3, <2>1, SumAdd
<1>5. SumFunctionOnSet(f, S) = SumFunctionOnSet(g, S) /\ SumFunctionOnSet(f, S) \in Int
  BY <1>2, <1>3, SumAgree, SumType
<1> QED BY <1>2, <1>3, <1>4, <1>5 DEF f, g, S, more

LEMMA ReadMore ==
  ASSUME NEW mail, IsFiniteSet(DOMAIN mail), \A k \in DOMAIN mail : mail[k] \in Letters,
         NEW n \in DOMAIN mail, ~mail[n].read, NEW i \in Items
  PROVE  LET after == [mail EXCEPT ![n].read = TRUE]
         IN SumFunctionOnSet(OfRead(after, i), DOMAIN after)
              = SumFunctionOnSet(OfRead(mail, i), DOMAIN mail) + mail[n].items[i]
<1> DEFINE after == [mail EXCEPT ![n].read = TRUE]
           f == OfRead(mail, i)
           g == OfRead(after, i)
           S == DOMAIN mail
<1>1. /\ DOMAIN after = S
      /\ after[n].read /\ after[n].items = mail[n].items
      /\ \A k \in S : k # n => after[k] = mail[k]
  BY DEF Letters
<1>2. \A k \in S : mail[k].items[i] \in Int
  BY DEF Letters
<1>3. \A k \in S : /\ f[k] = IF mail[k].read THEN mail[k].items[i] ELSE 0
                   /\ g[k] = IF after[k].read THEN after[k].items[i] ELSE 0
  BY <1>1 DEF OfRead
<1> HIDE DEF after, f, g
<1>4. /\ \A k \in S : f[k] \in Int /\ g[k] \in Int /\ (k # n => g[k] = f[k])
      /\ f[n] = 0 /\ g[n] = mail[n].items[i] /\ n \in S
  BY <1>1, <1>2, <1>3
<1>5. IsFiniteSet(S)
  OBVIOUS
<1> HIDE DEF S
<1>6. SumFunctionOnSet(g, S) = SumFunctionOnSet(f, S) + (g[n] - f[n])
  <2>1. \A k \in S : f[k] \in Int /\ g[k] \in Int /\ (k # n => g[k] = f[k])
    BY <1>4
  <2>2. n \in S
    BY <1>4
  <2> QED BY <1>5, <2>1, <2>2, SumChange
<1>7. SumFunctionOnSet(f, S) \in Int /\ g[n] \in Int
  BY <1>4, <1>5, SumType
<1> QED BY <1>1, <1>4, <1>6, <1>7 DEF f, g, after, S

(* What was read is some of what was mailed.                               *)
LEMMA ReadWasMailed ==
  ASSUME NEW a, a.mail \in Seq(Letters), NEW i \in Items
  PROVE  /\ Received(a, i) \in Nat
         /\ Received(a, i) <= Mailed(a, "ladder", i) + Mailed(a, "karma", i)
<1> DEFINE S == DOMAIN a.mail
           r == OfRead(a.mail, i)
           f == OfKind(a.mail, "ladder", i)
           g == OfKind(a.mail, "karma", i)
           h == [k \in S |-> f[k] + g[k]]
<1>1. S = 1..Len(a.mail) /\ Len(a.mail) \in Nat /\ \A k \in S : a.mail[k] \in Letters
  OBVIOUS
<1>2. IsFiniteSet(S)
  BY <1>1, FS_Interval
<1>3. ASSUME NEW k \in S
      PROVE  /\ f[k] \in Int /\ g[k] \in Int /\ h[k] = f[k] + g[k] /\ h[k] \in Int
             /\ r[k] \in Nat /\ r[k] \in Int /\ r[k] <= h[k]
  <2>1. /\ a.mail[k].items[i] \in Nat /\ a.mail[k].kind \in {"ladder", "karma"}
        /\ a.mail[k].read \in BOOLEAN
    BY <1>1 DEF Letters
  <2>2. /\ f[k] = IF a.mail[k].kind = "ladder" THEN a.mail[k].items[i] ELSE 0
        /\ g[k] = IF a.mail[k].kind = "karma" THEN a.mail[k].items[i] ELSE 0
        /\ r[k] = IF a.mail[k].read THEN a.mail[k].items[i] ELSE 0
        /\ h[k] = f[k] + g[k]
    BY DEF OfKind, OfRead
  <2> HIDE DEF f, g, r, h
  <2> QED BY <2>1, <2>2
<1> HIDE DEF f, g, h, r, S
<1>4. SumFunctionOnSet(r, S) \in Nat
  BY <1>2, <1>3, SumNat
<1>5. SumFunctionOnSet(h, S) = SumFunctionOnSet(f, S) + SumFunctionOnSet(g, S)
  BY <1>2, <1>3, SumPlus
<1>6. SumFunctionOnSet(r, S) <= SumFunctionOnSet(h, S)
  BY <1>2, <1>3, SumBelow
<1> QED BY <1>4, <1>5, <1>6 DEF Received, Mailed, r, f, g, S

(* There is room for all that is ever mailed, and a sweep's drop is not.   *)
LEMMA RoomForMail ==
  ASSUME RewardsApart, NEW a, Posted(a), a.total \in 0..((LastTime \div 2) + 1),
         NEW i \in Items
  PROVE  /\ Received(a, i) \in Nat /\ Received(a, i) <= BalanceMax
         /\ i = Drop => Received(a, i) = 0
<1>1. /\ a.mail \in Seq(Letters) /\ a.karma.flv \in 1..MaxFlv
      /\ Mailed(a, "ladder", i) = RungsOwed(a, i) /\ Mailed(a, "karma", i) = RanksOwed(a, i)
  BY DEF Posted
<1>2. /\ MaxFlv \in Nat \ {0} /\ BalanceMax \in Nat /\ LastTime \div 2 \in Nat
      /\ a.total \in Nat
  <2>1. MaxFlv \in Nat \ {0} /\ BalanceMax \in Nat /\ LastTime \in Nat
    BY MissionsAssumption, PurseAssumption DEF MissionsAssumption, PurseAssumption
  <2>2. LastTime \div 2 \in Nat
    BY <2>1, DivBounds
  <2> QED BY <2>1, <2>2
<1>3. Received(a, i) \in Nat /\ Received(a, i) <= RungsOwed(a, i) + RanksOwed(a, i)
  BY <1>1, ReadWasMailed
<1>4. RungsOwed(a, i) \in Int /\ RanksOwed(a, i) \in Int
  <2>1. RungsOwed(a, i) \in Int
    BY <1>2, DaysOwed
  <2>2. RanksOwed(a, i) \in Int
    BY <1>1, MailedIsInt DEF Mailed
  <2> QED BY <2>1, <2>2
<1>5. RungsOwed(a, i) + RanksOwed(a, i) <= BalanceMax
  <2> DEFINE all == SumFunctionOnSet(Lines(RankItem, i), 2..MaxFlv)
             more == RankRewards(a.karma.flv, MaxFlv)[i]
  <2>1. RungsOwed(a, i) + all <= BalanceMax
    BY DEF RewardsApart, RungsOwed
  <2>2. MaxFlv \in a.karma.flv..MaxFlv
    BY <1>1, <1>2
  <2>3. all = RanksOwed(a, i) + more
    BY <1>1, <2>2, RanksCrossed DEF RanksOwed
  <2>4. more \in Nat
    BY <1>1, <2>2, RankRewardsType
  <2> HIDE DEF all, more
  <2> QED BY <1>2, <1>4, <2>1, <2>3, <2>4
<1>6. ASSUME i = Drop PROVE RungsOwed(a, i) = 0 /\ RanksOwed(a, i) = 0
  <2>1. Drop \notin MailOnly /\ Rungs \in Nat \ {0}
    BY MissionsAssumption DEF RewardsApart, MissionsAssumption
  <2>2. RungsOwed(a, i) = 0
    <3> DEFINE S == 1..a.total
               f == OnDay(i, S)
    <3>1. IsFiniteSet(S)
      BY <1>2, FS_Interval
    <3>2. ASSUME NEW d \in S PROVE f[d] = 0
      <4>1. ((d - 1) % Rungs) + 1 \in 1..Rungs
        BY <1>2, <2>1
      <4>2. RungOn(d).item # i
        BY <1>6, <2>1, <4>1 DEF RungOn, MailOnly
      <4> QED BY <4>2 DEF OnDay
    <3> HIDE DEF S, f
    <3>3. SumFunctionOnSet(f, S) = 0
      BY <3>1, <3>2, SumNought
    <3> QED BY <3>3 DEF RungsOwed, S, f
  <2>3. RanksOwed(a, i) = 0
    <3> DEFINE S == 2..a.karma.flv
               f == Lines(RankItem, i)
    <3>1. IsFiniteSet(S)
      <4> DEFINE top == a.karma.flv
      <4>1. top \in Int
        BY <1>1, <1>2
      <4> HIDE DEF top
      <4>2. IsFiniteSet(2..top)
        BY <4>1, FS_Interval
      <4> QED BY <4>2 DEF top
    <3>2. ASSUME NEW l \in S PROVE f[l] = 0
      <4>1. l \in 2..MaxFlv /\ l \in 1..MaxFlv
        BY <1>1, <1>2
      <4>2. RankItem[l].item # i
        BY <1>6, <2>1, <4>1 DEF MailOnly
      <4>3. l \in DOMAIN RankItem
        BY <4>1, MissionsAssumption DEF MissionsAssumption
      <4> QED BY <4>2, <4>3 DEF Lines
    <3> HIDE DEF S, f
    <3>3. SumFunctionOnSet(f, S) = 0
      BY <3>1, <3>2, SumNought
    <3> QED BY <3>3 DEF RanksOwed, S, f
  <2> QED BY <2>2, <2>3
<1> QED BY <1>2, <1>3, <1>4, <1>5, <1>6

-----------------------------------------------------------------------------
(* What an account was paid, read off what it holds.                       *)

Counters(a) ==
  /\ a.quests \subseteq Quests
  /\ a.sp \in [Quests -> [cnt : Nat, done : BOOLEAN]]
  /\ \A k \in DOMAIN a.db : a.db[k] \in Nat
  /\ a.decided \subseteq Scenes

Honest(a) ==
  /\ Sound(a) /\ Counters(a)
  /\ a.rev \in {1, 2}
  /\ a.cur["cash"] = Start.cur["cash"] + (IF a.rev = 2 THEN Debt ELSE 0)
  /\ a.cur["paid"] = Start.cur["paid"]
  /\ \A i \in MailOnly \ Boxes : a.bag[i] = Received(a, i)
  /\ \A i \in Boxes : a.bag[i] <= Received(a, i)
  /\ a.gear + Boxed(a.bag) = Boxed([i \in Boxes |-> Received(a, i)])

(* What neither mail nor a sweep nor the repair brings leaves all of them  *)
(* to be read off.                                                         *)
Untouched(a, b) ==
  /\ Sound(b) /\ b.rev = a.rev /\ b.gear = a.gear /\ b.job = a.job
  /\ b.cur["cash"] = a.cur["cash"] /\ b.cur["paid"] = a.cur["paid"]
  /\ \A j \in Owned : b.bag[j] = a.bag[j]
  /\ \A i \in Items : Received(b, i) = Received(a, i)

LEMMA UntouchedTwice ==
  ASSUME NEW a, NEW b, NEW c, Untouched(a, b), Untouched(b, c)
  PROVE  Untouched(a, c)
BY DEF Untouched

LEMMA BoxesAgree ==
  ASSUME NEW f, NEW g, \A i \in Boxes : f[i] \in Int /\ g[i] = f[i]
  PROVE  Boxed(f) = Boxed(g)
BY OwnedFacts, SumAgree DEF Boxed

LEMMA UntouchedIsHonest ==
  ASSUME NEW a, Honest(a), NEW b, Untouched(a, b), Counters(b)
  PROVE  Honest(b)
<1>1. \A j \in MailOnly \cup Boxes : j \in Owned /\ j \in Items
  BY OwnedFacts DEF Owned
<1>2. Boxed(a.bag) = Boxed(b.bag)
  <2>1. \A i \in Boxes : a.bag[i] \in Int /\ b.bag[i] = a.bag[i]
    BY <1>1, OwnedFacts DEF Honest, Sound, PurseTyped, Untouched
  <2> QED BY <2>1, BoxesAgree
<1>3. [i \in Boxes |-> Received(b, i)] = [i \in Boxes |-> Received(a, i)]
  BY <1>1 DEF Untouched
<1>4. b.gear + Boxed(b.bag) = Boxed([i \in Boxes |-> Received(b, i)])
  <2>1. b.gear = a.gear /\ a.gear + Boxed(a.bag) = Boxed([i \in Boxes |-> Received(a, i)])
    BY DEF Honest, Untouched
  <2> QED BY <1>2, <1>3, <2>1
<1>5. /\ \A i \in MailOnly \ Boxes : b.bag[i] = Received(b, i)
      /\ \A i \in Boxes : b.bag[i] <= Received(b, i)
  BY <1>1 DEF Honest, Untouched
<1> QED BY <1>4, <1>5 DEF Honest, Untouched

(* An operation on other fields.                                           *)
LEMMA ElsewhereUntouched ==
  ASSUME NEW a, Sound(a), NEW b, Recorded(b), NEW F, Outside(a, b, F),
         F \cap (PurseFields \cup {"rev", "job", "mail"}) = {}
  PROVE  Untouched(a, b)
<1>1. /\ b.cur = a.cur /\ b.bag = a.bag /\ b.energy = a.energy /\ b.gear = a.gear
      /\ b.casts = a.casts /\ b.rev = a.rev /\ b.job = a.job /\ b.mail = a.mail
  BY DEF Outside, Fields, PurseFields
<1> QED BY <1>1 DEF Untouched, Sound, PurseTyped, Received

(* What is granted, when it is none of what is told apart.                 *)
LEMMA PurseUntouched ==
  ASSUME NEW a, Sound(a), NEW b \in Purses(a), b.gear = a.gear,
         \A j \in Owned : b.bag[j] = a.bag[j]
  PROVE  Untouched(a, b)
<1>1. /\ Sound(b) /\ Outside(a, b, PurseFields)
      /\ b.cur["cash"] = a.cur["cash"] /\ b.cur["paid"] = a.cur["paid"]
  BY OfPurses
<1>2. b.rev = a.rev /\ b.job = a.job /\ b.mail = a.mail
  BY <1>1 DEF Outside, Fields, PurseFields
<1> QED BY <1>1, <1>2 DEF Untouched, Received

LEMMA CountersSame ==
  ASSUME NEW a, Counters(a), NEW b, NEW F, Outside(a, b, F),
         F \cap {"quests", "sp", "db", "decided"} = {}
  PROVE  Counters(b)
<1>1. b.quests = a.quests /\ b.sp = a.sp /\ b.db = a.db /\ b.decided = a.decided
  BY DEF Outside, Fields
<1> QED BY <1>1 DEF Counters

-----------------------------------------------------------------------------
(* The counters stay counters.                                             *)

LEMMA BumpCounters ==
  ASSUME NEW a, DOMAIN a = Fields, Counters(a), NEW case, NEW value, NEW n \in Nat, NEW to
  PROVE  Counters(Bump(a, case, value, n, to))
<1> DEFINE hit == Moved(case, value)
           db == Shared(a, hit, n, to)
           sp == [q \in Quests |->
                    IF /\ q \in hit /\ QuestRow[q].sp /\ ~a.sp[q].done
                       /\ Completed(a, QuestRow[q].pre)
                      THEN [a.sp[q] EXCEPT !.cnt = Bumped(@, n, to)] ELSE a.sp[q]]
           b == Bump(a, case, value, n, to)
<1>1. b = [a EXCEPT !.db = db, !.sp = sp]
  BY DEF Bump
<1>2. \A c \in Nat : Bumped(c, n, to) \in Nat
  BY DEF Bumped
<1>3. sp \in [Quests -> [cnt : Nat, done : BOOLEAN]]
  BY <1>2 DEF Counters
<1>4. \A k \in DOMAIN db : db[k] \in Nat
  BY <1>2 DEF Counters, Shared
<1> HIDE DEF db, sp
<1>5. b.db = db /\ b.sp = sp /\ b.quests = a.quests /\ b.decided = a.decided
  BY <1>1 DEF Fields
<1> HIDE DEF b
<1> QED BY <1>3, <1>4, <1>5 DEF Counters, b

LEMMA CountCounters ==
  ASSUME NEW a, DOMAIN a = Fields, Counters(a), NEW case, NEW value, NEW n \in Nat
  PROVE  Counters(Count(a, case, value, n)) /\ Counters(Reach(a, case, value, n))
<1>1. \A to : Counters(Bump(a, case, value, n, to))
  BY BumpCounters
<1> QED BY <1>1, Zenon DEF Count, Reach

LEMMA BumpUntouched ==
  ASSUME NEW a, Sound(a), NEW case, NEW value, NEW n, NEW to
  PROVE  Untouched(a, Bump(a, case, value, n, to))
<1> DEFINE db == Shared(a, Moved(case, value), n, to)
           sp == [q \in Quests |->
                    IF /\ q \in Moved(case, value) /\ QuestRow[q].sp /\ ~a.sp[q].done
                       /\ Completed(a, QuestRow[q].pre)
                      THEN [a.sp[q] EXCEPT !.cnt = Bumped(@, n, to)] ELSE a.sp[q]]
           b == Bump(a, case, value, n, to)
<1>1. DOMAIN a = Fields
  BY DEF Sound, Recorded
<1>2. b = [a EXCEPT !.db = db, !.sp = sp]
  BY DEF Bump
<1> HIDE DEF db, sp
<1>3. Recorded(b)
  BY <1>1, <1>2 DEF Recorded, Fields
<1>4. Outside(a, b, {"db", "sp"})
  BY <1>1, BumpOutside
<1> HIDE DEF b
<1>5. {"db", "sp"} \cap (PurseFields \cup {"rev", "job", "mail"}) = {}
  BY DEF PurseFields
<1> QED BY <1>3, <1>4, <1>5, ElsewhereUntouched DEF b

LEMMA CountUntouched ==
  ASSUME NEW a, Sound(a), NEW case, NEW value, NEW n
  PROVE  Untouched(a, Count(a, case, value, n)) /\ Untouched(a, Reach(a, case, value, n))
<1>1. \A to : Untouched(a, Bump(a, case, value, n, to))
  BY BumpUntouched
<1> QED BY <1>1, Zenon DEF Count, Reach

(* An account that is honest, and one that what pays nothing made of it.   *)
Fair(a, b) == Honest(b) /\ b.job = a.job /\ b.bag[Drop] = a.bag[Drop]

LEMMA UntouchedIsFair ==
  ASSUME NEW a, Honest(a), NEW b, Untouched(a, b), Counters(b)
  PROVE  Fair(a, b)
BY UntouchedIsHonest, OwnedFacts DEF Fair, Untouched

LEMMA CountFair ==
  ASSUME NEW a, Honest(a), NEW case, NEW value, NEW n \in Nat
  PROVE  Fair(a, Count(a, case, value, n)) /\ Fair(a, Reach(a, case, value, n))
<1>1. DOMAIN a = Fields /\ Sound(a) /\ Counters(a)
  BY DEF Honest, Sound, Recorded
<1>2. /\ Untouched(a, Count(a, case, value, n)) /\ Counters(Count(a, case, value, n))
      /\ Untouched(a, Reach(a, case, value, n)) /\ Counters(Reach(a, case, value, n))
  BY <1>1, CountUntouched, CountCounters
<1> QED BY <1>2, UntouchedIsFair

-----------------------------------------------------------------------------
(* The steps of a login.                                                   *)

LEMMA RefillFair ==
  ASSUME RewardsApart, NEW a, Honest(a)
  PROVE  Fair(a, RefillPasses(a))
<1> DEFINE n == IF a.bag[Pass] < PassFloor THEN PassFloor ELSE a.bag[Pass]
           b == [a EXCEPT !.passDay = Day, !.bag = [a.bag EXCEPT ![Pass] = n]]
<1>1. RefillPasses(a) = IF a.passDay = Day THEN a ELSE b
  BY DEF RefillPasses
<1>2. /\ DOMAIN a = Fields /\ a.bag \in [Items -> 0..BalanceMax] /\ Sound(a) /\ Counters(a)
      /\ PassFloor \in Nat /\ PassFloor <= BalanceMax /\ BalanceMax \in Nat
      /\ Pass \in Items /\ Pass \notin Owned
  BY MissionsAssumption, OwnedFacts
    DEF Honest, Sound, Recorded, PurseTyped, RewardsApart, MissionsAssumption, Owned
<1>3. n \in 0..BalanceMax
  BY <1>2
<1> HIDE DEF n
<1>4. /\ Recorded(b) /\ b.bag = [a.bag EXCEPT ![Pass] = n]
      /\ Outside(a, b, {"passDay", "bag"})
  BY <1>2 DEF Recorded, Fields, Outside
<1> HIDE DEF b
<1>5. /\ b.cur = a.cur /\ b.energy = a.energy /\ b.gear = a.gear /\ b.casts = a.casts
      /\ b.rev = a.rev /\ b.job = a.job /\ b.mail = a.mail
  BY <1>4 DEF Outside, Fields
<1>6. Sound(b)
  BY <1>2, <1>3, <1>4, <1>5 DEF Sound, PurseTyped
<1>7. \A j \in Owned : b.bag[j] = a.bag[j]
  BY <1>2, <1>4, OwnedFacts
<1>8. Untouched(a, b)
  BY <1>5, <1>6, <1>7 DEF Untouched, Received
<1>9. Counters(b)
  BY <1>2, <1>4, CountersSame
<1>10. Fair(a, b) /\ Fair(a, a)
  BY <1>8, <1>9, UntouchedIsFair DEF Fair
<1> QED BY <1>1, <1>10

LEMMA RescueFair ==
  ASSUME RewardsApart, NEW a, Honest(a), a.mail \in Seq(Letters)
  PROVE  Fair(a, RescueAll(a))
<1> DEFINE b == RescueAll(a)
<1>1. Sound(a) /\ Counters(a)
  BY DEF Honest
<1>2. /\ b \in Purses(a) /\ b.gear + Boxed(b.bag) = a.gear + Boxed(a.bag)
      /\ \A j \in Owned : b.bag[j] = IF j \in Boxes THEN 0 ELSE a.bag[j]
  BY <1>1, RescueSound
<1> HIDE DEF b
<1>3. /\ Sound(b) /\ Outside(a, b, PurseFields)
      /\ b.cur["cash"] = a.cur["cash"] /\ b.cur["paid"] = a.cur["paid"]
  BY <1>1, <1>2, OfPurses
<1>4. b.rev = a.rev /\ b.job = a.job /\ b.mail = a.mail
  BY <1>3 DEF Outside, Fields, PurseFields
<1>5. Counters(b)
  BY <1>1, <1>3, CountersSame DEF PurseFields
<1>6. \A i \in Items : Received(b, i) = Received(a, i) /\ Received(a, i) \in Nat
  <2>1. \A i \in Items : Received(b, i) = Received(a, i)
    BY <1>4 DEF Received
  <2> QED BY <2>1, ReadWasMailed
<1>7. \A j \in MailOnly \cup Boxes : j \in Owned /\ j \in Items
  BY OwnedFacts DEF Owned
<1>8. /\ \A i \in MailOnly \ Boxes : b.bag[i] = Received(b, i)
      /\ \A i \in Boxes : b.bag[i] <= Received(b, i)
  BY <1>2, <1>6, <1>7 DEF Honest
<1>9. [i \in Boxes |-> Received(b, i)] = [i \in Boxes |-> Received(a, i)]
  BY <1>6, <1>7
<1>10. b.gear + Boxed(b.bag) = Boxed([i \in Boxes |-> Received(b, i)])
  <2>1. a.gear + Boxed(a.bag) = Boxed([i \in Boxes |-> Received(a, i)])
    BY DEF Honest
  <2> QED BY <1>2, <1>9, <2>1
<1>11. Honest(b)
  <2>1. /\ a.rev \in {1, 2} /\ a.cur["paid"] = Start.cur["paid"]
        /\ a.cur["cash"] = Start.cur["cash"] + (IF a.rev = 2 THEN Debt ELSE 0)
    BY DEF Honest
  <2> QED BY <1>3, <1>4, <1>5, <1>8, <1>10, <2>1 DEF Honest
<1>12. b.bag[Drop] = a.bag[Drop]
  BY <1>2, OwnedFacts DEF RewardsApart
<1> QED BY <1>4, <1>11, <1>12 DEF Fair, b

(* What the first revision took is there to be taken back.                 *)
LEMMA MigrateFair ==
  ASSUME RewardsApart, NEW a, Honest(a)
  PROVE  Fair(a, MigrateBalances(a))
<1>1. /\ Sound(a) /\ Counters(a) /\ a.rev \in {1, 2} /\ a.cur["paid"] = Start.cur["paid"]
      /\ a.cur["cash"] = Start.cur["cash"] + (IF a.rev = 2 THEN Debt ELSE 0)
  BY DEF Honest
<1>2. CASE a.rev >= 2
  BY <1>2 DEF MigrateBalances, Fair
<1>3. CASE ~(a.rev >= 2)
  <2> DEFINE m == a.cur["cash"] + Debt
             b == [a EXCEPT !.rev = 2, !.cur = [a.cur EXCEPT !["cash"] = m]]
  <2>1. MigrateBalances(a) = b
    BY <1>3 DEF MigrateBalances
  <2>2. a.rev = 1 /\ a.cur["cash"] = Start.cur["cash"]
    <3>1. Start.cur["cash"] \in Int
      BY MissionsAssumption DEF MissionsAssumption, Currencies
    <3> QED BY <1>1, <1>3, <3>1
  <2>3. /\ DOMAIN a = Fields /\ a.cur \in [Currencies -> 0..BalanceMax]
        /\ "cash" \in Currencies /\ "paid" \in Currencies /\ BalanceMax \in Nat
    BY <1>1, OwnedFacts DEF Sound, Recorded, PurseTyped, Currencies
  <2>4. m \in 0..BalanceMax /\ m + a.cur["paid"] <= BalanceMax /\ m = Start.cur["cash"] + Debt
    <3>1. /\ Debt \in Nat /\ Start.cur["cash"] + Start.cur["paid"] + Debt <= BalanceMax
          /\ Start.cur["cash"] \in Nat /\ Start.cur["paid"] \in Nat
      BY <2>3, MissionsAssumption DEF MissionsAssumption, RewardsApart
    <3> QED BY <1>1, <2>2, <2>3, <3>1
  <2> HIDE DEF m
  <2>5. /\ Recorded(b) /\ b.cur = [a.cur EXCEPT !["cash"] = m] /\ b.rev = 2
        /\ Outside(a, b, {"rev", "cur"})
    BY <2>3 DEF Recorded, Fields, Outside
  <2> HIDE DEF b
  <2>6. /\ b.bag = a.bag /\ b.energy = a.energy /\ b.gear = a.gear /\ b.casts = a.casts
        /\ b.job = a.job /\ b.mail = a.mail
    BY <2>5 DEF Outside, Fields
  <2>7. b.cur["cash"] = m /\ b.cur["paid"] = a.cur["paid"]
        /\ b.cur \in [Currencies -> 0..BalanceMax]
    BY <2>3, <2>4, <2>5
  <2>8. Sound(b)
    BY <1>1, <2>4, <2>5, <2>6, <2>7 DEF Sound, PurseTyped
  <2>9. Counters(b)
    BY <1>1, <2>5, CountersSame
  <2>10. \A i : Received(b, i) = Received(a, i)
    BY <2>6 DEF Received
  <2>11. Honest(b)
    <3>1. /\ \A i \in MailOnly \ Boxes : b.bag[i] = Received(b, i)
          /\ \A i \in Boxes : b.bag[i] <= Received(b, i)
      BY <2>6, <2>10 DEF Honest
    <3>2. [i \in Boxes |-> Received(b, i)] = [i \in Boxes |-> Received(a, i)]
      BY <2>10
    <3>3. b.gear + Boxed(b.bag) = Boxed([i \in Boxes |-> Received(b, i)])
      BY <2>6, <3>2 DEF Honest
    <3> QED BY <1>1, <2>4, <2>5, <2>7, <2>8, <2>9, <3>1, <3>3 DEF Honest
  <2> QED BY <2>1, <2>6, <2>11 DEF Fair
<1> QED BY <1>2, <1>3

LEMMA RearmFair ==
  ASSUME NEW a, Honest(a)
  PROVE  Fair(a, Rearm(a))
<1> DEFINE sp == [q \in Quests |->
                    IF \E g \in Due(a) : q \in Missions(g) THEN NothingDone ELSE a.sp[q]]
           stamps == [g \in Groups |-> Period(g)]
           b == [a EXCEPT !.stamps = stamps, !.sp = sp]
<1>1. Rearm(a) = b
  BY DEF Rearm
<1>2. DOMAIN a = Fields /\ Sound(a) /\ Counters(a)
  BY DEF Honest, Sound, Recorded
<1>3. sp \in [Quests -> [cnt : Nat, done : BOOLEAN]]
  BY <1>2 DEF Counters, NothingDone
<1> HIDE DEF sp, stamps
<1>4. Recorded(b) /\ b.sp = sp /\ Outside(a, b, {"stamps", "sp"})
  BY <1>2 DEF Recorded, Fields, Outside
<1> HIDE DEF b
<1>5. Untouched(a, b)
  BY <1>2, <1>4, ElsewhereUntouched DEF PurseFields
<1>6. Counters(b)
  <2>1. b.quests = a.quests /\ b.db = a.db /\ b.decided = a.decided
    BY <1>4 DEF Outside, Fields
  <2> QED BY <1>2, <1>3, <1>4, <2>1 DEF Counters
<1> QED BY <1>1, <1>5, <1>6, UntouchedIsFair

LEMMA MailUntouched ==
  ASSUME NEW a, Sound(a), a.mail \in Seq(Letters), NEW kind \in {"ladder", "karma"},
         NEW items \in [Items -> Nat]
  PROVE  Untouched(a, AddMail(a, kind, items)) /\ Outside(a, AddMail(a, kind, items), {"mail"})
<1> DEFINE l == [kind |-> kind, items |-> items, read |-> FALSE]
           b == AddMail(a, kind, items)
<1>1. DOMAIN a = Fields
  BY DEF Sound, Recorded
<1>2. l \in Letters /\ ~l.read
  BY DEF Letters
<1>3. b = [a EXCEPT !.mail = Append(a.mail, l)]
  BY DEF AddMail
<1> HIDE DEF l
<1>4. Recorded(b) /\ b.mail = Append(a.mail, l) /\ Outside(a, b, {"mail"})
  BY <1>1, <1>3 DEF Recorded, Fields, Outside
<1> HIDE DEF b
<1>5. \A i \in Items : Received(b, i) = Received(a, i)
  BY <1>2, <1>4, UnreadMore DEF Received
<1>6. /\ b.cur = a.cur /\ b.bag = a.bag /\ b.energy = a.energy /\ b.gear = a.gear
      /\ b.casts = a.casts /\ b.rev = a.rev /\ b.job = a.job
  BY <1>4 DEF Outside, Fields
<1>7. Untouched(a, b)
  BY <1>4, <1>5, <1>6 DEF Untouched, Sound, PurseTyped
<1> QED BY <1>4, <1>7 DEF b

LEMMA ClimbFair ==
  ASSUME NEW a, Honest(a), OnLadder(a), a.mail \in Seq(Letters)
  PROVE  Fair(a, Climb(a))
<1> DEFINE wrap == a.rung + 1 > Rungs
           day == IF wrap THEN 1 ELSE a.rung + 1
           book == IF wrap THEN a.book + 1 ELSE a.book
           c == [a EXCEPT !.rung = day, !.book = book,
                          !.checkin = day, !.total = a.total + 1, !.lastDay = UtcDay]
           r == RungItem[day]
           items == [NoItems EXCEPT ![r.item] = r.n]
           d == IF r.n = 0 THEN c ELSE AddMail(c, "ladder", items)
           n == a.total + 1
<1>1. Climb(a) = IF a.lastDay = UtcDay THEN a ELSE Reach(d, "days", AnyValue, n)
  BY DEF Climb
<1>2. DOMAIN a = Fields /\ Sound(a) /\ Counters(a)
  BY DEF Honest, Sound, Recorded
<1>3. n \in Nat /\ r \in Rewards
  <2>1. a.total \in Nat /\ a.total + 1 \in Nat \ {0}
    BY DEF OnLadder
  <2>2. RungOn(a.total + 1) = r
    BY NextRung
  <2> HIDE DEF r
  <2> QED BY <2>1, <2>2, RungIsReward
<1> HIDE DEF day, book, r, n
<1>4. Recorded(c) /\ Outside(a, c, {"rung", "book", "checkin", "total", "lastDay"})
  BY <1>2 DEF Recorded, Fields, Outside
<1> HIDE DEF c
<1>5. Untouched(a, c) /\ Counters(c) /\ c.mail = a.mail
  <2>1. Untouched(a, c)
    BY <1>2, <1>4, ElsewhereUntouched DEF PurseFields
  <2>2. Counters(c)
    BY <1>2, <1>4, CountersSame
  <2>3. c.mail = a.mail
    BY <1>4 DEF Outside, Fields
  <2> QED BY <2>1, <2>2, <2>3
<1>6. items \in [Items -> Nat]
  BY <1>3 DEF NoItems, Rewards
<1> HIDE DEF items
<1>7. Untouched(c, AddMail(c, "ladder", items)) /\ Counters(AddMail(c, "ladder", items))
  <2> DEFINE m == AddMail(c, "ladder", items)
  <2>1. Untouched(c, m) /\ Outside(c, m, {"mail"})
    <3>1. Sound(c)
      BY <1>5 DEF Untouched
    <3> QED BY <1>5, <1>6, <3>1, MailUntouched
  <2> HIDE DEF m
  <2>2. Counters(m)
    BY <1>5, <2>1, CountersSame
  <2> QED BY <2>1, <2>2 DEF m
<1>8. Untouched(a, d) /\ Counters(d)
  BY <1>5, <1>7, UntouchedTwice
<1> HIDE DEF d
<1>9. Fair(a, d)
  BY <1>8, UntouchedIsFair
<1>10. Fair(d, Reach(d, "days", AnyValue, n))
  BY <1>3, <1>9, CountFair DEF Fair
<1> QED BY <1>1, <1>9, <1>10 DEF Fair

-----------------------------------------------------------------------------
(* The handlers.                                                           *)

(* complete_quests pays in what mail does not bring.                       *)
LEMMA PaidFair ==
  ASSUME RewardsApart, NEW a, Honest(a), NEW q \in Quests
  PROVE  Fair(a, Paid(a, q))
<1> DEFINE i == QuestRow[q].item
           n == QuestRow[q].count
           b == GrantGoods(a, i, n)
<1>1. Sound(a) /\ Counters(a)
  BY DEF Honest
<1>2. i \in Items /\ n \in Nat
  BY PurseAssumption DEF PurseAssumption, QuestRows
<1>3. CASE n = 0
  BY <1>3 DEF Paid, Fair
<1>4. CASE n # 0
  <2>1. i \notin Owned
    <3>1. n > 0
      BY <1>2, <1>4
    <3> QED BY <3>1 DEF RewardsApart, Owned
  <2>2. i \notin Boxes
    BY <2>1 DEF Owned
  <2>3. Paid(a, q) = b
    BY <1>4 DEF Paid
  <2> HIDE DEF i, n
  <2>4. /\ b \in Purses(a) /\ b.gear = a.gear + 0
        /\ \A j \in Owned : b.bag[j] = a.bag[j]
    BY <1>1, <1>2, <2>1, <2>2, GoodsSound
  <2> HIDE DEF b
  <2>5. b.gear = a.gear
    BY <1>1, <2>4 DEF Sound, PurseTyped
  <2>6. Untouched(a, b)
    BY <1>1, <2>4, <2>5, PurseUntouched
  <2>7. Counters(b)
    BY <1>1, <2>4, OfPurses, CountersSame DEF PurseFields
  <2> QED BY <2>3, <2>6, <2>7, UntouchedIsFair
<1> QED BY <1>3, <1>4

LEMMA FairTwice ==
  ASSUME NEW a, NEW b, NEW c, Fair(a, b), Fair(b, c)
  PROVE  Fair(a, c)
BY DEF Fair

LEMMA CompleteFair ==
  ASSUME RewardsApart, NEW a, Honest(a), NEW q \in Quests
  PROVE  Fair(a, Complete(a, q))
<1> DEFINE rec == [cnt |-> IF a.sp[q].cnt < QuestRow[q].need THEN QuestRow[q].need
                           ELSE a.sp[q].cnt, done |-> TRUE]
           sp == [a.sp EXCEPT ![q] = rec]
           done == [a EXCEPT !.sp = sp]
           main == [a EXCEPT !.quests = @ \cup {q}]
           e == [quest |-> q, at |-> done.stamps]
           claimed == [done EXCEPT !.claims = @ \cup {e}]
           v == GroupId(QuestRow[q].group)
           credited == Count(claimed, "claimed", v, 1)
           b == IF ~QuestRow[q].sp THEN main
                ELSE IF a.sp[q].done THEN done
                ELSE IF QuestRow[q].group = "none" THEN done ELSE credited
<1>1. Complete(a, q) = Paid(b, q)
  BY DEF Complete, Credit
<1>2. DOMAIN a = Fields /\ Sound(a) /\ Counters(a)
  BY DEF Honest, Sound, Recorded
<1>3. sp \in [Quests -> [cnt : Nat, done : BOOLEAN]]
  <2>1. QuestRow[q].need \in Nat
    BY PurseAssumption DEF PurseAssumption, QuestRows
  <2> QED BY <1>2, <2>1 DEF Counters
<1> HIDE DEF sp
<1>4. Recorded(done) /\ done.sp = sp /\ Outside(a, done, {"sp"})
  BY <1>2 DEF Recorded, Fields, Outside
<1>5. Recorded(main) /\ main.quests = a.quests \cup {q} /\ Outside(a, main, {"quests"})
  BY <1>2 DEF Recorded, Fields, Outside
<1> HIDE DEF done, main, e
<1>6. Fair(a, done)
  <2>1. Untouched(a, done)
    BY <1>2, <1>4, ElsewhereUntouched DEF PurseFields
  <2>2. Counters(done)
    <3>1. done.quests = a.quests /\ done.db = a.db /\ done.decided = a.decided
      BY <1>4 DEF Outside, Fields
    <3> QED BY <1>2, <1>3, <1>4, <3>1 DEF Counters
  <2> QED BY <2>1, <2>2, UntouchedIsFair
<1>7. Fair(a, main)
  <2>1. Untouched(a, main)
    BY <1>2, <1>5, ElsewhereUntouched DEF PurseFields
  <2>2. Counters(main)
    <3>1. main.sp = a.sp /\ main.db = a.db /\ main.decided = a.decided
      BY <1>5 DEF Outside, Fields
    <3> QED BY <1>2, <1>5, <3>1 DEF Counters
  <2> QED BY <2>1, <2>2, UntouchedIsFair
<1>8. Fair(done, claimed)
  <2>1. Honest(done) /\ DOMAIN done = Fields /\ Sound(done) /\ Counters(done)
    BY <1>4, <1>6 DEF Fair, Honest, Recorded
  <2>2. Recorded(claimed) /\ Outside(done, claimed, {"claims"})
    BY <2>1, <1>4 DEF Recorded, Fields, Outside
  <2> HIDE DEF claimed
  <2>3. Untouched(done, claimed)
    BY <2>1, <2>2, ElsewhereUntouched DEF PurseFields
  <2>4. Counters(claimed)
    BY <2>1, <2>2, CountersSame
  <2> QED BY <2>1, <2>3, <2>4, UntouchedIsFair
<1> HIDE DEF claimed, v
<1>9. Fair(claimed, credited)
  BY <1>8, CountFair DEF Fair
<1> HIDE DEF credited
<1>10. Fair(a, b)
  BY <1>6, <1>7, <1>8, <1>9, FairTwice
<1> HIDE DEF b
<1>11. Fair(b, Paid(b, q))
  BY <1>10, PaidFair DEF Fair
<1> QED BY <1>1, <1>10, <1>11, FairTwice

LEMMA SyncFair ==
  ASSUME NEW a, Honest(a)
  PROVE  Fair(a, [a EXCEPT !.checkin = 0])
<1> DEFINE b == [a EXCEPT !.checkin = 0]
<1>1. DOMAIN a = Fields /\ Sound(a) /\ Counters(a)
  BY DEF Honest, Sound, Recorded
<1>2. Recorded(b) /\ Outside(a, b, {"checkin"})
  BY <1>1 DEF Recorded, Fields, Outside
<1> HIDE DEF b
<1>3. Untouched(a, b)
  BY <1>1, <1>2, ElsewhereUntouched DEF PurseFields
<1>4. Counters(b)
  BY <1>1, <1>2, CountersSame
<1> QED BY <1>3, <1>4, UntouchedIsFair DEF b

(* grant_karma pays by mail only.                                          *)
LEMMA KarmaFair ==
  ASSUME NEW a, Honest(a), Posted(a), NEW fexp \in Nat
  PROVE  Fair(a, GrantKarma(a, fexp))
<1> DEFINE k == KarmaNow(a.karma, fexp)
           owed == RankRewards(a.karma.flv, k.flv)
           b == [a EXCEPT !.karma = k]
           c == IF owed = NoItems THEN b ELSE AddMail(b, "karma", owed)
           up == k.flv - a.karma.flv
           d == Count(c, "karma", AnyValue, up)
<1>1. GrantKarma(a, fexp) = IF k.flv = a.karma.flv THEN b ELSE d
  BY DEF GrantKarma, KarmaNow
<1>2. DOMAIN a = Fields /\ Sound(a) /\ Counters(a) /\ a.mail \in Seq(Letters)
      /\ a.karma \in [flv : 1..MaxFlv, fxp : Nat] /\ a.karma.flv \in 1..MaxFlv
  BY DEF Honest, Sound, Recorded, Posted
<1>3. k.flv \in a.karma.flv..MaxFlv
  BY <1>2, KarmaRises
<1> HIDE DEF k
<1>4. up \in Nat /\ owed \in [Items -> Nat]
  <2>1. up \in Nat
    BY <1>2, <1>3
  <2> QED BY <1>2, <1>3, <2>1, RankRewardsType
<1>5. Recorded(b) /\ Outside(a, b, {"karma"})
  BY <1>2 DEF Recorded, Fields, Outside
<1> HIDE DEF b, owed, up
<1>6. Untouched(a, b) /\ Counters(b) /\ b.mail = a.mail
  <2>1. Untouched(a, b)
    BY <1>2, <1>5, ElsewhereUntouched DEF PurseFields
  <2>2. Counters(b)
    BY <1>2, <1>5, CountersSame
  <2>3. b.mail = a.mail
    BY <1>5 DEF Outside, Fields
  <2> QED BY <2>1, <2>2, <2>3
<1>7. Untouched(b, AddMail(b, "karma", owed)) /\ Counters(AddMail(b, "karma", owed))
  <2> DEFINE m == AddMail(b, "karma", owed)
  <2>1. Untouched(b, m) /\ Outside(b, m, {"mail"})
    <3>1. Sound(b)
      BY <1>6 DEF Untouched
    <3> QED BY <1>2, <1>4, <1>6, <3>1, MailUntouched
  <2> HIDE DEF m
  <2>2. Counters(m)
    BY <1>6, <2>1, CountersSame
  <2> QED BY <2>1, <2>2 DEF m
<1>8. Untouched(a, c) /\ Counters(c)
  BY <1>6, <1>7, UntouchedTwice
<1> HIDE DEF c
<1>9. Fair(a, b) /\ Fair(a, c)
  BY <1>6, <1>8, UntouchedIsFair
<1>10. Fair(c, d)
  BY <1>4, <1>9, CountFair DEF Fair
<1> HIDE DEF d
<1> QED BY <1>1, <1>9, <1>10, FairTwice

LEMMA ChooseFair ==
  ASSUME RewardsApart, NEW a, Honest(a), Posted(a), NEW c \in Scenes
  PROVE  LET first == [a EXCEPT !.decided = @ \cup {c}]
             paid == AddCurrency(first, SceneRow[c].cur, SceneRow[c].n)
         IN Fair(a, paid) /\ Fair(a, GrantKarma(paid, SceneRow[c].fexp))
<1> DEFINE first == [a EXCEPT !.decided = @ \cup {c}]
           n == SceneRow[c].n
           paid == AddCurrency(first, SceneRow[c].cur, n)
<1>1. DOMAIN a = Fields /\ Sound(a) /\ Counters(a)
  BY DEF Honest, Sound, Recorded
<1>2. SceneRow[c].cur = "coin" /\ n \in Nat /\ SceneRow[c].fexp \in Nat /\ "coin" \in Currencies
      /\ "cash" \in Currencies /\ "paid" \in Currencies
  BY MissionsAssumption DEF MissionsAssumption, RewardsApart, Currencies
<1>3. Recorded(first) /\ first.decided = a.decided \cup {c} /\ Outside(a, first, {"decided"})
  BY <1>1 DEF Recorded, Fields, Outside
<1> HIDE DEF first, n
<1>4. Untouched(a, first) /\ Counters(first)
  <2>1. Untouched(a, first)
    BY <1>1, <1>3, ElsewhereUntouched DEF PurseFields
  <2>2. first.quests = a.quests /\ first.sp = a.sp /\ first.db = a.db
    BY <1>3 DEF Outside, Fields
  <2> QED BY <1>1, <1>3, <2>1, <2>2 DEF Counters
<1>5. /\ Sound(paid) /\ paid.bag = first.bag /\ paid.gear = first.gear
      /\ paid.cur["cash"] = first.cur["cash"] /\ paid.cur["paid"] = first.cur["paid"]
  <2>1. Sound(first)
    BY <1>4 DEF Untouched
  <2> DEFINE p == AddCurrency(first, "coin", n)
  <2>2. /\ Sound(p) /\ p.bag = first.bag /\ p.gear = first.gear
        /\ \A j \in Currencies : j # "coin" => p.cur[j] = first.cur[j]
    BY <1>2, <2>1, CurrencySound
  <2>3. paid = p
    BY <1>2
  <2> HIDE DEF p, paid
  <2> QED BY <1>2, <2>2, <2>3
<1>6. Outside(first, paid, {"cur"})
  BY <1>3 DEF AddCurrency, Outside, Fields
<1> HIDE DEF paid
<1>7. paid.rev = first.rev /\ paid.job = first.job /\ paid.mail = first.mail
      /\ paid.karma = first.karma /\ paid.total = first.total
  BY <1>6 DEF Outside, Fields
<1>8. Untouched(first, paid) /\ Counters(paid)
  <2>1. Untouched(first, paid)
    BY <1>5, <1>7 DEF Untouched, Received
  <2>2. Counters(paid)
    BY <1>4, <1>6, CountersSame
  <2> QED BY <2>1, <2>2
<1>9. Fair(a, paid)
  BY <1>4, <1>8, UntouchedTwice, UntouchedIsFair
<1>10. Posted(paid)
  <2>1. first.mail = a.mail /\ first.karma = a.karma /\ first.total = a.total
    BY <1>3 DEF Outside, Fields
  <2> QED BY <1>7, <2>1, PostedSame
<1>11. Fair(paid, GrantKarma(paid, SceneRow[c].fexp))
  BY <1>2, <1>9, <1>10, KarmaFair DEF Fair
<1>12. Fair(a, paid) /\ Fair(a, GrantKarma(paid, SceneRow[c].fexp))
  BY <1>9, <1>11, FairTwice
<1> QED BY <1>12 DEF paid, first, n

(* claim_mail: what a letter brings is in the mails that were read.        *)
LEMMA ReadFair ==
  ASSUME RewardsApart, NEW a, Honest(a), Posted(a), a.total \in 0..((LastTime \div 2) + 1),
         NEW n \in DOMAIN a.mail
  PROVE  Fair(a, ClaimMail(a, n))
<1> DEFINE it == a.mail[n].items
           b == Attached(a, it)
           after == [a.mail EXCEPT ![n].read = TRUE]
           c == [b EXCEPT !.mail = [b.mail EXCEPT ![n].read = TRUE]]
<1>1. CASE a.mail[n].read
  BY <1>1 DEF ClaimMail, Fair
<1>2. CASE ~a.mail[n].read
  <2>1. ClaimMail(a, n) = c
    BY <1>2 DEF ClaimMail
  <2>2. /\ Sound(a) /\ Counters(a) /\ DOMAIN a = Fields
        /\ a.bag \in [Items -> 0..BalanceMax] /\ a.gear \in Nat
    BY DEF Honest, Sound, Recorded, PurseTyped
  <2>3. /\ a.mail \in Seq(Letters) /\ IsFiniteSet(DOMAIN a.mail)
        /\ \A k \in DOMAIN a.mail : a.mail[k] \in Letters
    <3>1. a.mail \in Seq(Letters)
      BY DEF Posted
    <3>2. DOMAIN a.mail = 1..Len(a.mail) /\ Len(a.mail) \in Nat
          /\ \A k \in DOMAIN a.mail : a.mail[k] \in Letters
      BY <3>1
    <3>3. \A m \in Nat : IsFiniteSet(1..m)
      BY FS_Interval
    <3> QED BY <3>1, <3>2, <3>3
  <2>4. it \in [Items -> Nat]
    BY <2>3 DEF Letters
  <2>5. \A i \in Items : SumFunctionOnSet(OfRead(after, i), DOMAIN after)
                            = Received(a, i) + it[i]
    BY <1>2, <2>3, ReadMore DEF Received
  <2>6. Posted(c)
    <3> HIDE DEF b, c, after, it
    <3>1. Posted(ClaimMail(a, n))
      BY <2>2, ReadPosted
    <3> QED BY <2>1, <3>1
  <2>7. Outside(a, b, PurseFields)
    BY <2>2, AttachedOutside
  <2> HIDE DEF b
  <2>8. /\ DOMAIN b = Fields /\ b.mail = a.mail /\ b.total = a.total /\ b.rev = a.rev
        /\ b.job = a.job
    BY <2>7 DEF Outside, Fields, PurseFields
  <2>9. /\ c.mail = after /\ c.total = a.total /\ c.bag = b.bag /\ c.cur = b.cur
        /\ c.energy = b.energy /\ c.gear = b.gear /\ c.casts = b.casts
        /\ c.rev = a.rev /\ c.job = a.job /\ Outside(b, c, {"mail"})
        /\ c = [b EXCEPT !.mail = after]
    BY <2>8 DEF Fields, Outside
  <2> HIDE DEF c
  <2>10. \A i \in Items : Received(c, i) = Received(a, i) + it[i]
    BY <2>5, <2>9 DEF Received
  <2> HIDE DEF after
  <2>11. ASSUME NEW i \in Items
         PROVE  /\ Received(a, i) \in Nat /\ Received(c, i) \in Nat
                /\ Received(a, i) + it[i] <= BalanceMax /\ it[i] \in Nat
                /\ i = Drop => it[i] = 0
    <3>1. Received(a, i) \in Nat /\ (i = Drop => Received(a, i) = 0)
      BY RoomForMail
    <3>2. c.total \in 0..((LastTime \div 2) + 1)
      BY <2>9
    <3>3. Received(c, i) \in Nat /\ Received(c, i) <= BalanceMax
          /\ (i = Drop => Received(c, i) = 0)
      BY <2>6, <3>2, RoomForMail
    <3>4. Received(c, i) = Received(a, i) + it[i] /\ it[i] \in Nat
      BY <2>4, <2>10
    <3> HIDE DEF it
    <3> QED BY <3>1, <3>3, <3>4
  <2> HIDE DEF it
  <2>12. \A j \in Owned : j \in Items /\ (j \in MailOnly \/ j \in Boxes \/ j = Drop)
    BY OwnedFacts DEF Owned
  <2>13. ASSUME NEW j \in Owned PROVE a.bag[j] + it[j] <= BalanceMax
    <3>1. a.bag[j] \in 0..BalanceMax /\ BalanceMax \in Nat /\ j \in Items
      BY <2>2, <2>12, OwnedFacts
    <3>2. CASE j = Drop
      BY <2>11, <3>1, <3>2
    <3>3. CASE j # Drop
      <4>1. a.bag[j] <= Received(a, j)
        <5>1. CASE j \in Boxes
          BY <5>1 DEF Honest
        <5>2. CASE j \notin Boxes
          <6>1. a.bag[j] = Received(a, j)
            BY <2>12, <3>3, <5>2 DEF Honest
          <6> QED BY <3>1, <6>1
        <5> QED BY <5>1, <5>2
      <4> QED BY <2>11, <3>1, <4>1
    <3> QED BY <3>2, <3>3
  <2>14. /\ b \in Purses(a) /\ b.gear = a.gear
         /\ \A j \in Owned : b.bag[j] = a.bag[j] + it[j]
    BY <2>2, <2>4, <2>13, AttachedSound DEF b, it
  <2>15. /\ Sound(b) /\ b.cur["cash"] = a.cur["cash"] /\ b.cur["paid"] = a.cur["paid"]
    BY <2>2, <2>14, OfPurses
  <2>16. Sound(c)
    <3>1. Recorded(c)
      BY <2>8, <2>9 DEF Recorded, Fields
    <3> QED BY <2>9, <2>15, <3>1 DEF Sound, PurseTyped
  <2>17. Counters(c)
    <3>1. Counters(b)
      BY <2>2, <2>7, CountersSame DEF PurseFields
    <3> QED BY <2>9, <3>1, CountersSame
  <2>18. /\ \A i \in MailOnly \ Boxes : c.bag[i] = Received(c, i)
         /\ \A i \in Boxes : c.bag[i] <= Received(c, i)
    <3>1. ASSUME NEW i \in MailOnly \ Boxes PROVE c.bag[i] = Received(c, i)
      <4>1. i \in Owned /\ i \in Items
        BY OwnedFacts DEF Owned
      <4>2. a.bag[i] = Received(a, i)
        BY DEF Honest
      <4> QED BY <2>9, <2>10, <2>14, <4>1, <4>2
    <3>2. ASSUME NEW i \in Boxes PROVE c.bag[i] <= Received(c, i)
      <4>1. i \in Owned /\ i \in Items /\ a.bag[i] \in Int
        BY <2>2, OwnedFacts DEF Owned
      <4>2. a.bag[i] <= Received(a, i)
        BY DEF Honest
      <4>3. c.bag[i] = a.bag[i] + it[i] /\ Received(c, i) = Received(a, i) + it[i]
        BY <2>9, <2>10, <2>14, <4>1
      <4> QED BY <2>11, <4>1, <4>2, <4>3
    <3> QED BY <3>1, <3>2
  <2>19. c.gear + Boxed(c.bag) = Boxed([i \in Boxes |-> Received(c, i)])
    <3> DEFINE f == [i \in Boxes |-> Received(a, i)]
               h == [i \in Boxes |-> Received(c, i)]
               all == Boxed(it)
    <3>1. \A i \in Boxes :
            /\ i \in Items /\ i \in Owned /\ a.bag[i] \in Int /\ it[i] \in Int
            /\ c.bag[i] = a.bag[i] + it[i]
            /\ f[i] \in Int /\ h[i] = f[i] + it[i]
      BY <2>2, <2>9, <2>10, <2>11, <2>14, OwnedFacts DEF Owned
    <3> HIDE DEF f, h
    <3>2. Boxed(c.bag) = Boxed(a.bag) + all
      BY <3>1, OwnedFacts, SumPlus DEF Boxed
    <3>3. Boxed(h) = Boxed(f) + all
      BY <3>1, OwnedFacts, SumPlus DEF Boxed
    <3>4. Boxed(a.bag) \in Int /\ Boxed(f) \in Int /\ all \in Int
      BY <3>1, OwnedFacts, SumType DEF Boxed
    <3>5. a.gear + Boxed(a.bag) = Boxed(f)
      BY DEF Honest, f
    <3> HIDE DEF all
    <3> QED BY <2>2, <2>9, <2>14, <3>2, <3>3, <3>4, <3>5 DEF h
  <2>20. Honest(c)
    <3>1. /\ a.rev \in {1, 2} /\ a.cur["paid"] = Start.cur["paid"]
          /\ a.cur["cash"] = Start.cur["cash"] + (IF a.rev = 2 THEN Debt ELSE 0)
      BY DEF Honest
    <3> QED BY <2>9, <2>15, <2>16, <2>17, <2>18, <2>19, <3>1 DEF Honest
  <2>21. c.bag[Drop] = a.bag[Drop]
    <3>1. Drop \in Owned /\ Drop \in Items
      BY OwnedFacts
    <3>2. it[Drop] = 0 /\ a.bag[Drop] \in Int /\ c.bag[Drop] = a.bag[Drop] + it[Drop]
      BY <2>2, <2>9, <2>11, <2>14, <3>1, OwnedFacts
    <3> QED BY <3>2
  <2> QED BY <2>1, <2>9, <2>20, <2>21 DEF Fair
<1> QED BY <1>1, <1>2

-----------------------------------------------------------------------------
(* The sweep.                                                              *)

Running(job, t) ==
  /\ job \in [count : Nat, start : Nat, due : Nat]
  /\ job.start <= t /\ job.start <= job.due

(* A sweep may pay no more runs than it was started for.                   *)
Sweeping(a, t) ==
  /\ Honest(a) /\ Running(a.job, t)
  /\ a.bag[Drop] + a.job.count <= SweepMax

(* What was paid of the runs that went by, and what is not paid yet.       *)
Worked(a, t) == a.bag[Drop] + Elapsed(a.job, t)

LEMMA ElapsedType ==
  ASSUME NEW t \in Nat, NEW job, Running(job, t)
  PROVE  /\ Elapsed(job, t) \in 0..job.count
         /\ job = NoJob => Elapsed(job, t) = 0
         /\ job.start = t /\ job.due > t => Elapsed(job, t) = 0
<1> DEFINE k == t - job.start
           d == job.due - job.start
           m == job.count * k
           done == m \div d
<1>1. /\ job.count \in Nat /\ job.start \in Nat /\ job.due \in Nat
      /\ k \in Nat /\ d \in Nat /\ (job.due # job.start => d \in Nat \ {0})
  BY DEF Running
<1>2. Elapsed(job, t) = IF job.due = job.start THEN job.count
                        ELSE IF done > job.count THEN job.count ELSE done
  BY DEF Elapsed
<1>3. m \in Nat /\ (k = 0 => m = 0)
  <2>1. \A x, y \in Nat : x * y \in Nat /\ x * 0 = 0
    OBVIOUS
  <2> HIDE DEF k
  <2> QED BY <1>1, <2>1
<1> HIDE DEF m
<1>4. CASE job.due = job.start
  BY <1>1, <1>2, <1>4 DEF NoJob
<1>5. CASE job.due # job.start
  <2> HIDE DEF d
  <2>1. done \in Nat /\ (m = 0 => done = 0)
    <3>1. m \div d \in Nat /\ d * (m \div d) <= m
      BY <1>1, <1>3, <1>5, DivBounds
    <3>2. ASSUME m = 0 PROVE done = 0
      <4> DEFINE q == m \div d
      <4>1. q \in Nat /\ d * q <= 0 /\ d \in Nat \ {0}
        BY <1>1, <1>5, <3>1, <3>2
      <4>2. \A x \in Nat \ {0} : \A y \in Nat \ {0} : x * y > 0
        OBVIOUS
      <4> HIDE DEF q
      <4>3. q = 0
        <5> SUFFICES ASSUME q # 0 PROVE FALSE
          OBVIOUS
        <5>1. q \in Nat \ {0}
          BY <4>1
        <5>2. d * q > 0 /\ d * q \in Int
          BY <4>1, <4>2, <5>1
        <5> QED BY <4>1, <5>2
      <4> QED BY <4>3 DEF q
    <3> QED BY <3>1, <3>2
  <2> HIDE DEF done
  <2>2. Elapsed(job, t) \in 0..job.count
    BY <1>1, <1>2, <1>5, <2>1
  <2>3. job.start = t => Elapsed(job, t) = 0
    BY <1>1, <1>2, <1>3, <1>5, <2>1
  <2>4. job # NoJob
    BY <1>5 DEF NoJob
  <2> QED BY <2>2, <2>3, <2>4
<1> QED BY <1>4, <1>5

LEMMA SweepFacts ==
  /\ SweepMax \in Nat /\ BalanceMax \in Nat /\ RunTime \in Nat \ {0}
  /\ SweepCounts \subseteq Nat \ {0}
  /\ Pass \in Items /\ Coupon \in Items /\ Drop \in Items /\ Pass # Coupon
  /\ RewardsApart => /\ SweepMax <= BalanceMax
                     /\ Drop \notin MailOnly \cup Boxes
                     /\ Pass \notin Owned /\ Coupon \notin Owned
BY MissionsAssumption, PurseAssumption
  DEF MissionsAssumption, PurseAssumption, RewardsApart, Owned

LEMMA SweepHonest ==
  ASSUME NEW a, Honest(a), NEW b, Recorded(b), Outside(a, b, {"bag", "job"}),
         b.bag \in [Items -> 0..BalanceMax],
         \A j \in MailOnly \cup Boxes : b.bag[j] = a.bag[j]
  PROVE  Honest(b)
<1>1. /\ b.cur = a.cur /\ b.energy = a.energy /\ b.gear = a.gear /\ b.casts = a.casts
      /\ b.rev = a.rev /\ b.mail = a.mail
  BY DEF Outside, Fields
<1>2. Sound(b) /\ Counters(b)
  <2>1. Sound(a) /\ Counters(a)
    BY DEF Honest
  <2>2. Counters(b)
    BY <2>1, CountersSame
  <2> QED BY <1>1, <2>1, <2>2 DEF Sound, PurseTyped
<1>3. \A i : Received(b, i) = Received(a, i)
  BY <1>1 DEF Received
<1>4. Boxed(a.bag) = Boxed(b.bag)
  <2>1. \A i \in Boxes : a.bag[i] \in Int /\ b.bag[i] = a.bag[i]
    BY OwnedFacts DEF Honest, Sound, PurseTyped
  <2> QED BY <2>1, BoxesAgree
<1>5. [i \in Boxes |-> Received(b, i)] = [i \in Boxes |-> Received(a, i)]
  BY <1>3
<1>6. b.gear + Boxed(b.bag) = Boxed([i \in Boxes |-> Received(b, i)])
  <2>1. a.gear + Boxed(a.bag) = Boxed([i \in Boxes |-> Received(a, i)])
    BY DEF Honest
  <2> QED BY <1>1, <1>4, <1>5, <2>1
<1> QED BY <1>1, <1>2, <1>3, <1>6 DEF Honest

LEMMA StoppedSweep ==
  ASSUME RewardsApart, now \in Nat, NEW a, Sweeping(a, now)
  PROVE  /\ Sweeping(Stopped(a), now) /\ Worked(Stopped(a), now) = Worked(a, now)
         /\ Sweeping(Settled(a), now) /\ Worked(Settled(a), now) = Worked(a, now)
<1> DEFINE e == Elapsed(a.job, now)
           m == Capped(a.bag[Drop] + e, 0)
           b == [a EXCEPT !.bag = [a.bag EXCEPT ![Drop] = m], !.job = NoJob]
<1>1. Stopped(a) = b
  BY DEF Stopped
<1>2. /\ Sound(a) /\ DOMAIN a = Fields /\ a.bag \in [Items -> 0..BalanceMax]
      /\ a.bag[Drop] \in 0..BalanceMax /\ a.job.count \in Nat
      /\ a.bag[Drop] + a.job.count <= SweepMax
  BY SweepFacts DEF Sweeping, Honest, Sound, Recorded, PurseTyped, Running
<1>3. e \in 0..a.job.count
  BY ElapsedType DEF Sweeping
<1> HIDE DEF e
<1>4. m = a.bag[Drop] + e /\ m \in 0..BalanceMax /\ m <= SweepMax
  <2> DEFINE v == a.bag[Drop] + e
  <2>1. v \in Int /\ 0 <= v /\ v + 0 <= BalanceMax /\ v <= SweepMax /\ 0 \in 0..BalanceMax
    BY <1>2, <1>3, SweepFacts
  <2> HIDE DEF v
  <2>2. Capped(v, 0) = v
    BY <2>1, CapType
  <2>3. v \in 0..BalanceMax
    BY <2>1, SweepFacts
  <2> QED BY <2>1, <2>2, <2>3 DEF v
<1> HIDE DEF m
<1>5. /\ Recorded(b) /\ b.bag = [a.bag EXCEPT ![Drop] = m] /\ b.job = NoJob
      /\ Outside(a, b, {"bag", "job"})
  BY <1>2 DEF Recorded, Fields, Outside
<1> HIDE DEF b
<1>6. b.bag \in [Items -> 0..BalanceMax] /\ b.bag[Drop] = m
  BY <1>2, <1>4, <1>5, SweepFacts
<1>7. Honest(b)
  <2>1. \A j \in MailOnly \cup Boxes : b.bag[j] = a.bag[j]
    BY <1>2, <1>5, SweepFacts, OwnedFacts DEF Owned
  <2> QED BY <1>5, <1>6, <2>1, SweepHonest DEF Sweeping
<1>8. Running(b.job, now)
  BY <1>5 DEF Running, NoJob
<1>9. Elapsed(b.job, now) = 0 /\ b.job.count = 0
  BY <1>5, <1>8, ElapsedType DEF NoJob
<1>10. Sweeping(b, now)
  BY <1>4, <1>6, <1>7, <1>8, <1>9 DEF Sweeping
<1>11. Worked(b, now) = Worked(a, now)
  BY <1>4, <1>6, <1>9 DEF Worked, e
<1> QED BY <1>1, <1>10, <1>11 DEF Settled

LEMMA StartedSweeps ==
  ASSUME RewardsApart, now \in Nat, NEW a, Sweeping(a, now), a.job = NoJob,
         NEW n \in SweepCounts, NEW express \in BOOLEAN, express => a.bag[Coupon] >= n,
         Worked(a, now) + n <= SweepMax
  PROVE  LET b == StartedSweep(a, n, express)
         IN /\ Sweeping(b, now)
            /\ Worked(b, now) = IF express THEN Worked(a, now) + n ELSE Worked(a, now)
<1> DEFINE p == IF a.bag[Pass] < n THEN a.bag[Pass] ELSE n
           c == IF express THEN a.bag[Coupon] - n ELSE a.bag[Coupon]
           bag == [[a.bag EXCEPT ![Coupon] = c] EXCEPT ![Pass] = a.bag[Pass] - p]
           job == [count |-> n, start |-> now,
                   due |-> IF express THEN now ELSE now + RunTime * n]
           b == [a EXCEPT !.bag = bag, !.job = job]
<1>1. /\ Sound(a) /\ DOMAIN a = Fields /\ a.bag \in [Items -> 0..BalanceMax]
      /\ a.bag[Drop] \in Nat /\ a.bag[Pass] \in 0..BalanceMax /\ a.bag[Coupon] \in 0..BalanceMax
      /\ n \in Nat \ {0}
  BY SweepFacts DEF Sweeping, Honest, Sound, Recorded, PurseTyped
<1>2. StartedSweep(a, n, express) = b
  <2>1. CASE express
    <3>1. StartedSweep(a, n, express)
            = [[a EXCEPT !.bag[Coupon] = @ - n] EXCEPT !.bag[Pass] = @ - p, !.job = job]
      BY <2>1 DEF StartedSweep
    <3> HIDE DEF p, job
    <3> QED BY <1>1, <2>1, <3>1, SweepFacts DEF Fields
  <2>2. CASE ~express
    <3>1. StartedSweep(a, n, express) = [a EXCEPT !.bag[Pass] = @ - p, !.job = job]
      BY <2>2 DEF StartedSweep
    <3>2. [a.bag EXCEPT ![Coupon] = c] = a.bag
      BY <1>1, <2>2
    <3> HIDE DEF p, job
    <3> QED BY <1>1, <3>1, <3>2 DEF Fields
  <2> QED BY <2>1, <2>2
<1>3. p \in 0..BalanceMax /\ p <= a.bag[Pass] /\ c \in 0..BalanceMax
  BY <1>1, SweepFacts
<1>4. a.bag[Pass] - p \in 0..BalanceMax
  BY <1>1, <1>3, SweepFacts
<1> HIDE DEF p, c
<1>5. bag \in [Items -> 0..BalanceMax] /\ \A j \in Owned : bag[j] = a.bag[j]
  BY <1>1, <1>3, <1>4, SweepFacts, OwnedFacts
<1> HIDE DEF bag
<1>6. /\ Running(job, now) /\ job.count = n /\ job.start = now
      /\ job.due = IF express THEN now ELSE now + RunTime * n
      /\ ~express => job.due > now
  <2>1. RunTime * n \in Nat /\ RunTime * n > 0
    BY <1>1, SweepFacts
  <2> QED BY <1>1, <2>1 DEF Running
<1> HIDE DEF job
<1>7. /\ Recorded(b) /\ b.bag = bag /\ b.job = job /\ Outside(a, b, {"bag", "job"})
  BY <1>1 DEF Recorded, Fields, Outside
<1> HIDE DEF b
<1>8. Honest(b)
  <2>1. \A j \in MailOnly \cup Boxes : b.bag[j] = a.bag[j]
    BY <1>5, <1>7 DEF Owned
  <2> QED BY <1>5, <1>7, <2>1, SweepHonest DEF Sweeping
<1>9. Worked(a, now) = a.bag[Drop] /\ b.bag[Drop] = a.bag[Drop]
  <2>1. Elapsed(a.job, now) = 0
    BY ElapsedType DEF Sweeping
  <2> QED BY <1>1, <1>5, <1>7, <2>1, OwnedFacts DEF Worked
<1>10. Elapsed(b.job, now) = IF express THEN n ELSE 0
  <2>1. CASE express
    BY <1>6, <1>7, <2>1 DEF Elapsed
  <2>2. CASE ~express
    BY <1>6, <1>7, <2>2, ElapsedType
  <2> QED BY <2>1, <2>2
<1>11. Sweeping(b, now)
  BY <1>6, <1>7, <1>8, <1>9 DEF Sweeping
<1>12. Worked(b, now) = IF express THEN Worked(a, now) + n ELSE Worked(a, now)
  BY <1>1, <1>9, <1>10 DEF Worked
<1> QED BY <1>2, <1>11, <1>12

LEMMA FairSweep ==
  ASSUME NEW a, NEW t, Sweeping(a, t), NEW b, Fair(a, b)
  PROVE  Sweeping(b, t) /\ Worked(b, t) = Worked(a, t)
BY DEF Sweeping, Fair, Worked

-----------------------------------------------------------------------------
(* What is owed is paid, step by step.                                     *)

Counting ==
  /\ now \in 0..LastTime /\ boots \in 0..BootsMax
  /\ phase \in {"off", "loaded", "migrated", "armed", "credited", "on"}
Tally ==
  /\ Sweeping(mem, now) /\ Sweeping(disk, now)
  /\ mem.job = disk.job /\ mem.bag[Drop] = disk.bag[Drop]
  /\ earned = Worked(mem, now)
OwedInv == PostInv /\ Counting /\ Tally

LEMMA OwedInit == RewardsApart /\ Init => OwedInv
<1> SUFFICES ASSUME RewardsApart, Init PROVE OwedInv
  OBVIOUS
<1> DEFINE a == NewAccount
<1>1. /\ a.cur = Start.cur /\ a.bag = Start.bag /\ a.energy = Start.energy
      /\ a.gear = 0 /\ a.casts = 0 /\ a.quests = {}
      /\ a.sp = [q \in Quests |-> NothingDone] /\ a.rev = 1 /\ a.mail = <<>>
      /\ a.decided = {} /\ a.job = NoJob /\ Recorded(a)
      /\ \A k \in DOMAIN a.db : a.db[k] = 0
  BY DEF NewAccount, FreshPurse, Recorded, Fields
<1> HIDE DEF a
<1>2. /\ Start.cur \in [Currencies -> 0..BalanceMax] /\ Start.bag \in [Items -> 0..BalanceMax]
      /\ Start.energy \in Nat /\ Start.cur["cash"] \in Nat /\ Start.cur["paid"] \in Nat
      /\ Debt \in Nat /\ BalanceMax \in Nat
      /\ Start.cur["cash"] + Start.cur["paid"] + Debt <= BalanceMax
      /\ \A i \in Owned : i \in Items /\ Start.bag[i] = 0
  <2>1. /\ Start.cur \in [Currencies -> 0..BalanceMax]
        /\ Start.bag \in [Items -> 0..BalanceMax] /\ Start.energy \in Nat /\ Debt \in Nat
    BY MissionsAssumption DEF MissionsAssumption
  <2>2. Start.cur["cash"] \in 0..BalanceMax /\ Start.cur["paid"] \in 0..BalanceMax
    BY <2>1 DEF Currencies
  <2>3. /\ Start.cur["cash"] + Start.cur["paid"] + Debt <= BalanceMax
        /\ \A i \in Owned : Start.bag[i] = 0
    BY DEF RewardsApart, Owned
  <2>4. BalanceMax \in Nat /\ \A i \in Owned : i \in Items
    BY OwnedFacts
  <2> QED BY <2>1, <2>2, <2>3, <2>4
<1>3. Sound(a)
  <2>1. a.cur["cash"] + a.cur["paid"] <= BalanceMax
    BY <1>1, <1>2
  <2> QED BY <1>1, <1>2, <2>1 DEF Sound, PurseTyped
<1>4. Counters(a)
  BY <1>1 DEF Counters, NothingDone
<1>5. ASSUME NEW i \in Items PROVE Received(a, i) = 0
  <2>1. DOMAIN a.mail = {}
    BY <1>1
  <2>2. SumFunctionOnSet(OfRead(a.mail, i), {}) = 0
    BY SumEmpty, Zenon
  <2> QED BY <2>1, <2>2 DEF Received
<1>6. /\ \A i \in MailOnly \ Boxes : a.bag[i] = Received(a, i)
      /\ \A i \in Boxes : a.bag[i] <= Received(a, i)
  <2>1. \A i \in MailOnly \cup Boxes : i \in Owned
    BY DEF Owned
  <2>2. \A i \in Owned : a.bag[i] = 0 /\ Received(a, i) = 0
    BY <1>1, <1>2, <1>5
  <2> QED BY <2>1, <2>2
<1>7. a.gear + Boxed(a.bag) = Boxed([i \in Boxes |-> Received(a, i)])
  <2> DEFINE f == [i \in Boxes |-> Received(a, i)]
  <2>1. \A i \in Boxes : a.bag[i] = 0 /\ f[i] = 0
    BY <1>1, <1>2, <1>5 DEF Owned
  <2> HIDE DEF f
  <2>2. Boxed(a.bag) = 0 /\ Boxed(f) = 0
    BY <2>1, OwnedFacts, SumNought DEF Boxed
  <2> QED BY <1>1, <2>2 DEF f
<1>8. Honest(a)
  BY <1>1, <1>2, <1>3, <1>4, <1>6, <1>7 DEF Honest
<1>9. Running(a.job, 0) /\ Elapsed(a.job, 0) = 0 /\ a.job.count = 0 /\ a.bag[Drop] = 0
  <2>1. Running(a.job, 0)
    BY <1>1 DEF Running, NoJob
  <2> QED BY <1>1, <1>2, <2>1, OwnedFacts, ElapsedType DEF NoJob
<1>10. Sweeping(a, 0) /\ Worked(a, 0) = 0
  BY <1>8, <1>9, SweepFacts DEF Sweeping, Worked
<1>11. mem = a /\ disk = a /\ now = 0 /\ earned = 0
  BY DEF Init, a
<1>12. Counting
  BY MissionsAssumption DEF Counting, Init, MissionsAssumption
<1> QED BY <1>10, <1>11, <1>12, PostInit DEF OwedInv, Tally

LEMMA DaysSoFar ==
  ASSUME PostInv, Counting
  PROVE  /\ mem.total \in 0..((LastTime \div 2) + 1)
         /\ DOMAIN mem = Fields /\ DOMAIN disk = Fields
         /\ OnLadder(mem) /\ Posted(mem) /\ Posted(disk)
         /\ mem.mail \in Seq(Letters) /\ disk.mail \in Seq(Letters)
<1>1. /\ OnLadder(mem) /\ Timely(mem, now) /\ Posted(mem) /\ Posted(disk)
      /\ DOMAIN mem = Fields /\ DOMAIN disk = Fields
  BY DEF PostInv, StepInv, AccountInv, Booked, Kept
<1>2. LastTime \in Nat /\ now \in Nat /\ now <= LastTime
  BY MissionsAssumption DEF MissionsAssumption, Counting
<1>3. now \div 2 \in Nat /\ LastTime \div 2 \in Nat /\ now \div 2 <= LastTime \div 2
  BY <1>2, DivBounds, DivMonotone
<1>4. mem.total \in 0..((LastTime \div 2) + 1)
  BY <1>1, <1>3 DEF OnLadder, Timely
<1> QED BY <1>1, <1>4 DEF Posted

(* A step of the login or a handler, and what it leaves in the file.       *)
LEMMA FairStep ==
  ASSUME OwedInv, NEW a, Fair(mem, a), mem' = a, disk' = a \/ disk' = disk,
         now' = now, earned' = earned
  PROVE  Tally'
<1>1. Sweeping(a, now) /\ Worked(a, now) = Worked(mem, now)
  BY FairSweep DEF OwedInv, Tally
<1>2. a.job = mem.job /\ a.bag[Drop] = mem.bag[Drop]
  BY DEF Fair
<1> QED BY <1>1, <1>2 DEF OwedInv, Tally

LEMMA CountingNext == Counting /\ [Next]_vars => Counting'
<1> SUFFICES ASSUME Counting, [Next]_vars PROVE Counting'
  OBVIOUS
<1>1. BootsMax \in Nat /\ LastTime \in Nat
  BY MissionsAssumption DEF MissionsAssumption
<1>2. CASE Load
  BY <1>1, <1>2 DEF Load, Counting
<1>3. CASE Migrate \/ RearmMissions \/ CreditLogin \/ AdvanceLogin
  BY <1>3 DEF Migrate, RearmMissions, CreditLogin, AdvanceLogin, Step, Counting
<1>4. CASE Crash
  BY <1>4 DEF Crash, Counting
<1>5. ASSUME NEW a, Handler(a) PROVE Counting'
  BY <1>5 DEF Handler, Counting
<1>6. ASSUME NEW q, Claim(q) PROVE Counting'
  BY <1>5, <1>6 DEF Claim
<1>7. ASSUME NEW n, ReceiveMail(n) PROVE Counting'
  BY <1>5, <1>7 DEF ReceiveMail
<1>8. CASE SyncLadder \/ ClearStage \/ StopSweep
  BY <1>5, <1>8 DEF SyncLadder, ClearStage, StopSweep
<1>9. ASSUME NEW c, Choose(c) PROVE Counting'
  BY <1>5, <1>9 DEF Choose
<1>10. ASSUME NEW n, NEW express, StartSweep(n, express) PROVE Counting'
  BY <1>5, <1>10 DEF StartSweep
<1>11. CASE SyncSweep
  BY <1>11 DEF SyncSweep, Counting
<1>12. CASE Tick
  BY <1>1, <1>12 DEF Tick, Counting
<1>13. CASE UNCHANGED vars
  BY <1>13 DEF vars, Counting
<1> QED BY <1>2, <1>3, <1>4, <1>6, <1>7, <1>8, <1>9, <1>10, <1>11, <1>12, <1>13 DEF Next

(* A login, which may be cut short after any of its steps.                 *)
LEMMA LoginOwed ==
  ASSUME RewardsApart, OwedInv,
         Load \/ Migrate \/ RearmMissions \/ CreditLogin \/ AdvanceLogin \/ Crash
  PROVE  Tally'
<1>1. /\ Sweeping(mem, now) /\ Sweeping(disk, now) /\ Honest(mem) /\ Honest(disk)
      /\ mem.job = disk.job /\ mem.bag[Drop] = disk.bag[Drop]
      /\ earned = Worked(mem, now)
  BY DEF OwedInv, Tally, Sweeping
<1>2. OnLadder(mem) /\ mem.mail \in Seq(Letters) /\ disk.mail \in Seq(Letters)
      /\ DOMAIN disk = Fields
  BY DaysSoFar DEF OwedInv
<1>3. ASSUME NEW from, NEW to, NEW a, NEW saved, Step(from, to, a, saved), Fair(mem, a)
      PROVE  Tally'
  <2>1. mem' = a /\ (disk' = a \/ disk' = disk) /\ now' = now /\ earned' = earned
    BY <1>3 DEF Step
  <2> QED BY <1>3, <2>1, FairStep
<1>4. CASE Load
  <2> DEFINE b == RefillPasses(disk)
             c == RescueAll(b)
  <2>1. Fair(disk, b) /\ b.mail = disk.mail
    <3>1. b.mail = disk.mail
      BY <1>2 DEF RefillPasses, Fields
    <3> QED BY <1>1, <3>1, RefillFair
  <2>2. mem' = c /\ disk' = c /\ now' = now /\ earned' = earned
    BY <1>4 DEF Load
  <2> HIDE DEF b
  <2>3. Honest(b) /\ b.mail \in Seq(Letters)
    BY <1>2, <2>1 DEF Fair
  <2>4. Fair(b, c)
    BY <2>3, RescueFair
  <2> HIDE DEF c
  <2>5. Fair(disk, c)
    BY <2>1, <2>4, FairTwice
  <2>6. Sweeping(c, now) /\ Worked(c, now) = Worked(disk, now)
    BY <1>1, <2>5, FairSweep
  <2>7. Worked(disk, now) = Worked(mem, now)
    BY <1>1 DEF Worked
  <2> QED BY <1>1, <2>2, <2>6, <2>7 DEF Tally
<1>5. CASE Migrate
  <2>1. Fair(mem, MigrateBalances(mem))
    BY <1>1, MigrateFair
  <2> QED BY <1>3, <1>5, <2>1 DEF Migrate
<1>6. CASE RearmMissions
  <2>1. Fair(mem, Rearm(mem))
    BY <1>1, RearmFair
  <2> QED BY <1>3, <1>6, <2>1 DEF RearmMissions
<1>7. CASE CreditLogin
  <2>1. Fair(mem, Count(mem, "login", AnyValue, 1))
    BY <1>1, CountFair
  <2> QED BY <1>3, <1>7, <2>1 DEF CreditLogin
<1>8. CASE AdvanceLogin
  <2>1. Fair(mem, Climb(mem))
    BY <1>1, <1>2, ClimbFair
  <2> QED BY <1>3, <1>8, <2>1 DEF AdvanceLogin
<1>9. CASE Crash
  <2>1. mem' = disk /\ disk' = disk /\ now' = now /\ earned' = earned
    BY <1>9 DEF Crash
  <2> QED BY <1>1, <2>1 DEF Tally, Worked
<1> QED BY <1>4, <1>5, <1>6, <1>7, <1>8, <1>9

(* A sweep is started, stopped, settled, and goes on.                      *)
LEMMA SweepOwed ==
  ASSUME RewardsApart, OwedInv,
         \/ \E n \in SweepCounts, express \in BOOLEAN : StartSweep(n, express)
         \/ StopSweep \/ SyncSweep \/ Tick
  PROVE  Tally'
<1>1. /\ Sweeping(mem, now) /\ Sweeping(disk, now) /\ now \in Nat
      /\ mem.job = disk.job /\ mem.bag[Drop] = disk.bag[Drop]
      /\ earned = Worked(mem, now)
  BY DEF OwedInv, Tally, PostInv, StepInv
<1>2. ASSUME NEW a, mem' = a, disk' = a, now' = now, Sweeping(a, now),
             earned' = Worked(a, now)
      PROVE  Tally'
  BY <1>2 DEF Tally
<1>3. ASSUME NEW n \in SweepCounts, NEW express \in BOOLEAN, StartSweep(n, express)
      PROVE  Tally'
  <2> DEFINE b == StartedSweep(mem, n, express)
             c == Settled(b)
  <2>1. /\ mem.job = NoJob /\ (express => mem.bag[Coupon] >= n) /\ earned + n <= SweepMax
        /\ mem' = c /\ disk' = c /\ now' = now
        /\ earned' = IF express THEN earned + n ELSE earned
    BY <1>3 DEF StartSweep, Handler
  <2>2. Sweeping(b, now) /\ Worked(b, now) = IF express THEN earned + n ELSE earned
    <3>1. Worked(mem, now) + n <= SweepMax
      BY <1>1, <2>1
    <3> QED BY <1>1, <2>1, <3>1, StartedSweeps
  <2> HIDE DEF b
  <2>3. Sweeping(c, now) /\ Worked(c, now) = Worked(b, now)
    BY <1>1, <2>2, StoppedSweep
  <2> HIDE DEF c
  <2> QED BY <1>2, <2>1, <2>2, <2>3
<1>4. CASE StopSweep
  <2> DEFINE b == Stopped(mem)
  <2>1. mem' = b /\ disk' = b /\ now' = now /\ earned' = earned
    BY <1>4 DEF StopSweep, Handler
  <2>2. Sweeping(b, now) /\ Worked(b, now) = earned
    BY <1>1, StoppedSweep
  <2> HIDE DEF b
  <2> QED BY <1>2, <2>1, <2>2
<1>5. CASE SyncSweep
  <2> DEFINE b == Settled(mem)
  <2>1. /\ mem' = b /\ disk' = (IF b # mem THEN b ELSE disk)
        /\ now' = now /\ earned' = earned
    BY <1>5 DEF SyncSweep
  <2>2. Sweeping(b, now) /\ Worked(b, now) = earned
    BY <1>1, StoppedSweep
  <2> HIDE DEF b
  <2>3. CASE b # mem
    BY <1>2, <2>1, <2>2, <2>3
  <2>4. CASE b = mem
    BY <1>1, <2>1, <2>4 DEF Tally
  <2> QED BY <2>3, <2>4
<1>6. CASE Tick
  <2>1. /\ mem' = mem /\ disk' = disk /\ now' = now + 1
        /\ earned' = IF disk.job = NoJob THEN earned
                     ELSE earned + Elapsed(disk.job, now + 1) - Elapsed(disk.job, now)
    BY <1>6 DEF Tick
  <2>2. Running(mem.job, now) /\ Running(mem.job, now + 1)
    BY <1>1 DEF Sweeping, Running
  <2>3. Sweeping(mem, now + 1) /\ Sweeping(disk, now + 1)
    BY <1>1, <2>2 DEF Sweeping
  <2>4. /\ Elapsed(mem.job, now) \in Int /\ Elapsed(mem.job, now + 1) \in Int
        /\ mem.job = NoJob => /\ Elapsed(mem.job, now) = 0
                              /\ Elapsed(mem.job, now + 1) = 0
    <3>1. now + 1 \in Nat /\ mem.job.count \in Nat
      BY <1>1, <2>2 DEF Running
    <3> QED BY <1>1, <2>2, <3>1, ElapsedType
  <2>5. mem.bag[Drop] \in Int
    BY <1>1, OwnedFacts DEF Sweeping, Honest, Sound, PurseTyped
  <2>6. earned' = mem.bag[Drop] + Elapsed(mem.job, now + 1)
    BY <1>1, <2>1, <2>4, <2>5 DEF Worked
  <2> QED BY <1>1, <2>1, <2>3, <2>6 DEF Tally, Worked
<1> QED BY <1>3, <1>4, <1>5, <1>6

LEMMA TallyNext == RewardsApart /\ OwedInv /\ [Next]_vars => Tally'
<1> SUFFICES ASSUME RewardsApart, OwedInv, [Next]_vars PROVE Tally'
  OBVIOUS
<1>1. Honest(mem)
  BY DEF OwedInv, Tally, Sweeping
<1>2. Posted(mem) /\ mem.total \in 0..((LastTime \div 2) + 1)
  BY DaysSoFar DEF OwedInv
<1>3. CASE Load \/ Migrate \/ RearmMissions \/ CreditLogin \/ AdvanceLogin \/ Crash
  BY <1>3, LoginOwed
<1>4. CASE \/ \E n \in SweepCounts, express \in BOOLEAN : StartSweep(n, express)
           \/ StopSweep \/ SyncSweep \/ Tick
  BY <1>4, SweepOwed
<1>5. ASSUME NEW a, Fair(mem, a), Handler(a), earned' = earned PROVE Tally'
  <2>1. mem' = a /\ disk' = a /\ now' = now
    BY <1>5 DEF Handler
  <2> QED BY <1>5, <2>1, FairStep
<1>6. ASSUME NEW q \in Quests, Claim(q) PROVE Tally'
  <2>1. Fair(mem, Complete(mem, q))
    BY <1>1, CompleteFair
  <2> QED BY <1>5, <1>6, <2>1 DEF Claim
<1>7. ASSUME NEW n \in DOMAIN mem.mail, ReceiveMail(n) PROVE Tally'
  <2>1. Fair(mem, ClaimMail(mem, n))
    BY <1>1, <1>2, ReadFair
  <2> QED BY <1>5, <1>7, <2>1 DEF ReceiveMail
<1>8. CASE SyncLadder
  <2> DEFINE b == [mem EXCEPT !.checkin = 0]
  <2>1. Fair(mem, b)
    BY <1>1, SyncFair
  <2>2. Handler(b) /\ earned' = earned
    BY <1>8 DEF SyncLadder
  <2> HIDE DEF b
  <2> QED BY <1>5, <2>1, <2>2
<1>9. CASE ClearStage
  <2>1. Fair(mem, Count(mem, "clear", AnyValue, 1))
    BY <1>1, CountFair
  <2> QED BY <1>5, <1>9, <2>1 DEF ClearStage
<1>10. ASSUME NEW c \in Scenes, Choose(c) PROVE Tally'
  <2> DEFINE first == [mem EXCEPT !.decided = @ \cup {c}]
             paid == AddCurrency(first, SceneRow[c].cur, SceneRow[c].n)
             b == IF c \in mem.decided THEN mem
                  ELSE IF SceneRow[c].fexp > 0 THEN GrantKarma(paid, SceneRow[c].fexp)
                  ELSE paid
  <2>1. Fair(mem, paid) /\ Fair(mem, GrantKarma(paid, SceneRow[c].fexp))
    BY <1>1, <1>2, ChooseFair
  <2>2. Handler(b) /\ earned' = earned
    BY <1>10 DEF Choose
  <2>3. Fair(mem, mem)
    BY <1>1 DEF Fair
  <2> HIDE DEF paid
  <2>4. Fair(mem, b)
    BY <2>1, <2>3
  <2> HIDE DEF b
  <2> QED BY <1>5, <2>2, <2>4
<1>11. CASE UNCHANGED vars
  BY <1>11 DEF vars, OwedInv, Tally
<1> QED BY <1>3, <1>4, <1>6, <1>7, <1>8, <1>9, <1>10, <1>11 DEF Next

LEMMA OwedNext == RewardsApart /\ OwedInv /\ [Next]_vars => OwedInv'
BY PostNext, CountingNext, TallyNext DEF OwedInv

LEMMA OwedGives == OwedInv => PaidOnce
<1> SUFFICES ASSUME OwedInv PROVE PaidOnce
  OBVIOUS
<1>1. /\ Sweeping(mem, now) /\ Sweeping(disk, now) /\ now \in Nat
      /\ PostInv /\ Counting /\ earned = Worked(mem, now)
  BY DEF OwedInv, Tally, PostInv, StepInv
<1>2. /\ Honest(mem) /\ OnLadder(mem) /\ Posted(mem) /\ Running(mem.job, now)
      /\ Honest(disk) /\ OnLadder(disk) /\ Posted(disk) /\ Running(disk.job, now)
  BY <1>1 DEF Sweeping, PostInv, StepInv, AccountInv
<1>3. ASSUME NEW a, Honest(a), OnLadder(a), Posted(a), Running(a.job, now)
      PROVE  AccountOK(a)
  <2>1. PurseOK(a)
    BY <1>3 DEF Honest, Sound, PurseTyped, Counters, PurseOK, Diamonds
  <2>2. a.rev \in 0..2 /\ a.decided \subseteq Scenes
    BY <1>3 DEF Honest, Counters
  <2>3. a.karma \in [flv : 1..MaxFlv, fxp : Nat]
    BY <1>3 DEF Posted
  <2>4. a.rung \in 0..Rungs /\ a.book \in Nat \ {0} /\ a.total \in Nat
    BY <1>3 DEF OnLadder
  <2>5. a.job.due >= a.job.start
    BY <1>3 DEF Running
  <2> QED BY <2>1, <2>2, <2>3, <2>4, <2>5 DEF AccountOK
<1>4. /\ Elapsed(mem.job, now) \in Nat /\ mem.bag[Drop] \in Nat
      /\ mem.job = NoJob => Elapsed(mem.job, now) = 0
  <2>1. mem.job.count \in Nat
    BY <1>2 DEF Running
  <2>2. mem.bag[Drop] \in Nat
    BY <1>2, OwnedFacts DEF Honest, Sound, PurseTyped
  <2> QED BY <1>1, <1>2, <2>1, <2>2, ElapsedType
<1>5. earned = mem.bag[Drop] + Elapsed(mem.job, now)
  BY <1>1 DEF Worked
<1>6. TypeOK
  <2>1. AccountOK(mem) /\ AccountOK(disk)
    BY <1>2, <1>3
  <2>2. earned \in Nat
    BY <1>4, <1>5
  <2> QED BY <1>1, <2>1, <2>2 DEF TypeOK, Both, Counting
<1>7. MailPaidOnce /\ DebtPaidOnce
  BY <1>2 DEF MailPaidOnce, DebtPaidOnce, Both, Honest
<1>8. SweepPaidOnce
  BY <1>4, <1>5 DEF SweepPaidOnce
<1> QED BY <1>6, <1>7, <1>8 DEF PaidOnce

-----------------------------------------------------------------------------
(* Where an account can be read for what it was paid, and wherever a login *)
(* is cut short: a mail pays its attachments once, and a box among them is *)
(* opened once (claim_mail, _rescue_bagged_rewards); a sweep pays the runs *)
(* that went by, none twice and none lost (autorun_start, autorun_settle,  *)
(* autorun_cancel, autorun_runs_elapsed); and what the first revision of   *)
(* the balances took is paid back once (migrate_starting_balances).        *)
THEOREM OwedSafe == ASSUME RewardsApart PROVE Spec => []PaidOnce
<1>1. Init => OwedInv
  BY OwedInit
<1>2. OwedInv /\ [Next]_vars => OwedInv'
  BY OwedNext
<1>3. OwedInv => PaidOnce
  BY OwedGives
<1> QED BY <1>1, <1>2, <1>3, PTL DEF Spec

=============================================================================
