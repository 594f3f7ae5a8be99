------------------------- MODULE GuildWeekly_proofs -------------------------
(***************************************************************************)
(* Proofs about GuildWeekly and Guild, for any length of a week, any       *)
(* allowance, any scores, any ladder of rewards and any clock.             *)
(***************************************************************************)
EXTENDS Guild, FiniteSetTheorems, TLAPS

(***************************************************************************)
(* The clocks.                                                             *)
(***************************************************************************)

LEMMA DivBounds ==
  ASSUME NEW n \in Nat, NEW d \in Nat \ {0}
  PROVE  n \div d \in Nat /\ d * (n \div d) <= n /\ n < d * (n \div d) + d
  OBVIOUS

LEMMA DivMonotone ==
  ASSUME NEW n \in Nat, NEW m \in Nat, NEW d \in Nat \ {0}, n <= m
  PROVE  n \div d <= m \div d
<1> DEFINE a == n \div d
           b == m \div d
<1>1. a \in Nat /\ b \in Nat /\ d * a <= n /\ m < d * b + d
  BY DivBounds
<1> HIDE DEF a, b
<1>2. ASSUME b < a PROVE FALSE
  <2>1. b + 1 <= a
    BY <1>1, <1>2
  <2>2. d * (b + 1) <= d * a
    BY <1>1, <2>1
  <2>3. d * (b + 1) = d * b + d
    BY <1>1
  <2> QED
    BY <1>1, <2>2, <2>3
<1> QED
  BY <1>1, <1>2 DEF a, b

(* Half days are in range, and no clock runs backwards.                    *)
LEMMA ClockTypes ==
  ASSUME NEW t \in 1..Latest
  PROVE  Period(t) \in Periods /\ Week(t) \in Weeks
         /\ Weekday(t) \in 1..DaysAWeek
<1>1. t \in Nat /\ t - 1 \in Nat /\ Latest \in Nat /\ Latest - 1 \in Nat
  BY WeeklyAssumption DEF WeeklyAssumption
<1>2. (t - 1) \div 2 \in Nat /\ (t - 1) \div 2 <= (Latest - 1) \div 2
      /\ (Latest - 1) \div 2 \in Nat
  BY <1>1, DivMonotone, DivBounds
<1>3. t \div 2 \in Nat /\ Latest \div 2 \in Nat /\ t \div 2 <= Latest \div 2
  BY <1>1, DivMonotone, DivBounds
<1>4. /\ (t \div 2) \div DaysAWeek \in Nat
      /\ (Latest \div 2) \div DaysAWeek \in Nat
      /\ (t \div 2) \div DaysAWeek <= (Latest \div 2) \div DaysAWeek
  BY <1>3, DivMonotone, DivBounds, WeeklyAssumption DEF WeeklyAssumption
<1>5. (t \div 2) % DaysAWeek \in 0..(DaysAWeek - 1)
  BY <1>3, WeeklyAssumption DEF WeeklyAssumption
<1> QED
  BY <1>2, <1>4, <1>5, WeeklyAssumption
     DEF Period, Periods, Week, Weeks, Weekday, WeeklyAssumption

LEMMA ClockMonotone ==
  ASSUME NEW t \in 1..Latest, t < Latest
  PROVE  Period(t) <= Period(t + 1) /\ Week(t) <= Week(t + 1)
<1>1. t \in Nat /\ t + 1 \in Nat /\ t - 1 \in Nat /\ (t + 1) - 1 \in Nat
  BY WeeklyAssumption DEF WeeklyAssumption
<1>2. (t - 1) \div 2 <= ((t + 1) - 1) \div 2
  BY <1>1, DivMonotone
<1>3. t \div 2 \in Nat /\ (t + 1) \div 2 \in Nat /\ t \div 2 <= (t + 1) \div 2
  BY <1>1, DivMonotone, DivBounds
<1>4. (t \div 2) \div DaysAWeek <= ((t + 1) \div 2) \div DaysAWeek
  BY <1>3, DivMonotone, WeeklyAssumption DEF WeeklyAssumption
<1> QED
  BY <1>2, <1>4 DEF Period, Week

LEMMA TotalType ==
  ASSUME NEW h \in Nat, NEW d \in Nat \ {0}
  PROVE  Total(h, d) \in Nat
<1>1. h * (d - 1) \in Nat
  OBVIOUS
<1>2. (h * (d - 1)) \div 4 \in Nat
  BY <1>1, DivBounds
<1> QED
  BY <1>2 DEF Total

(***************************************************************************)
(* The inductive invariant of an account.                                  *)
(***************************************************************************)

(* The clocks of a record move together and are never ahead of the time;   *)
(* the login has topped up on the day its marker names.                    *)
ClockInv(a, t) ==
  /\ a.day = a.refilled
  /\ a.day = Never <=> a.key = Never
  /\ a.day <= Period(t) /\ a.key <= Week(t)
  /\ \A p \in a.topped : p <= a.passDay
  /\ a.passDay <= Period(t)

(* What a day may start: one allowance, and one more if a login of that    *)
(* day topped the passes up.                                               *)
Allowed(a, p) == IF p \in a.topped THEN 2 * MaxTimes ELSE MaxTimes

(* Tries are charged to the record's own day and week, or an earlier one,  *)
(* and on the present day they stay within what is allowed together with   *)
(* the passes that are left.  On a day gone by the passes say nothing: a   *)
(* login may have filled them for a day the record has not rolled to yet.  *)
TriesInv(a, t) ==
  \A p \in Periods, w \in Weeks :
    /\ a.started[<<p, w>>] <= Allowed(a, p)
    /\ a.started[<<p, w>>] # 0 => p <= a.day /\ w <= a.key
    /\ p = Period(t) /\ p = a.day /\ w = a.key
         => a.started[<<p, w>>] + a.passes <= Allowed(a, p)

(* The best score of the record is that of its day and week; only days     *)
(* before it have been paid, each what it earned in one week; and those of *)
(* the record's week have all been paid.                                   *)
PaidInv(a) ==
  /\ \A p \in Periods, w \in Weeks :
       /\ a.banked[<<p, w>>] # 0 => p <= a.day /\ w <= a.key
       /\ p = a.day /\ w = a.key => a.best = a.banked[<<p, w>>]
       /\ p < a.day /\ w = a.key /\ a.banked[<<p, w>>] >= LowestRung
            => a.paid[p] = a.banked[<<p, w>>]
  /\ \A p \in Periods :
       a.paid[p] # 0 => /\ p < a.day
                        /\ \E w \in Weeks : a.paid[p] = a.banked[<<p, w>>]

AccountInv(a, t) == ClockInv(a, t) /\ TriesInv(a, t) /\ PaidInv(a)

IInv == AccountInv(disk, now) /\ AccountInv(mem, now)

(***************************************************************************)
(* The roll.  A record of the current day and week is left alone; a new    *)
(* day settles; a new week forgets.                                        *)
(***************************************************************************)

LEMMA RollSame ==
  ASSUME NEW a \in Account, NEW t \in 1..Latest, ClockInv(a, t),
         a.day = Period(t), a.key = Week(t)
  PROVE  Rolled(a, t) = a
  BY DEF Rolled, Refilled, DayRolled, WeekRolled, ClockInv

(* What a roll changes, field by field.                                    *)
RollFacts(a, r, t) ==
  /\ r \in Account
  /\ r.day = Period(t) /\ r.key = Week(t) /\ r.refilled = Period(t)
  /\ r.best = 0 /\ r.passes = MaxTimes
  /\ r.started = a.started /\ r.banked = a.banked
  /\ r.passDay = a.passDay /\ r.topped = a.topped

LEMMA RollDay ==
  ASSUME NEW a \in Account, NEW t \in 1..Latest,
         a.day # Period(t), a.key = Week(t)
  PROVE  LET r == Rolled(a, t)
         IN /\ RollFacts(a, r, t)
            /\ r.paid = IF a.day = Never \/ a.best < LowestRung THEN a.paid
                        ELSE [a.paid EXCEPT ![a.day] = @ + a.best]
            /\ r.queue = IF a.day = Never \/ a.best < LowestRung THEN a.queue
                         ELSE Append(a.queue, a.day)
<1> DEFINE d == DayRolled(a, t)
           s == Settled(a)
<1>1. Period(t) \in Periods /\ Week(t) \in Weeks /\ Weekday(t) \in 0..DaysAWeek
      /\ Weekday(t) \in 1..DaysAWeek /\ Never \notin Periods
  BY ClockTypes, WeeklyAssumption
     DEF WeeklyAssumption, Never, Periods
<1>2. /\ s \in Account
      /\ s.passes = a.passes /\ s.key = a.key
      /\ s.passDay = a.passDay /\ s.topped = a.topped
      /\ s.started = a.started /\ s.banked = a.banked
      /\ s.paid = IF a.day = Never \/ a.best < LowestRung THEN a.paid
                  ELSE [a.paid EXCEPT ![a.day] = @ + a.best]
      /\ s.queue = IF a.day = Never \/ a.best < LowestRung THEN a.queue
                   ELSE Append(a.queue, a.day)
  <2>1. CASE a.day = Never \/ a.best < LowestRung
    BY <2>1 DEF Settled
  <2>2. CASE ~(a.day = Never \/ a.best < LowestRung)
    <3>1. a.day \in Periods /\ a.best \in Nat
      BY <2>2 DEF Account
    <3>2. s = [a EXCEPT !.paid[a.day] = @ + a.best,
                        !.queue = Append(@, a.day)]
      BY <2>2 DEF Settled
    <3>3. [a.paid EXCEPT ![a.day] = @ + a.best] \in [Periods -> Nat]
      BY <3>1 DEF Account
    <3>4. Append(a.queue, a.day) \in Seq(Periods)
      BY <3>1 DEF Account
    <3> QED
      BY <2>2, <3>2, <3>3, <3>4 DEF Account
  <2> QED
    BY <2>1, <2>2
<1>3. d = [s EXCEPT !.day = Period(t), !.best = 0, !.refilled = Never,
                    !.group = Weekday(t)]
  BY DEF DayRolled
<1>4. /\ d \in Account
      /\ d.day = Period(t) /\ d.key = Week(t) /\ d.best = 0
      /\ d.refilled = Never /\ d.passes = a.passes
      /\ d.passDay = a.passDay /\ d.topped = a.topped
      /\ d.started = a.started /\ d.banked = a.banked /\ d.paid = s.paid
      /\ d.queue = s.queue
  <2> HIDE DEF s, d
  <2> QED
    BY <1>1, <1>2, <1>3 DEF Account
<1>5. WeekRolled(a, t) = a
  BY DEF WeekRolled
<1>6. Rolled(a, t) = Refilled(d, t)
  BY <1>5 DEF Rolled
<1> HIDE DEF d, s
<1>7. Refilled(d, t) = [d EXCEPT !.refilled = Period(t), !.passes = MaxTimes]
  <2>1. d.passes \in 0..MaxTimes /\ MaxTimes \in Nat
    BY <1>4, WeeklyAssumption DEF Account, WeeklyAssumption
  <2>2. Full(d.passes) = MaxTimes
    BY <2>1 DEF Full
  <2> QED
    BY <1>1, <1>4, <2>2 DEF Refilled
<1> DEFINE r == Rolled(a, t)
<1>8. r = [d EXCEPT !.refilled = Period(t), !.passes = MaxTimes]
  BY <1>6, <1>7
<1> HIDE DEF r
<1>9. /\ r \in Account
      /\ r.day = Period(t) /\ r.key = Week(t) /\ r.refilled = Period(t)
      /\ r.best = 0 /\ r.passes = MaxTimes
      /\ r.passDay = a.passDay /\ r.topped = a.topped
      /\ r.started = a.started /\ r.banked = a.banked /\ r.paid = s.paid
      /\ r.queue = s.queue
  <2>1. MaxTimes \in 0..MaxTimes
    BY WeeklyAssumption DEF WeeklyAssumption
  <2> QED
    BY <1>1, <1>4, <1>8, <2>1 DEF Account
<1> QED
  BY <1>2, <1>9 DEF RollFacts, r

LEMMA RollWeek ==
  ASSUME NEW a \in Account, NEW t \in 1..Latest, a.key # Week(t)
  PROVE  LET r == Rolled(a, t)
         IN RollFacts(a, r, t) /\ r.paid = a.paid /\ r.queue = a.queue
<1> DEFINE w == WeekRolled(a, t)
<1>1. Period(t) \in Periods /\ Week(t) \in Weeks /\ Never \notin Periods
  BY ClockTypes, WeeklyAssumption
     DEF WeeklyAssumption, Never, Periods
<1>2. w = [a EXCEPT !.key = Week(t), !.day = Never, !.refilled = Never,
                    !.best = 0, !.group = 0, !.pending = 0]
  BY DEF WeekRolled
<1> HIDE DEF w
<1>3. /\ w \in Account
      /\ w.key = Week(t) /\ w.day = Never
      /\ w.passDay = a.passDay /\ w.topped = a.topped
      /\ w.started = a.started /\ w.banked = a.banked /\ w.paid = a.paid
      /\ w.queue = a.queue
  <2>1. 0 \in 0..DaysAWeek
    BY WeeklyAssumption DEF WeeklyAssumption
  <2> QED
    BY <1>1, <1>2, <2>1 DEF Account
<1>4. WeekRolled(w, t) = w
  BY <1>3 DEF WeekRolled
<1>5. Rolled(w, t) = Rolled(a, t)
  BY <1>4 DEF Rolled, w
<1>6. w.day # Period(t)
  BY <1>1, <1>3
<1>7. LET r == Rolled(w, t)
      IN /\ RollFacts(w, r, t)
         /\ r.paid = IF w.day = Never \/ w.best < LowestRung THEN w.paid
                     ELSE [w.paid EXCEPT ![w.day] = @ + w.best]
         /\ r.queue = IF w.day = Never \/ w.best < LowestRung THEN w.queue
                      ELSE Append(w.queue, w.day)
  BY <1>3, <1>6, RollDay
<1> QED
  BY <1>3, <1>5, <1>7 DEF RollFacts

(* The fields the invariant compares are numbers.                          *)
LEMMA Fields ==
  ASSUME NEW a \in Account
  PROVE  /\ a.day \in Int /\ a.key \in Int /\ a.refilled \in Int
         /\ a.passDay \in Int /\ a.topped \subseteq Periods
         /\ a.best \in Nat /\ a.passes \in Nat /\ a.passes <= MaxTimes
         /\ \A p \in Periods, w \in Weeks :
              a.started[<<p, w>>] \in Nat /\ a.banked[<<p, w>>] \in Nat
         /\ \A p \in Periods : a.paid[p] \in Nat
<1>1. Periods \cup {Never} \subseteq Int /\ Weeks \cup {Never} \subseteq Int
  BY DEF Periods, Weeks, Never
<1>2. /\ a.day \in Periods \cup {Never} /\ a.key \in Weeks \cup {Never}
      /\ a.refilled \in Periods \cup {Never}
      /\ a.passDay \in Periods \cup {Never} /\ a.topped \subseteq Periods
      /\ a.best \in Nat /\ a.passes \in 0..MaxTimes
      /\ a.started \in [Periods \X Weeks -> Nat]
      /\ a.banked \in [Periods \X Weeks -> Nat]
      /\ a.paid \in [Periods -> Nat]
  BY DEF Account
<1>3. a.passes \in Nat /\ a.passes <= MaxTimes
  BY <1>2, WeeklyAssumption DEF WeeklyAssumption
<1> QED
  BY <1>1, <1>2, <1>3

LEMMA Ranges ==
  /\ \A p \in Periods : p \in Int /\ Never < p
  /\ \A w \in Weeks : w \in Int /\ Never < w
  /\ MaxTimes \in Nat /\ LowestRung \in Nat /\ LowestRung > 0
  BY WeeklyAssumption DEF WeeklyAssumption, Never, Periods, Weeks

LEMMA AllowedFacts ==
  ASSUME NEW a, NEW p
  PROVE  /\ Allowed(a, p) \in {MaxTimes, 2 * MaxTimes} /\ Allowed(a, p) \in Nat
         /\ MaxTimes <= Allowed(a, p)
  BY Ranges DEF Allowed

(* The roll keeps the account's invariant and brings its clocks up to now. *)
LEMMA RollKeeps ==
  ASSUME NEW a \in Account, NEW t \in 1..Latest, AccountInv(a, t)
  PROVE  LET r == Rolled(a, t)
         IN /\ r \in Account
            /\ AccountInv(r, t)
            /\ r.day = Period(t) /\ r.key = Week(t)
<1> DEFINE r == Rolled(a, t)
<1>1. Period(t) \in Periods /\ Week(t) \in Weeks
  BY ClockTypes
<1>2. Period(t) \in Int /\ Week(t) \in Int
      /\ Never < Period(t) /\ Never < Week(t)
  BY <1>1, Ranges
<1>3. ClockInv(a, t) /\ TriesInv(a, t) /\ PaidInv(a)
  BY DEF AccountInv
<1>4. CASE a.day = Period(t) /\ a.key = Week(t)
  BY <1>3, <1>4, RollSame
<1>5. CASE a.day # Period(t) /\ a.key = Week(t)
  <2>1. /\ RollFacts(a, r, t)
        /\ r.paid = IF a.day = Never \/ a.best < LowestRung THEN a.paid
                    ELSE [a.paid EXCEPT ![a.day] = @ + a.best]
    BY <1>5, RollDay
  <2> HIDE DEF r
  <2>2. /\ a.day \in Periods /\ a.day # Never
        /\ a.day < Period(t) /\ a.key \in Weeks
    <3>1. a.day \in Periods \cup {Never}
      BY DEF Account
    <3> QED
      BY <1>1, <1>2, <1>3, <1>5, <3>1, Fields DEF ClockInv
  <2>3. \A p \in Periods, w \in Weeks :
          p = Period(t) => a.started[<<p, w>>] = 0 /\ a.banked[<<p, w>>] = 0
    BY <1>2, <1>3, <2>2, Fields, Ranges DEF TriesInv, PaidInv
  <2>4. ClockInv(r, t)
    BY <1>2, <1>3, <2>1 DEF ClockInv, RollFacts
  <2>5. TriesInv(r, t)
    <3>1. SUFFICES ASSUME NEW p \in Periods, NEW w \in Weeks
                   PROVE  /\ r.started[<<p, w>>] <= Allowed(r, p)
                          /\ r.started[<<p, w>>] # 0
                               => p <= r.day /\ w <= r.key
                          /\ p = Period(t) /\ p = r.day /\ w = r.key
                               => r.started[<<p, w>>] + r.passes <= Allowed(r, p)
      BY DEF TriesInv
    <3>2. r.started[<<p, w>>] = a.started[<<p, w>>]
          /\ a.started[<<p, w>>] \in Nat
      BY <2>1, Fields DEF RollFacts
    <3>3. p = r.day /\ w = r.key => a.started[<<p, w>>] = 0
      BY <2>1, <2>3 DEF RollFacts
    <3>4. a.started[<<p, w>>] # 0 => p <= r.day /\ w <= r.key
      BY <1>2, <1>3, <1>5, <2>1, <2>2, <2>3, Fields, Ranges DEF TriesInv, RollFacts
    <3>5. /\ Allowed(r, p) = Allowed(a, p) /\ MaxTimes <= Allowed(a, p)
          /\ Allowed(a, p) \in Nat
      BY <2>1, AllowedFacts DEF Allowed, RollFacts
    <3>6. a.started[<<p, w>>] <= Allowed(a, p)
      BY <1>3 DEF TriesInv
    <3> QED
      BY <2>1, <3>2, <3>3, <3>4, <3>5, <3>6, Ranges DEF RollFacts
  <2>6. a.paid[a.day] = 0 /\ a.best = a.banked[<<a.day, a.key>>]
    BY <1>3, <2>2, Fields DEF PaidInv
  <2>7. \A p \in Periods :
          r.paid[p] = IF p = a.day /\ a.best >= LowestRung THEN a.best
                      ELSE a.paid[p]
    <3>1. a.paid \in [Periods -> Nat]
      BY DEF Account
    <3> QED
      BY <2>1, <2>2, <2>6, <3>1, Fields, Ranges
  <2>8. PaidInv(r)
    <3>1. ASSUME NEW p \in Periods, NEW w \in Weeks
          PROVE  /\ r.banked[<<p, w>>] # 0 => p <= r.day /\ w <= r.key
                 /\ p = r.day /\ w = r.key => r.best = r.banked[<<p, w>>]
                 /\ p < r.day /\ w = r.key /\ r.banked[<<p, w>>] >= LowestRung
                      => r.paid[p] = r.banked[<<p, w>>]
      BY <1>2, <1>3, <1>5, <2>1, <2>2, <2>3, <2>6, <2>7, Fields, Ranges
         DEF PaidInv, RollFacts
    <3>2. ASSUME NEW p \in Periods, r.paid[p] # 0
          PROVE  p < r.day /\ \E w \in Weeks : r.paid[p] = r.banked[<<p, w>>]
      BY <1>2, <1>3, <2>1, <2>2, <2>6, <2>7, <3>2, Fields, Ranges
         DEF PaidInv, RollFacts
    <3> QED
      BY <3>1, <3>2 DEF PaidInv
  <2> QED
    BY <2>1, <2>4, <2>5, <2>8 DEF AccountInv, RollFacts, r
<1>6. CASE a.key # Week(t)
  <2>1. RollFacts(a, r, t) /\ r.paid = a.paid
    BY <1>6, RollWeek
  <2> HIDE DEF r
  <2>2. a.key < Week(t) /\ a.day <= Period(t)
    BY <1>2, <1>3, <1>6, Fields DEF ClockInv
  <2>3. \A p \in Periods, w \in Weeks :
          w = Week(t) => a.started[<<p, w>>] = 0 /\ a.banked[<<p, w>>] = 0
    BY <1>2, <1>3, <2>2, Fields, Ranges DEF TriesInv, PaidInv
  <2>4. ClockInv(r, t)
    BY <1>2, <1>3, <2>1 DEF ClockInv, RollFacts
  <2>5. TriesInv(r, t)
    <3>1. SUFFICES ASSUME NEW p \in Periods, NEW w \in Weeks
                   PROVE  /\ r.started[<<p, w>>] <= Allowed(r, p)
                          /\ r.started[<<p, w>>] # 0
                               => p <= r.day /\ w <= r.key
                          /\ p = Period(t) /\ p = r.day /\ w = r.key
                               => r.started[<<p, w>>] + r.passes <= Allowed(r, p)
      BY DEF TriesInv
    <3>2. r.started[<<p, w>>] = a.started[<<p, w>>]
          /\ a.started[<<p, w>>] \in Nat
      BY <2>1, Fields DEF RollFacts
    <3>3. p = r.day /\ w = r.key => a.started[<<p, w>>] = 0
      BY <2>1, <2>3 DEF RollFacts
    <3>4. a.started[<<p, w>>] # 0 => p <= r.day /\ w <= r.key
      BY <1>2, <1>3, <2>1, <2>2, <2>3, Fields, Ranges DEF TriesInv, RollFacts
    <3>5. /\ Allowed(r, p) = Allowed(a, p) /\ MaxTimes <= Allowed(a, p)
          /\ Allowed(a, p) \in Nat
      BY <2>1, AllowedFacts DEF Allowed, RollFacts
    <3>6. a.started[<<p, w>>] <= Allowed(a, p)
      BY <1>3 DEF TriesInv
    <3> QED
      BY <2>1, <3>2, <3>3, <3>4, <3>5, <3>6, Ranges DEF RollFacts
  <2>6. PaidInv(r)
    <3>1. ASSUME NEW p \in Periods, NEW w \in Weeks
          PROVE  /\ r.banked[<<p, w>>] # 0 => p <= r.day /\ w <= r.key
                 /\ p = r.day /\ w = r.key => r.best = r.banked[<<p, w>>]
                 /\ p < r.day /\ w = r.key /\ r.banked[<<p, w>>] >= LowestRung
                      => r.paid[p] = r.banked[<<p, w>>]
      BY <1>2, <1>3, <2>1, <2>2, <2>3, Fields, Ranges
         DEF PaidInv, RollFacts
    <3>2. ASSUME NEW p \in Periods, r.paid[p] # 0
          PROVE  p < r.day /\ \E w \in Weeks : r.paid[p] = r.banked[<<p, w>>]
      BY <1>2, <1>3, <2>1, <2>2, <3>2, Fields, Ranges DEF PaidInv, RollFacts
    <3> QED
      BY <3>1, <3>2 DEF PaidInv
  <2> QED
    BY <2>1, <2>4, <2>5, <2>6 DEF AccountInv, RollFacts, r
<1> QED
  BY <1>4, <1>5, <1>6

(***************************************************************************)
(* The other changes to an account.                                        *)
(***************************************************************************)

AccountOK(a, t) == a \in Account /\ AccountInv(a, t)

(* The invariant reads the clocks, the passes and the ledger only.         *)
LEMMA SameLedger ==
  ASSUME NEW a, NEW b, NEW t, AccountInv(a, t),
         b.day = a.day, b.key = a.key, b.refilled = a.refilled,
         b.passDay = a.passDay, b.topped = a.topped,
         b.best = a.best, b.passes = a.passes, b.started = a.started,
         b.banked = a.banked, b.paid = a.paid
  PROVE  AccountInv(b, t)
  BY DEF AccountInv, ClockInv, TriesInv, PaidInv, Allowed

LEMMA BattleKeeps ==
  ASSUME NEW a, NEW t, AccountOK(a, t), NEW b \in {0, 1}
  PROVE  AccountOK([a EXCEPT !.battle = b], t)
<1> DEFINE c == [a EXCEPT !.battle = b]
<1>1. /\ c \in Account
      /\ c.day = a.day /\ c.key = a.key /\ c.refilled = a.refilled
      /\ c.passDay = a.passDay /\ c.topped = a.topped
      /\ c.best = a.best /\ c.passes = a.passes /\ c.started = a.started
      /\ c.banked = a.banked /\ c.paid = a.paid
  BY DEF AccountOK, Account
<1> HIDE DEF c
<1>2. AccountInv(c, t)
  BY <1>1, SameLedger DEF AccountOK
<1> QED
  BY <1>1, <1>2 DEF AccountOK, c

LEMMA TailKeeps ==
  ASSUME NEW a, NEW t, AccountOK(a, t), a.queue # <<>>
  PROVE  AccountOK([a EXCEPT !.queue = Tail(@)], t)
<1> DEFINE c == [a EXCEPT !.queue = Tail(@)]
<1>1. a \in Account /\ a.queue \in Seq(Periods)
  BY DEF AccountOK, Account
<1>2. Tail(a.queue) \in Seq(Periods)
  BY <1>1
<1>3. /\ c \in Account
      /\ c.day = a.day /\ c.key = a.key /\ c.refilled = a.refilled
      /\ c.passDay = a.passDay /\ c.topped = a.topped
      /\ c.best = a.best /\ c.passes = a.passes /\ c.started = a.started
      /\ c.banked = a.banked /\ c.paid = a.paid
  BY <1>1, <1>2 DEF Account
<1> HIDE DEF c
<1>4. AccountInv(c, t)
  BY <1>3, SameLedger DEF AccountOK
<1> QED
  BY <1>3, <1>4 DEF AccountOK, c

LEMMA LaterKeeps ==
  ASSUME NEW a, NEW t \in 1..Latest, t < Latest, AccountOK(a, t)
  PROVE  AccountOK(a, t + 1)
<1>1. t + 1 \in 1..Latest
  BY WeeklyAssumption DEF WeeklyAssumption
<1>2. /\ Period(t) \in Int /\ Week(t) \in Int
      /\ Period(t + 1) \in Int /\ Week(t + 1) \in Int
  BY <1>1, ClockTypes, Ranges
<1>3. Period(t) <= Period(t + 1) /\ Week(t) <= Week(t + 1)
  BY ClockMonotone
<1>4. a.day \in Int /\ a.key \in Int /\ a.passDay \in Int
  BY Fields DEF AccountOK
<1>5. ClockInv(a, t) /\ TriesInv(a, t) /\ PaidInv(a) /\ a \in Account
  BY DEF AccountOK, AccountInv
<1>6. ClockInv(a, t + 1)
  BY <1>2, <1>3, <1>4, <1>5 DEF ClockInv
<1>7. Period(t + 1) = a.day => Period(t) = a.day
  BY <1>2, <1>3, <1>4, <1>5 DEF ClockInv
<1>8. TriesInv(a, t + 1)
  BY <1>5, <1>7 DEF TriesInv
<1> QED
  BY <1>5, <1>6, <1>8 DEF AccountOK, AccountInv

(* A try is charged to the day and the week the record has been rolled to. *)
LEMMA ChargedKeeps ==
  ASSUME NEW a, NEW t \in 1..Latest, AccountOK(a, t), a.passes > 0,
         a.day = Period(t), a.key = Week(t), NEW d \in Difficulties
  PROVE  AccountOK(Charged(a, t, d), t)
<1> DEFINE c == Charged(a, t, d)
<1>1. /\ a \in Account /\ Slot(t) \in Periods \X Weeks
      /\ Period(t) \in Periods /\ Week(t) \in Weeks
  BY ClockTypes DEF AccountOK, Slot
<1>2. /\ a.passes \in 0..MaxTimes /\ a.started \in [Periods \X Weeks -> Nat]
      /\ MaxTimes \in Nat
  BY <1>1, Ranges DEF Account
<1>3. a.passes - 1 \in 0..MaxTimes
  BY <1>2
<1>4. a.started[Slot(t)] + 1 \in Nat
  BY <1>1, <1>2
<1>5. [a.started EXCEPT ![Slot(t)] = @ + 1] \in [Periods \X Weeks -> Nat]
  BY <1>1, <1>2, <1>4
<1>6. c = [a EXCEPT !.passes = @ - 1, !.pending = d,
                    !.started[Slot(t)] = @ + 1]
  BY DEF Charged
<1> HIDE DEF c
<1>7. /\ c \in Account
      /\ c.day = a.day /\ c.key = a.key /\ c.refilled = a.refilled
      /\ c.passDay = a.passDay /\ c.topped = a.topped
      /\ c.best = a.best /\ c.banked = a.banked /\ c.paid = a.paid
      /\ c.passes = a.passes - 1
      /\ c.started = [a.started EXCEPT ![Slot(t)] = @ + 1]
  BY <1>1, <1>3, <1>5, <1>6 DEF Account
<1>8. ClockInv(c, t) /\ PaidInv(c)
  <2>1. ClockInv(a, t) /\ PaidInv(a)
    BY DEF AccountOK, AccountInv
  <2>2. ClockInv(c, t)
    BY <1>7, <2>1 DEF ClockInv
  <2>3. PaidInv(c)
    BY <1>7, <2>1 DEF PaidInv
  <2> QED
    BY <2>2, <2>3
<1>9. TriesInv(c, t)
  <2>1. SUFFICES ASSUME NEW p \in Periods, NEW w \in Weeks
                 PROVE  /\ c.started[<<p, w>>] <= Allowed(c, p)
                        /\ c.started[<<p, w>>] # 0 => p <= c.day /\ w <= c.key
                        /\ p = Period(t) /\ p = c.day /\ w = c.key
                             => c.started[<<p, w>>] + c.passes <= Allowed(c, p)
    BY DEF TriesInv
  <2>2. /\ a.started[<<p, w>>] <= Allowed(a, p)
        /\ a.started[<<p, w>>] # 0 => p <= a.day /\ w <= a.key
        /\ p = Period(t) /\ p = a.day /\ w = a.key
             => a.started[<<p, w>>] + a.passes <= Allowed(a, p)
    BY DEF AccountOK, AccountInv, TriesInv
  <2>2a. Allowed(c, p) = Allowed(a, p) /\ Allowed(a, p) \in Nat
    BY <1>7, AllowedFacts DEF Allowed
  <2>3. a.started[<<p, w>>] \in Nat /\ p \in Int /\ w \in Int
    BY <1>1, Fields, Ranges
  <2>4. c.started[<<p, w>>] = IF p = Period(t) /\ w = Week(t)
                              THEN a.started[<<p, w>>] + 1
                              ELSE a.started[<<p, w>>]
    BY <1>2, <1>7 DEF Slot
  <2> QED
    BY <1>2, <1>7, <2>2, <2>2a, <2>3, <2>4
<1> QED
  BY <1>7, <1>8, <1>9 DEF AccountOK, AccountInv, c

(* A score is banked where the best score of the record is kept.           *)
LEMMA FinishedKeeps ==
  ASSUME NEW a, NEW t \in 1..Latest, AccountOK(a, t),
         a.day = Period(t), a.key = Week(t), NEW h \in Damages
  PROVE  AccountOK(Finished(a, t, h), t)
<1> DEFINE c == Finished(a, t, h)
           score == Total(h, IF a.pending = 0 THEN 1 ELSE a.pending)
           best == IF score > a.best THEN score ELSE a.best
<1>1. /\ a \in Account /\ Slot(t) \in Periods \X Weeks
      /\ Period(t) \in Periods /\ Week(t) \in Weeks
  BY ClockTypes DEF AccountOK, Slot
<1>2. /\ a.pending \in Difficulties \cup {0} /\ a.best \in Nat
      /\ a.banked \in [Periods \X Weeks -> Nat]
  BY <1>1 DEF Account
<1>3. score \in Nat
  <2>1. h \in Nat
    BY WeeklyAssumption DEF WeeklyAssumption
  <2>2. a.pending # 0 => a.pending \in Nat \ {0}
    BY <1>2, WeeklyAssumption DEF WeeklyAssumption
  <2>3. (IF a.pending = 0 THEN 1 ELSE a.pending) \in Nat \ {0}
    BY <2>2
  <2> QED
    BY <2>1, <2>3, TotalType
<1>4. a.banked[Slot(t)] = a.best
  BY <1>1 DEF AccountOK, AccountInv, PaidInv, Slot
<1>5. c = [a EXCEPT !.pending = 0, !.best = best,
                    !.banked = [@ EXCEPT ![Slot(t)] = best]]
  BY <1>4 DEF Finished
<1> HIDE DEF score, c
<1>6. best \in Nat /\ best >= a.best
  BY <1>2, <1>3
<1> HIDE DEF best
<1>7. [a.banked EXCEPT ![Slot(t)] = best] \in [Periods \X Weeks -> Nat]
  BY <1>1, <1>2, <1>6
<1>8. /\ c \in Account
      /\ c.day = a.day /\ c.key = a.key /\ c.refilled = a.refilled
      /\ c.passDay = a.passDay /\ c.topped = a.topped
      /\ c.passes = a.passes /\ c.started = a.started /\ c.paid = a.paid
      /\ c.best = best
      /\ c.banked = [a.banked EXCEPT ![Slot(t)] = best]
  BY <1>1, <1>5, <1>6, <1>7 DEF Account
<1>9. ClockInv(c, t) /\ TriesInv(c, t)
  BY <1>8 DEF AccountOK, AccountInv, ClockInv, TriesInv, Allowed
<1>10. PaidInv(c)
  <2>1. PaidInv(a)
    BY DEF AccountOK, AccountInv
  <2>2. \A p \in Periods, w \in Weeks :
          c.banked[<<p, w>>] = IF p = a.day /\ w = a.key THEN best
                               ELSE a.banked[<<p, w>>]
    BY <1>2, <1>8 DEF Slot
  <2>3. ASSUME NEW p \in Periods, NEW w \in Weeks
        PROVE  /\ c.banked[<<p, w>>] # 0 => p <= c.day /\ w <= c.key
               /\ p = c.day /\ w = c.key => c.best = c.banked[<<p, w>>]
               /\ p < c.day /\ w = c.key /\ c.banked[<<p, w>>] >= LowestRung
                    => c.paid[p] = c.banked[<<p, w>>]
    BY <1>1, <1>8, <2>1, <2>2, Ranges DEF PaidInv
  <2>4. ASSUME NEW p \in Periods, c.paid[p] # 0
        PROVE  p < c.day /\ \E w \in Weeks : c.paid[p] = c.banked[<<p, w>>]
    BY <1>1, <1>8, <2>1, <2>2, <2>4, Ranges DEF PaidInv
  <2> QED
    BY <2>3, <2>4 DEF PaidInv
<1> QED
  BY <1>8, <1>9, <1>10 DEF AccountOK, AccountInv, c

(* The login's top-up, of an account that is new to its marker today: the  *)
(* day is allowed one allowance more, and the passes are filled by no more *)
(* than that.                                                              *)
LEMMA LoginKeeps ==
  ASSUME NEW a, NEW t \in 1..Latest, AccountOK(a, t)
  PROVE  /\ AccountOK(LoginRefilled(a, t), t)
         /\ LoginRefilled(a, t).queue = a.queue
         /\ LoginRefilled(a, t).paid = a.paid
<1>1. CASE a.passDay = Period(t)
  BY <1>1 DEF LoginRefilled
<1>2. CASE a.passDay # Period(t)
  <2> DEFINE c == LoginRefilled(a, t)
             P == Period(t)
  <2>1. /\ a \in Account /\ P \in Periods /\ P \in Int
        /\ ClockInv(a, t) /\ TriesInv(a, t) /\ PaidInv(a)
    BY ClockTypes, Ranges DEF AccountOK, AccountInv
  <2>2. /\ a.passes \in 0..MaxTimes /\ MaxTimes \in Nat
        /\ Full(a.passes) = MaxTimes /\ MaxTimes \in 0..MaxTimes
        /\ a.topped \cup {P} \subseteq Periods
    BY <2>1, Ranges DEF Account, Full
  <2>3. c = [a EXCEPT !.passDay = P, !.passes = MaxTimes, !.topped = a.topped \cup {P}]
    BY <1>2, <2>1, <2>2 DEF LoginRefilled, Account
  <2> HIDE DEF c, P
  <2>4. /\ c \in Account
        /\ c.day = a.day /\ c.key = a.key /\ c.refilled = a.refilled
        /\ c.best = a.best /\ c.started = a.started
        /\ c.banked = a.banked /\ c.paid = a.paid /\ c.queue = a.queue
        /\ c.passDay = P /\ c.passes = MaxTimes /\ c.topped = a.topped \cup {P}
    BY <2>1, <2>2, <2>3 DEF Account
  <2>5. P \notin a.topped
    BY <1>2, <2>1, Fields DEF ClockInv, P
  <2>6. ClockInv(c, t)
    <3>1. \A p \in a.topped : p <= P
      BY <2>1, Fields, Ranges DEF ClockInv, P
    <3> QED
      BY <2>1, <2>4, <3>1 DEF ClockInv, P
  <2>7. PaidInv(c)
    BY <2>1, <2>4 DEF PaidInv
  <2>8. TriesInv(c, t)
    <3> SUFFICES ASSUME NEW p \in Periods, NEW w \in Weeks
                 PROVE  /\ c.started[<<p, w>>] <= Allowed(c, p)
                        /\ c.started[<<p, w>>] # 0 => p <= c.day /\ w <= c.key
                        /\ p = Period(t) /\ p = c.day /\ w = c.key
                             => c.started[<<p, w>>] + c.passes <= Allowed(c, p)
      BY DEF TriesInv
    <3>1. /\ a.started[<<p, w>>] <= Allowed(a, p)
          /\ a.started[<<p, w>>] # 0 => p <= a.day /\ w <= a.key
      BY <2>1 DEF TriesInv
    <3>2. /\ a.started[<<p, w>>] \in Nat
          /\ Allowed(a, p) \in Nat /\ Allowed(c, p) \in Nat
      BY <2>1, Fields, AllowedFacts
    <3>3. Allowed(a, p) <= Allowed(c, p)
      BY <2>2, <2>4 DEF Allowed
    <3>4. p = P => Allowed(a, p) = MaxTimes /\ Allowed(c, p) = 2 * MaxTimes
      BY <2>4, <2>5 DEF Allowed
    <3> QED
      BY <2>2, <2>4, <3>1, <3>2, <3>3, <3>4 DEF P
  <2> QED
    BY <2>4, <2>6, <2>7, <2>8 DEF AccountOK, AccountInv, c
<1> QED
  BY <1>1, <1>2

(***************************************************************************)
(* The inductive invariant of the system: both copies of the account, the  *)
(* file's and the connection's, satisfy the account's at the present time. *)
(***************************************************************************)

Inv == TypeOK /\ IInv

LEMMA Accounts ==
  ASSUME Inv
  PROVE  AccountOK(mem, now) /\ AccountOK(disk, now)
  BY DEF Inv, IInv, TypeOK, AccountOK

LEMMA RollOK ==
  ASSUME NEW a, NEW t \in 1..Latest, AccountOK(a, t)
  PROVE  LET r == Rolled(a, t)
         IN AccountOK(r, t) /\ r.day = Period(t) /\ r.key = Week(t)
  BY RollKeeps DEF AccountOK

LEMMA FreshOK == AccountOK(Fresh, 1)
<1>1. 1 \in 1..Latest
  BY WeeklyAssumption DEF WeeklyAssumption
<1>2. /\ Period(1) \in Int /\ Never < Period(1)
      /\ Week(1) \in Int /\ Never < Week(1)
  BY <1>1, ClockTypes, Ranges
<1>3. /\ Fresh.key = Never /\ Fresh.day = Never /\ Fresh.refilled = Never
      /\ Fresh.best = 0 /\ Fresh.passes = 0
      /\ Fresh.passDay = Never /\ Fresh.topped = {}
      /\ \A p \in Periods, w \in Weeks :
           Fresh.started[<<p, w>>] = 0 /\ Fresh.banked[<<p, w>>] = 0
      /\ \A p \in Periods : Fresh.paid[p] = 0
  BY DEF Fresh
<1>4. Fresh \in Account
  <2>1. 0 \in 0..DaysAWeek /\ 0 \in 0..MaxTimes
    BY WeeklyAssumption DEF WeeklyAssumption
  <2>2. <<>> \in Seq(Periods)
    OBVIOUS
  <2> QED
    BY <2>1, <2>2 DEF Fresh, Account
<1>5. ClockInv(Fresh, 1)
  BY <1>2, <1>3 DEF ClockInv, Never
<1>6. TriesInv(Fresh, 1)
  <2>1. ASSUME NEW p \in Periods, NEW w \in Weeks
        PROVE  /\ Fresh.started[<<p, w>>] <= Allowed(Fresh, p)
               /\ Fresh.started[<<p, w>>] = 0
               /\ Fresh.started[<<p, w>>] + Fresh.passes <= Allowed(Fresh, p)
    <3>1. Fresh.started[<<p, w>>] = 0 /\ Fresh.passes = 0
      BY <1>3
    <3>2. 0 <= Allowed(Fresh, p) /\ 0 + 0 <= Allowed(Fresh, p)
      BY Ranges, AllowedFacts
    <3> QED
      BY <3>1, <3>2
  <2> QED
    BY <2>1, Zenon DEF TriesInv
<1>7. PaidInv(Fresh)
  BY <1>3, Ranges DEF PaidInv
<1> QED
  BY <1>4, <1>5, <1>6, <1>7 DEF AccountOK, AccountInv

LEMMA InvInit == Init => Inv
<1> SUFFICES ASSUME Init PROVE Inv
  OBVIOUS
<1>1. AccountOK(mem, now) /\ AccountOK(disk, now)
  BY FreshOK DEF Init
<1>2. now \in 1..Latest /\ told \in [Periods -> Nat] /\ losses \in 0..MaxLosses
  BY WeeklyAssumption DEF WeeklyAssumption, Init
<1> QED
  BY <1>1, <1>2 DEF Inv, TypeOK, IInv, AccountOK, Init

(* One announcement more or less keeps the tally typed.                    *)
LEMMA ToldType ==
  ASSUME NEW f \in [Periods -> Nat], NEW p \in Periods
  PROVE  [f EXCEPT ![p] = @ + 1] \in [Periods -> Nat]
  OBVIOUS

LEMMA InvStep == Inv /\ [Next]_vars => Inv'
<1> SUFFICES ASSUME Inv, [Next]_vars PROVE Inv'
  OBVIOUS
<1> DEFINE Places == {"off", "lobby", "syncing", "starting", "fight", "ending"}
           r == Rolled(mem, now)
<1>1. AccountOK(mem, now) /\ AccountOK(disk, now)
  BY Accounts
<1>2. /\ now \in 1..Latest /\ at \in Places
      /\ told \in [Periods -> Nat] /\ losses \in 0..MaxLosses
  BY DEF Inv, TypeOK
<1>3. AccountOK(r, now) /\ r.day = Period(now) /\ r.key = Week(now)
  BY <1>1, <1>2, RollOK
<1> HIDE DEF r
<1> DEFINE Goal == /\ AccountOK(mem', now') /\ AccountOK(disk', now')
                   /\ now' \in 1..Latest /\ at' \in Places
                   /\ told' \in [Periods -> Nat] /\ losses' \in 0..MaxLosses
<1>4. SUFFICES Goal
  BY DEF Inv, IInv, TypeOK, AccountOK
<1>5. losses < MaxLosses => losses + 1 \in 0..MaxLosses
  BY <1>2, WeeklyAssumption DEF WeeklyAssumption
<1>6. CASE Sync
  BY <1>2, <1>3, <1>6 DEF Sync, Save, r
<1>7. CASE Announce
  <2>1. r.queue # <<>> /\ Save([r EXCEPT !.queue = Tail(@)]) /\ now' = now
    BY <1>7 DEF Announce, r
  <2>2. AccountOK([r EXCEPT !.queue = Tail(@)], now)
    BY <1>3, <2>1, TailKeeps
  <2>3. r.queue \in Seq(Periods)
    BY <1>3 DEF AccountOK, Account
  <2>4. Head(r.queue) \in Periods
    BY <2>1, <2>3
  <2>5. /\ told' = [told EXCEPT ![Head(r.queue)] = @ + 1] \/ told' = told
        /\ at' \in Places /\ losses' \in 0..MaxLosses
    BY <1>2, <1>5, <1>7 DEF Announce, r
  <2>6. told' \in [Periods -> Nat]
    BY <1>2, <2>4, <2>5, ToldType
  <2> QED
    BY <1>2, <2>1, <2>2, <2>5, <2>6 DEF Save
<1>8. CASE Quiet
  BY <1>1, <1>2, <1>3, <1>8 DEF Quiet, r
<1>9. CASE Look
  BY <1>1, <1>2, <1>3, <1>9 DEF Look, r
<1>10. ASSUME NEW d \in Difficulties, Start(d) PROVE Goal
  <2>1. r.passes > 0 /\ Save(Charged(r, now, d))
    BY <1>10 DEF Start, r
  <2>2. AccountOK(Charged(r, now, d), now)
    BY <1>2, <1>3, <2>1, ChargedKeeps
  <2> QED
    BY <1>2, <1>10, <2>1, <2>2 DEF Start, Save
<1>11. CASE Begin
  <2>1. AccountOK([mem EXCEPT !.battle = 1], now)
    BY <1>1, BattleKeeps
  <2> QED
    BY <1>2, <1>11, <2>1 DEF Begin, Save
<1>12. CASE Retreat
  <2>1. AccountOK([mem EXCEPT !.battle = 0], now)
    BY <1>1, BattleKeeps
  <2> QED
    BY <1>2, <1>12, <2>1 DEF Retreat, Save
<1>13. ASSUME NEW h \in Damages, Finish(h) PROVE Goal
  <2>1. Save(Finished(r, now, h))
    BY <1>13 DEF Finish, r
  <2>2. AccountOK(Finished(r, now, h), now)
    BY <1>2, <1>3, FinishedKeeps
  <2> QED
    BY <1>2, <1>13, <2>1, <2>2 DEF Finish, Save
<1>14. CASE FinishDone
  <2>1. AccountOK([mem EXCEPT !.battle = 0], now)
    BY <1>1, BattleKeeps
  <2> QED
    BY <1>2, <1>14, <2>1 DEF FinishDone, Save
<1>15. CASE Lose
  BY <1>1, <1>2, <1>5, <1>15 DEF Lose
<1>16. CASE Login
  <2> DEFINE a == LoginRefilled(disk, now)
  <2>1. AccountOK(a, now)
    BY <1>1, <1>2, LoginKeeps
  <2>2. Save(a) \/ Save([a EXCEPT !.battle = 0])
    BY <1>16 DEF Login
  <2>3. at' \in Places /\ UNCHANGED <<now, told, losses>>
    BY <1>16 DEF Login
  <2> HIDE DEF a
  <2>4. AccountOK([a EXCEPT !.battle = 0], now)
    BY <2>1, BattleKeeps
  <2> QED
    BY <1>2, <2>1, <2>2, <2>3, <2>4 DEF Save
<1>17. CASE Tick
  <2>1. now + 1 \in 1..Latest
    BY <1>2, <1>17, WeeklyAssumption DEF Tick, WeeklyAssumption
  <2>2. AccountOK(mem, now + 1) /\ AccountOK(disk, now + 1)
    BY <1>1, <1>2, <1>17, LaterKeeps DEF Tick
  <2> QED
    BY <1>2, <1>17, <2>1, <2>2 DEF Tick
<1>18. CASE UNCHANGED vars
  BY <1>1, <1>2, <1>18 DEF vars
<1>19. CASE Keep
  BY <1>1, <1>2, <1>19 DEF Keep
<1> QED
  <2> HIDE DEF Goal
  <2> QED
    BY <1>6, <1>7, <1>8, <1>9, <1>10, <1>11, <1>12, <1>13, <1>14, <1>15,
       <1>16, <1>17, <1>18, <1>19 DEF Next

LEMMA Always == Spec => []Inv
<1> QED
  BY InvInit, InvStep, PTL DEF Spec

(***************************************************************************)
(* What follows.                                                           *)
(***************************************************************************)

(* Whatever the week's length and the allowance: every variable keeps its  *)
(* range, and no pass is overdrawn or counted above the allowance, through *)
(* rolls, fights, lost connections and restores.                           *)
THEOREM TypeCorrect == Spec => []TypeOK
<1>1. Inv => TypeOK
  BY DEF Inv
<1> QED
  BY <1>1, Always, PTL

(* One day of one week never starts more tries than the allowance, or two  *)
(* of them if a login of that day topped the passes up: passes left and    *)
(* tries started together stay within it, a roll that refills the passes   *)
(* has always moved to a day and week not tried before, and the login's    *)
(* marker has not been on its day before.                                  *)
THEOREM TriesWithinAllowances == Spec => []TriesWithinTopUps
<1>1. Inv => TriesWithinTopUps
  <2> SUFFICES ASSUME Inv, NEW s \in Periods \X Weeks
               PROVE  disk.started[s] <= Allowed(disk, s[1])
    BY DEF TriesWithinTopUps, Allowed
  <2>1. PICK p \in Periods, w \in Weeks : s = <<p, w>>
    OBVIOUS
  <2> QED
    BY <2>1 DEF Inv, IInv, AccountInv, TriesInv
<1> QED
  BY <1>1, Always, PTL

(* No day is paid twice, and each is paid what it earned: a payment is for *)
(* a day before the record's, so the record's own has had none when it     *)
(* settles, and the best score it pays is the one banked that day.         *)
THEOREM PaidOnce == Spec => []PaidOnceAsEarned
<1>1. Inv => PaidOnceAsEarned
  BY DEF Inv, IInv, AccountInv, PaidInv, PaidOnceAsEarned
<1> QED
  BY <1>1, Always, PTL

(* Within one week no day that earned a reward goes unpaid.                *)
THEOREM WeekSettles == Spec => []SettledWithinWeek
<1>1. Inv => SettledWithinWeek
  <2> SUFFICES ASSUME Inv, NEW p \in Periods,
                      mem.key # Never, p < mem.day,
                      mem.banked[<<p, mem.key>>] >= LowestRung
               PROVE  mem.paid[p] = mem.banked[<<p, mem.key>>]
    BY DEF SettledWithinWeek
  <2>1. mem.key \in Weeks
    BY DEF Inv, TypeOK, Account
  <2> QED
    BY <2>1 DEF Inv, IInv, AccountInv, PaidInv
<1> QED
  BY <1>1, Always, PTL

(***************************************************************************)
(* The announcements.                                                      *)
(***************************************************************************)

(* What is queued has been paid and not been told, and is queued once; and *)
(* whatever has been told, both copies of the account have paid.           *)
QueueInv(a, tally) ==
  /\ \A i \in 1..Len(a.queue) :
       a.paid[a.queue[i]] # 0 /\ tally[a.queue[i]] = 0
  /\ \A i, j \in 1..Len(a.queue) : a.queue[i] = a.queue[j] => i = j
  /\ \A p \in Periods : tally[p] # 0 => a.paid[p] # 0

QInv ==
  /\ QueueInv(mem, told) /\ QueueInv(disk, told)
  /\ \A p \in Periods : told[p] <= 1

LEMMA RollQueue ==
  ASSUME NEW a, NEW t \in 1..Latest, AccountOK(a, t),
         NEW tally \in [Periods -> Nat], QueueInv(a, tally)
  PROVE  QueueInv(Rolled(a, t), tally)
<1> DEFINE r == Rolled(a, t)
<1>1. /\ a \in Account /\ a.queue \in Seq(Periods)
      /\ a.paid \in [Periods -> Nat] /\ a.day \in Periods \cup {Never}
      /\ ClockInv(a, t) /\ PaidInv(a)
  BY DEF AccountOK, AccountInv, Account
<1>2. CASE a.day = Period(t) /\ a.key = Week(t)
  BY <1>1, <1>2, RollSame
<1>3. CASE a.key # Week(t)
  <2>1. r.paid = a.paid /\ r.queue = a.queue
    BY <1>1, <1>3, RollWeek
  <2> HIDE DEF r
  <2>2. QueueInv(r, tally)
    BY <2>1 DEF QueueInv
  <2> QED
    BY <2>2 DEF r
<1>4. CASE a.day # Period(t) /\ a.key = Week(t)
  <2>1. /\ r.paid = IF a.day = Never \/ a.best < LowestRung THEN a.paid
                    ELSE [a.paid EXCEPT ![a.day] = @ + a.best]
        /\ r.queue = IF a.day = Never \/ a.best < LowestRung THEN a.queue
                     ELSE Append(a.queue, a.day)
    BY <1>1, <1>4, RollDay
  <2> HIDE DEF r
  <2>2. CASE a.day = Never \/ a.best < LowestRung
    <3>1. r.paid = a.paid /\ r.queue = a.queue
      BY <2>1, <2>2
    <3>2. QueueInv(r, tally)
      BY <3>1 DEF QueueInv
    <3> QED
      BY <3>2 DEF r
  <2>3. CASE ~(a.day = Never \/ a.best < LowestRung)
    <3>1. /\ a.day \in Periods /\ a.best \in Nat /\ a.best # 0
          /\ r.paid = [a.paid EXCEPT ![a.day] = @ + a.best]
          /\ r.queue = Append(a.queue, a.day)
      BY <1>1, <2>1, <2>3, Fields, Ranges
    <3>2. a.paid[a.day] = 0
      BY <1>1, <3>1, Fields DEF PaidInv
    <3>3. tally[a.day] = 0
      BY <3>1, <3>2 DEF QueueInv
    <3>4. /\ r.paid[a.day] # 0
          /\ \A p \in Periods : a.paid[p] # 0 => r.paid[p] # 0
      BY <1>1, <3>1, <3>2
    <3>5. /\ Len(r.queue) = Len(a.queue) + 1 /\ Len(a.queue) \in Nat
          /\ r.queue[Len(a.queue) + 1] = a.day
          /\ \A i \in 1..Len(a.queue) :
               r.queue[i] = a.queue[i] /\ a.queue[i] \in Periods
      <4>1. \A i \in 1..Len(a.queue) : a.queue[i] \in Periods
        BY <1>1
      <4>2. a.queue \in Seq(Periods) /\ a.day \in Periods
        BY <1>1, <3>1
      <4>3. /\ Len(Append(a.queue, a.day)) = Len(a.queue) + 1
            /\ Len(a.queue) \in Nat
            /\ Append(a.queue, a.day)[Len(a.queue) + 1] = a.day
            /\ \A i \in 1..Len(a.queue) :
                 Append(a.queue, a.day)[i] = a.queue[i]
        BY <4>2
      <4> QED
        BY <3>1, <4>1, <4>3
    <3>6. \A i \in 1..Len(a.queue) : r.queue[i] # a.day
      BY <3>2, <3>5 DEF QueueInv
    <3>7. \A i \in 1..Len(r.queue) :
            i \in 1..Len(a.queue) \/ i = Len(a.queue) + 1
      BY <3>5
    <3>8. \A i \in 1..Len(r.queue) :
            r.paid[r.queue[i]] # 0 /\ tally[r.queue[i]] = 0
      <4> SUFFICES ASSUME NEW i \in 1..Len(r.queue)
                   PROVE  r.paid[r.queue[i]] # 0 /\ tally[r.queue[i]] = 0
        OBVIOUS
      <4>1. CASE i = Len(a.queue) + 1
        BY <3>3, <3>4, <3>5, <4>1
      <4>2. CASE i \in 1..Len(a.queue)
        <5>1. r.queue[i] = a.queue[i] /\ a.queue[i] \in Periods
          BY <3>5, <4>2
        <5>2. a.paid[a.queue[i]] # 0 /\ tally[a.queue[i]] = 0
          BY <4>2 DEF QueueInv
        <5> QED
          BY <3>4, <5>1, <5>2
      <4> QED
        BY <3>7, <4>1, <4>2
    <3>9. \A i, j \in 1..Len(r.queue) : r.queue[i] = r.queue[j] => i = j
      BY <3>5, <3>6, <3>7 DEF QueueInv
    <3>10. \A p \in Periods : tally[p] # 0 => r.paid[p] # 0
      BY <3>4 DEF QueueInv
    <3>11. QueueInv(r, tally)
      BY <3>8, <3>9, <3>10 DEF QueueInv
    <3> QED
      BY <3>11 DEF r
  <2> QED
    BY <2>2, <2>3
<1> QED
  BY <1>2, <1>3, <1>4

(* Taking the head off the queue and telling it, or losing it on the way.  *)
LEMMA TailQueue ==
  ASSUME NEW a \in Account, NEW tally \in [Periods -> Nat],
         QueueInv(a, tally), a.queue # <<>>
  PROVE  LET b == [a EXCEPT !.queue = Tail(@)]
             h == Head(a.queue)
         IN /\ QueueInv(b, tally)
            /\ QueueInv(b, [tally EXCEPT ![h] = @ + 1])
            /\ h \in Periods /\ tally[h] = 0
<1> DEFINE b == [a EXCEPT !.queue = Tail(@)]
           h == Head(a.queue)
           more == [tally EXCEPT ![h] = @ + 1]
<1>1. a.queue \in Seq(Periods) /\ a.paid \in [Periods -> Nat]
  BY DEF Account
<1>2. b.paid = a.paid /\ b.queue = Tail(a.queue)
  BY DEF Account
<1> HIDE DEF b
<1>3. /\ Len(a.queue) \in Nat /\ Len(a.queue) # 0
      /\ h = a.queue[1] /\ h \in Periods
      /\ Len(b.queue) = Len(a.queue) - 1
      /\ \A i \in 1..Len(b.queue) : b.queue[i] = a.queue[i + 1]
  BY <1>1, <1>2
<1> HIDE DEF h
<1>4. \A i \in 1..Len(b.queue) : i + 1 \in 1..Len(a.queue) /\ i + 1 # 1
  BY <1>3
<1>5. tally[h] = 0 /\ a.paid[h] # 0 /\ 1 \in 1..Len(a.queue)
  BY <1>3 DEF QueueInv
<1>6. QueueInv(b, tally)
  <2>1. \A i \in 1..Len(b.queue) :
          b.paid[b.queue[i]] # 0 /\ tally[b.queue[i]] = 0
    BY <1>2, <1>3, <1>4 DEF QueueInv
  <2>2. \A i, j \in 1..Len(b.queue) : b.queue[i] = b.queue[j] => i = j
    <3> SUFFICES ASSUME NEW i \in 1..Len(b.queue), NEW j \in 1..Len(b.queue),
                        b.queue[i] = b.queue[j]
                 PROVE  i = j
      OBVIOUS
    <3>1. i + 1 = j + 1
      BY <1>3, <1>4 DEF QueueInv
    <3> QED
      BY <1>3, <3>1
  <2> QED
    BY <1>2, <2>1, <2>2 DEF QueueInv
<1>7. \A i \in 1..Len(b.queue) : b.queue[i] # h
  BY <1>3, <1>4, <1>5 DEF QueueInv
<1>8. /\ \A p \in Periods : p # h => more[p] = tally[p]
      /\ \A i \in 1..Len(b.queue) : b.queue[i] \in Periods
  <2>1. \A i \in 1..Len(a.queue) : a.queue[i] \in Periods
    BY <1>1
  <2>2. \A i \in 1..Len(b.queue) : b.queue[i] \in Periods
    BY <1>3, <1>4, <2>1
  <2>3. \A p \in Periods : p # h => more[p] = tally[p]
    OBVIOUS
  <2> QED
    BY <2>2, <2>3
<1> HIDE DEF more
<1>9. QueueInv(b, more)
  <2>1. \A i \in 1..Len(b.queue) :
          b.paid[b.queue[i]] # 0 /\ more[b.queue[i]] = 0
    BY <1>6, <1>7, <1>8 DEF QueueInv
  <2>2. \A p \in Periods : more[p] # 0 => b.paid[p] # 0
    BY <1>2, <1>5, <1>6, <1>8 DEF QueueInv
  <2> QED
    BY <1>6, <2>1, <2>2 DEF QueueInv
<1> QED
  BY <1>3, <1>5, <1>6, <1>9 DEF b, h, more

LEMMA SameQueue ==
  ASSUME NEW a, NEW b, NEW tally, QueueInv(a, tally),
         b.queue = a.queue, b.paid = a.paid
  PROVE  QueueInv(b, tally)
  BY DEF QueueInv

LEMMA QueueInit == Init => QInv
<1> SUFFICES ASSUME Init PROVE QInv
  OBVIOUS
<1>1. \A p \in Periods : told[p] = 0
  BY DEF Init
<1>2. Fresh.queue = <<>>
  BY DEF Fresh
<1>3. mem.queue = <<>> /\ disk.queue = <<>>
  BY <1>2 DEF Init
<1>4. Len(mem.queue) = 0 /\ Len(disk.queue) = 0
  BY <1>3
<1>5. QueueInv(mem, told) /\ QueueInv(disk, told)
  BY <1>1, <1>4 DEF QueueInv
<1> QED
  BY <1>1, <1>5 DEF QInv

LEMMA QueueStep == Inv /\ QInv /\ [Next]_vars => QInv'
<1> SUFFICES ASSUME Inv, QInv, [Next]_vars PROVE QInv'
  OBVIOUS
<1> DEFINE r == Rolled(mem, now)
<1>1. AccountOK(mem, now) /\ AccountOK(disk, now)
  BY Accounts
<1>2. now \in 1..Latest /\ told \in [Periods -> Nat]
  BY DEF Inv, TypeOK
<1>3. AccountOK(r, now)
  BY <1>1, <1>2, RollOK
<1>4. /\ QueueInv(mem, told) /\ QueueInv(disk, told)
      /\ \A p \in Periods : told[p] <= 1
  BY DEF QInv
<1>5. QueueInv(r, told)
  BY <1>1, <1>2, <1>4, RollQueue
<1>6. mem \in Account /\ disk \in Account /\ r \in Account
  BY <1>1, <1>3 DEF AccountOK
<1> HIDE DEF r
<1>7. CASE Sync
  BY <1>4, <1>5, <1>7 DEF Sync, Save, QInv, r
<1>8. CASE Announce
  <2> DEFINE b == [r EXCEPT !.queue = Tail(@)]
             h == Head(r.queue)
             more == [told EXCEPT ![h] = @ + 1]
  <2>1. /\ r.queue # <<>> /\ mem' = b /\ disk' = b
        /\ told' = more \/ told' = told
    BY <1>8 DEF Announce, Save, r
  <2>2. /\ QueueInv(b, told) /\ QueueInv(b, more)
        /\ h \in Periods /\ told[h] = 0
    BY <1>2, <1>5, <1>6, <2>1, TailQueue
  <2>3. \A p \in Periods : more[p] <= 1
    BY <1>2, <1>4, <2>2
  <2> HIDE DEF b, more
  <2> QED
    BY <1>4, <2>1, <2>2, <2>3 DEF QInv
<1>9. CASE Quiet
  BY <1>4, <1>5, <1>9 DEF Quiet, QInv, r
<1>10. CASE Look
  BY <1>4, <1>5, <1>10 DEF Look, QInv, r
<1>11. ASSUME NEW d \in Difficulties, Start(d) PROVE QInv'
  <2> DEFINE c == Charged(r, now, d)
  <2>1. mem' = c /\ disk' = c /\ told' = told
    BY <1>11 DEF Start, Save, r
  <2>2. c.queue = r.queue /\ c.paid = r.paid
    BY <1>6 DEF Charged, Account
  <2> HIDE DEF c
  <2>3. QueueInv(c, told)
    BY <1>5, <2>2, SameQueue
  <2> QED
    BY <1>4, <2>1, <2>3 DEF QInv
<1>12. ASSUME NEW h \in Damages, Finish(h) PROVE QInv'
  <2> DEFINE c == Finished(r, now, h)
  <2>1. mem' = c /\ disk' = c /\ told' = told
    BY <1>12 DEF Finish, Save, r
  <2>2. c.queue = r.queue /\ c.paid = r.paid
    BY <1>6 DEF Finished, Account
  <2> HIDE DEF c
  <2>3. QueueInv(c, told)
    BY <1>5, <2>2, SameQueue
  <2> QED
    BY <1>4, <2>1, <2>3 DEF QInv
<1>13. ASSUME NEW a \in Account, QueueInv(a, told), NEW b \in {0, 1}
       PROVE  QueueInv([a EXCEPT !.battle = b], told)
  <2> DEFINE c == [a EXCEPT !.battle = b]
  <2>1. c.queue = a.queue /\ c.paid = a.paid
    BY DEF Account
  <2> HIDE DEF c
  <2>2. QueueInv(c, told)
    BY <1>13, <2>1, SameQueue
  <2> QED
    BY <2>2 DEF c
<1>14. /\ QueueInv([mem EXCEPT !.battle = 1], told)
       /\ QueueInv([mem EXCEPT !.battle = 0], told)
  BY <1>4, <1>6, <1>13
<1>15. CASE Begin
  BY <1>4, <1>14, <1>15 DEF Begin, Save, QInv
<1>16. CASE Retreat
  BY <1>4, <1>14, <1>16 DEF Retreat, Save, QInv
<1>17. CASE FinishDone
  BY <1>4, <1>14, <1>17 DEF FinishDone, Save, QInv
<1>18. CASE Login
  <2> DEFINE a == LoginRefilled(disk, now)
  <2>1. /\ a \in Account /\ a.queue = disk.queue /\ a.paid = disk.paid
        /\ Save(a) \/ Save([a EXCEPT !.battle = 0])
        /\ told' = told
    BY <1>1, <1>2, <1>18, LoginKeeps DEF AccountOK, Login
  <2> HIDE DEF a
  <2>2. QueueInv(a, told)
    BY <1>4, <2>1, SameQueue
  <2>3. QueueInv([a EXCEPT !.battle = 0], told)
    BY <1>13, <2>1, <2>2
  <2> QED
    BY <1>4, <2>1, <2>2, <2>3 DEF Save, QInv
<1>19. CASE Lose \/ Tick \/ Keep \/ UNCHANGED vars
  BY <1>4, <1>19 DEF Lose, Tick, Keep, vars, QInv
<1> QED
  BY <1>7, <1>8, <1>9, <1>10, <1>11, <1>12, <1>15, <1>16, <1>17, <1>18, <1>19
     DEF Next

(* The popup tells of a day once, and only of a payment the file keeps.    *)
THEOREM ToldOfWhatIsKept == Spec => []ToldOnce
<1>1. Inv /\ QInv /\ [Next]_vars => (Inv /\ QInv)'
  BY InvStep, QueueStep
<1>2. Inv /\ QInv => ToldOnce
  BY DEF QInv, QueueInv, ToldOnce
<1> QED
  BY InvInit, QueueInit, <1>1, <1>2, PTL DEF Spec

-----------------------------------------------------------------------------
(* The guild beside the raid, for any ladder that climbs: it takes nothing *)
(* from what is proved of the raid, and pays a day once.                   *)

(* With the guild beside it the raid makes the steps it makes alone, so    *)
(* all that is shown of Spec here holds of GuildSpec.                      *)
THEOREM RaidUnchanged == GuildSpec => Spec
<1>1. GuildInit => Init
  BY DEF GuildInit
<1>2. [GuildNext]_<<vars, guildVars>> => [Next]_vars
  <2>1. GuildNext => [Next]_vars
    BY DEF GuildNext, GuildRequest, Next
  <2>2. UNCHANGED <<vars, guildVars>> => UNCHANGED vars
    OBVIOUS
  <2> QED
    BY <2>1, <2>2
<1> QED
  BY <1>1, <1>2, PTL DEF GuildSpec, Spec

(***************************************************************************)
(* The register of the day.                                                *)
(***************************************************************************)

Guilds == [day : Periods, sum : Nat, paid : Nat, signed : BOOLEAN]

(* A guild that has signed today has been paid every rung its one sign-in  *)
(* reaches.                                                                *)
GuildOK(g) ==
  /\ g \in Guilds
  /\ ~g.signed => g.sum = 0
  /\ g.signed => g.sum = 1
  /\ g.signed => \A i \in DOMAIN SignLimits : SignLimits[i] <= 1 => i <= g.paid

(* A sign-in of period p may still be paid for: none for the days gone by. *)
Owed(p) ==
  IF guild = <<>> \/ p < Period(now) THEN 0
  ELSE IF guild[1].day = p /\ guild[1].signed THEN 0 ELSE 1

GInv ==
  /\ now \in 1..Latest
  /\ guild = <<>> \/ \E g \in Guilds : guild = <<g>> /\ GuildOK(g) /\ g.day <= Period(now)
  /\ signs \in [Periods -> Nat] /\ founded \in [Periods -> Nat]
  /\ \A p \in Periods : signs[p] + Owed(p) <= 1 + founded[p]
  /\ \A p \in Periods : p > Period(now) => signs[p] = 0

LEMMA LadderFacts ==
  ASSUME NEW i \in DOMAIN SignLimits, NEW j \in DOMAIN SignLimits,
         SignLimits[i] <= 1, SignLimits[j] <= 1
  PROVE  i = j
<1>1. DOMAIN SignLimits = 1..Len(SignLimits) /\ Len(SignLimits) \in Nat
  BY GuildAssumption DEF GuildAssumption
<1>2. i \in Nat /\ j \in Nat /\ SignLimits[i] \in Nat \ {0} /\ SignLimits[j] \in Nat \ {0}
  BY <1>1, GuildAssumption DEF GuildAssumption
<1> QED
  BY <1>2, LadderAssumption DEF LadderAssumption

(* The rung a first sign-in of the day reaches, if any.                    *)
LEMMA EarnedFacts ==
  ASSUME NEW paid \in Nat
  PROVE  LET earned == {i \in DOMAIN SignLimits : i > paid /\ SignLimits[i] <= 1}
         IN \/ earned = {} /\ Cardinality(earned) = 0
            \/ \E k \in DOMAIN SignLimits :
                 /\ earned = {k} /\ Max(earned) = k /\ Cardinality(earned) = 1
                 /\ SignLimits[k] <= 1
<1> DEFINE earned == {i \in DOMAIN SignLimits : i > paid /\ SignLimits[i] <= 1}
<1>1. CASE earned = {}
  BY <1>1, FS_EmptySet
<1>2. ASSUME NEW k \in earned PROVE earned = {k} /\ SignLimits[k] <= 1
  BY LadderFacts
<1>3. ASSUME NEW k \in earned, earned = {k} PROVE Max(earned) = k
  <2>1. k \in Nat
    BY GuildAssumption DEF GuildAssumption
  <2> QED
    BY <1>3, <2>1 DEF Max
<1>4. ASSUME NEW k \in earned, earned = {k} PROVE Cardinality(earned) = 1
  BY <1>4, FS_Singleton
<1> QED
  BY <1>1, <1>2, <1>3, <1>4

LEMMA NewGuildOK ==
  ASSUME now \in 1..Latest
  PROVE  GuildOK(NewGuild) /\ NewGuild.day = Period(now) /\ ~NewGuild.signed
<1>1. Period(now) \in Periods /\ Len(SignLimits) \in Nat
  BY ClockTypes, GuildAssumption DEF GuildAssumption
<1> QED
  BY <1>1 DEF GuildOK, Guilds, NewGuild

LEMMA SignDayOK ==
  ASSUME now \in 1..Latest, NEW g, GuildOK(g)
  PROVE  /\ GuildOK(SignDay(g)) /\ SignDay(g).day = Period(now)
         /\ SignDay(g).signed <=> g.day = Period(now) /\ g.signed
<1>1. Period(now) \in Periods /\ Len(SignLimits) \in Nat
  BY ClockTypes, GuildAssumption DEF GuildAssumption
<1>2. g \in Guilds
  BY DEF GuildOK
<1>3. CASE g.day = Period(now)
  BY <1>3 DEF SignDay
<1>4. CASE g.day # Period(now)
  <2> DEFINE d == SignDay(g)
  <2>1. d = [g EXCEPT !.day = Period(now), !.sum = 0, !.paid = 0, !.signed = FALSE]
    BY <1>4 DEF SignDay
  <2> HIDE DEF d
  <2>2. /\ d \in Guilds /\ d.day = Period(now)
        /\ d.sum = 0 /\ d.signed = FALSE
    BY <1>1, <1>2, <2>1 DEF Guilds
  <2>3. GuildOK(d) /\ d.day = Period(now) /\ ~d.signed
    BY <2>2 DEF GuildOK
  <2> QED
    BY <1>4, <2>3 DEF d
<1> QED
  BY <1>3, <1>4

LEMMA SignFacts ==
  ASSUME GInv, Sign
  PROVE  \E g \in Guilds, h \in Guilds, n \in 0..1 :
           /\ guild = <<g>> /\ guild' = <<h>> /\ GuildOK(h)
           /\ h.day = Period(now) /\ h.signed
           /\ g.day = Period(now) /\ g.signed => n = 0
           /\ signs' = [signs EXCEPT ![Period(now)] = @ + n]
<1>1. guild # <<>>
  BY DEF Sign
<1>2. PICK g \in Guilds : guild = <<g>> /\ GuildOK(g)
  BY <1>1 DEF GInv
<1>3. {guild[i] : i \in DOMAIN guild} = {g}
  BY <1>2
<1> DEFINE d == SignDay(g)
           sum == IF d.signed THEN d.sum ELSE d.sum + 1
           earned == {i \in DOMAIN SignLimits : i > d.paid /\ SignLimits[i] <= sum}
           h == [d EXCEPT !.signed = TRUE, !.sum = sum,
                          !.paid = IF earned = {} THEN @ ELSE Max(earned)]
<1>4. guild' = <<h>> /\ signs' = [signs EXCEPT ![Period(now)] = @ + Cardinality(earned)]
  <2>1. {SignDay(x) : x \in {guild[i] : i \in DOMAIN guild}} = {d}
    BY <1>3
  <2>2. \E x \in {d} :
          LET s == IF x.signed THEN x.sum ELSE x.sum + 1
              e == {i \in DOMAIN SignLimits : i > x.paid /\ SignLimits[i] <= s}
          IN /\ guild' = <<[x EXCEPT !.signed = TRUE, !.sum = s,
                                     !.paid = IF e = {} THEN @ ELSE Max(e)]>>
             /\ signs' = [signs EXCEPT ![Period(now)] = @ + Cardinality(e)]
    BY <2>1 DEF Sign
  <2> QED
    BY <2>2
<1>5. /\ GuildOK(d) /\ d.day = Period(now)
      /\ d.signed <=> g.day = Period(now) /\ g.signed
  BY <1>2, SignDayOK DEF GInv
<1> HIDE DEF d
<1>6. sum = 1 /\ d \in Guilds /\ d.paid \in Nat
  BY <1>5, GuildAssumption DEF GuildOK, Guilds, GuildAssumption
<1>7. earned = {i \in DOMAIN SignLimits : i > d.paid /\ SignLimits[i] <= 1}
  BY <1>6
<1>8. \/ earned = {} /\ Cardinality(earned) = 0
      \/ \E k \in DOMAIN SignLimits :
           /\ earned = {k} /\ Max(earned) = k /\ Cardinality(earned) = 1
           /\ SignLimits[k] <= 1
  BY <1>6, <1>7, EarnedFacts
<1>9. d.signed => earned = {}
  BY <1>5, <1>6, <1>7, GuildAssumption DEF GuildOK, GuildAssumption
<1> DEFINE top == IF earned = {} THEN d.paid ELSE Max(earned)
<1>10. /\ top \in Nat
       /\ \A i \in DOMAIN SignLimits : SignLimits[i] <= 1 => i <= top
  <2>1. DOMAIN SignLimits = 1..Len(SignLimits) /\ Len(SignLimits) \in Nat
    BY GuildAssumption DEF GuildAssumption
  <2>2. CASE earned = {}
    <3>1. \A i \in DOMAIN SignLimits : SignLimits[i] <= 1 => ~(i > d.paid)
      BY <1>7, <2>2
    <3> QED
      BY <1>6, <2>1, <2>2, <3>1
  <2>3. ASSUME NEW k \in DOMAIN SignLimits, earned = {k}, Max(earned) = k, SignLimits[k] <= 1
        PROVE  top = k /\ k \in Nat
               /\ \A i \in DOMAIN SignLimits : SignLimits[i] <= 1 => i <= k
    <3>1. k \in Nat
      BY <2>1
    <3>2. \A i \in DOMAIN SignLimits : SignLimits[i] <= 1 => i = k
      BY <2>3, LadderFacts
    <3> QED
      BY <2>3, <3>1, <3>2
  <2> HIDE DEF top, earned
  <2> QED
    BY <1>8, <2>2, <2>3
<1> HIDE DEF earned, sum
<1>11. GuildOK(h) /\ h \in Guilds /\ h.day = Period(now) /\ h.signed
  <2> HIDE DEF top
  <2>1. h = [d EXCEPT !.day = Period(now), !.sum = 1, !.paid = top, !.signed = TRUE]
    BY <1>5, <1>6 DEF top, Guilds
  <2> HIDE DEF h
  <2>2. /\ h \in Guilds /\ h.day = Period(now) /\ h.signed = TRUE
        /\ h.sum = 1 /\ h.paid = top
    BY <1>6, <1>10, <2>1, ClockTypes DEF GInv, Guilds
  <2> QED
    BY <1>10, <2>2 DEF GuildOK
<1> HIDE DEF h
<1>12. Cardinality(earned) \in 0..1 /\ (g.day = Period(now) /\ g.signed => Cardinality(earned) = 0)
  BY <1>5, <1>8, <1>9
<1> QED
  BY <1>2, <1>4, <1>11, <1>12

LEMMA GInvInit == GuildInit => GInv
<1> SUFFICES ASSUME GuildInit PROVE GInv
  OBVIOUS
<1>1. now = 1 /\ guild = <<>> /\ signs = [p \in Periods |-> 0]
      /\ founded = [p \in Periods |-> 0]
  BY DEF GuildInit, Init
<1>2. \A p \in Periods : Owed(p) = 0
  BY <1>1 DEF Owed
<1> QED
  BY <1>1, <1>2, WeeklyAssumption DEF GInv, WeeklyAssumption

(* What the raid does touches the clock of the guild at most.              *)
LEMMA RaidStep ==
  Next /\ UNCHANGED guildVars =>
    UNCHANGED <<now, guildVars>> \/ (Tick /\ UNCHANGED guildVars)
  BY DEF Next, Sync, Announce, Quiet, Look, Keep, Start, Begin, Retreat, Finish,
         FinishDone, Lose, Login

LEMMA GInvStep == GInv /\ [GuildNext]_<<vars, guildVars>> => GInv'
<1> SUFFICES ASSUME GInv, [GuildNext]_<<vars, guildVars>> PROVE GInv'
  OBVIOUS
<1> DEFINE P == Period(now)
<1>1. /\ now \in 1..Latest /\ P \in Periods
      /\ signs \in [Periods -> Nat] /\ founded \in [Periods -> Nat]
      /\ \A p \in Periods : p \in Int
  BY ClockTypes, Ranges DEF GInv
<1>2. \A p \in Periods : Owed(p) \in 0..1 /\ signs[p] + Owed(p) <= 1 + founded[p]
      /\ (p > P => signs[p] = 0)
  BY DEF GInv, Owed
<1>3. CASE UNCHANGED <<now, guildVars>>
  BY <1>3 DEF GInv, Owed, guildVars, Period
<1>4. CASE Tick /\ UNCHANGED guildVars
  <2>1. now' = now + 1 /\ now' \in 1..Latest /\ P <= Period(now')
    BY <1>1, <1>4, ClockMonotone, WeeklyAssumption DEF Tick, WeeklyAssumption
  <2>2. Period(now') \in Periods
    BY <2>1, ClockTypes
  <2>3. guild' = guild /\ signs' = signs /\ founded' = founded
    BY <1>4 DEF guildVars
  <2>4. \A p \in Periods : Owed(p)' = IF p < Period(now') THEN 0 ELSE Owed(p)
    BY <1>1, <2>1, <2>2, <2>3 DEF Owed
  <2>5. guild' = <<>> \/ \E g \in Guilds : guild' = <<g>> /\ GuildOK(g) /\ g.day <= Period(now')
    BY <1>1, <2>1, <2>2, <2>3 DEF GInv, Guilds
  <2>6. \A p \in Periods : signs'[p] + Owed(p)' <= 1 + founded'[p]
    BY <1>1, <1>2, <2>3, <2>4
  <2>7. \A p \in Periods : p > Period(now') => signs'[p] = 0
    BY <1>1, <1>2, <2>1, <2>2, <2>3
  <2> QED
    BY <1>1, <2>1, <2>3, <2>5, <2>6, <2>7 DEF GInv
<1>5. CASE Found /\ Keep
  <2>1. /\ now' = now /\ guild = <<>> /\ guild' = <<NewGuild>> /\ signs' = signs
        /\ founded' = [founded EXCEPT ![P] = @ + 1]
    BY <1>5 DEF Found, Keep
  <2>2. GuildOK(NewGuild) /\ NewGuild \in Guilds /\ NewGuild.day = P /\ ~NewGuild.signed
    BY <1>1, NewGuildOK DEF GuildOK
  <2>3. \A p \in Periods : Owed(p)' = IF p < P THEN 0 ELSE 1
    BY <2>1, <2>2 DEF Owed, Period
  <2>4. \A p \in Periods : signs'[p] + Owed(p)' <= 1 + founded'[p]
    <3> SUFFICES ASSUME NEW p \in Periods PROVE signs[p] + Owed(p)' <= 1 + founded'[p]
      BY <2>1
    <3>1. /\ p \in Int /\ P \in Int /\ signs[p] \in Nat /\ founded[p] \in Nat
          /\ signs[p] <= 1 + founded[p] /\ (p > P => signs[p] = 0)
          /\ founded'[p] = IF p = P THEN founded[p] + 1 ELSE founded[p]
      BY <1>1, <1>2, <2>1
    <3> QED
      BY <2>3, <3>1
  <2>5. founded' \in [Periods -> Nat]
    BY <1>1, <2>1
  <2> QED
    BY <1>1, <1>2, <2>1, <2>2, <2>4, <2>5 DEF GInv, Period
<1>6. CASE Quit /\ Keep
  <2>1. now' = now /\ guild' = <<>> /\ signs' = signs /\ founded' = founded
    BY <1>6 DEF Quit, Keep
  <2>2. \A p \in Periods : Owed(p)' = 0
    BY <2>1 DEF Owed
  <2> QED
    BY <1>1, <1>2, <2>1, <2>2 DEF GInv, Period
<1>7. CASE Sign /\ Keep
  <2>1. PICK g \in Guilds, h \in Guilds, n \in 0..1 :
          /\ guild = <<g>> /\ guild' = <<h>> /\ GuildOK(h)
          /\ h.day = P /\ h.signed
          /\ g.day = P /\ g.signed => n = 0
          /\ signs' = [signs EXCEPT ![P] = @ + n]
    BY <1>7, SignFacts
  <2>2. now' = now /\ founded' = founded
    BY <1>7 DEF Sign, Keep
  <2>3. \A p \in Periods : Owed(p)' = IF p <= P THEN 0 ELSE 1
    BY <1>1, <2>1, <2>2 DEF Owed, Period
  <2>4. Owed(P) = IF g.day = P /\ g.signed THEN 0 ELSE 1
    BY <1>1, <2>1 DEF Owed
  <2>5. signs' \in [Periods -> Nat]
    BY <1>1, <2>1
  <2>6. \A p \in Periods : signs'[p] + Owed(p)' <= 1 + founded'[p]
    BY <1>1, <1>2, <2>1, <2>2, <2>3, <2>4
  <2>7. \A p \in Periods : p > P => signs'[p] = 0
    BY <1>1, <1>2, <2>1
  <2> QED
    BY <1>1, <2>1, <2>2, <2>5, <2>6, <2>7 DEF GInv, Period
<1>8. CASE ShowGuild /\ at = "lobby" /\ UNCHANGED vars
  <2>1. /\ now' = now /\ guild # <<>> /\ guild' = <<SignDay(guild[1])>>
        /\ signs' = signs /\ founded' = founded
    BY <1>8 DEF ShowGuild, vars
  <2>2. PICK g \in Guilds : guild = <<g>> /\ GuildOK(g) /\ g.day <= P
    BY <2>1 DEF GInv
  <2> DEFINE h == SignDay(g)
  <2>3. /\ GuildOK(h) /\ h \in Guilds /\ h.day = P
        /\ h.signed <=> g.day = P /\ g.signed
    BY <1>1, <2>2, SignDayOK DEF GuildOK
  <2>4. guild' = <<h>>
    BY <2>1, <2>2
  <2> HIDE DEF h
  <2>5. ASSUME NEW p \in Periods PROVE Owed(p)' = Owed(p)
    <3>1. p \in Int /\ P \in Int /\ g.day \in Int /\ g.day <= P
      BY <1>1, <2>2 DEF Guilds
    <3>2. Owed(p)' = IF p < P THEN 0 ELSE IF h.day = p /\ h.signed THEN 0 ELSE 1
      BY <2>1, <2>4 DEF Owed, Period
    <3>3. Owed(p) = IF p < P THEN 0 ELSE IF g.day = p /\ g.signed THEN 0 ELSE 1
      BY <2>2 DEF Owed
    <3>4. ~(p < P) => (h.day = p /\ h.signed <=> g.day = p /\ g.signed)
      BY <2>3, <3>1
    <3> QED
      BY <3>2, <3>3, <3>4
  <2> QED
    BY <1>1, <1>2, <2>1, <2>3, <2>4, <2>5 DEF GInv, Period
<1> QED
  BY <1>3, <1>4, <1>5, <1>6, <1>7, <1>8, RaidStep
     DEF GuildNext, GuildRequest, vars, guildVars

(* However often the panel is opened, and whenever the guild is left and   *)
(* founded again, a day pays one sign-in and one more per founding.        *)
THEOREM SignedOnce == GuildSpec => []SignedOncePerGuild
<1>1. GInv => SignedOncePerGuild
  <2> SUFFICES ASSUME GInv, NEW p \in Periods PROVE signs[p] <= 1 + founded[p]
    BY DEF SignedOncePerGuild
  <2>1. Owed(p) \in 0..1 /\ signs[p] + Owed(p) <= 1 + founded[p]
        /\ signs[p] \in Nat /\ founded[p] \in Nat
    BY DEF GInv, Owed
  <2> QED
    BY <2>1
<1> QED
  BY GInvInit, GInvStep, <1>1, PTL DEF GuildSpec

=============================================================================
