------------------------------ MODULE Statuses ------------------------------
(***************************************************************************)
(* What a status does to the unit that holds it: engine/status.py, and the *)
(* part of engine/formula.py that reads it.  The registry's prose is       *)
(* parsed once per status; here its result is the row of the status.       *)
(*                                                                         *)
(* The field is a record: hp, st (what remains of a status, 0 when it is   *)
(* not held), shield (what a held shield still absorbs), goad (who taunted *)
(* the unit), scv (the move gauge) and fired (the passives that had their  *)
(* one time).  Health and damage are small numbers.                        *)
(***************************************************************************)
EXTENDS Integers, SequencesExt

CONSTANTS
  Seating,    \* order keys of the field, in the order of Battle.units
  Team,       \* [order -> team]
  MaxHp,
  Nobody,     \* no unit, no status, no skill
  Statuses,
  StatusRow   \* [Statuses -> StatusRows]

Orders == Range(Seating)
Always == -1     \* a permanent status: remaining None, ROUND_PERMANENT
DefaultDuration == 2
ScvFull == 8     \* SCV_FULL, in gauge points

StatusRows ==
  [category : {"buff", "debuff", "shield", "other"}, fixed : BOOLEAN, \* unremovable
   stopsGain : BOOLEAN, stopsLoss : BOOLEAN, stopsHeal : BOOLEAN, stopsCd : BOOLEAN,
   skips : BOOLEAN,             \* SKIPS_TURN_NAMES
   dot : Nat, hot : Nat, thorns : Nat, shield : Nat,
   dealt : Int, taken : Int,    \* what a strike of, or on, the holder gains
   wards : SUBSET Statuses,     \* what the holder is immune to
   grants : SUBSET Statuses, drops : SUBSET Statuses, own : BOOLEAN,
   seals : SUBSET Nat,
   lure : {"any", "allies", "taunt", "none"}, basicOnly : BOOLEAN]

StatusesAssumption ==
  /\ IsInjective(Seating) /\ Seating # <<>>
  /\ DOMAIN Team = Orders
  /\ MaxHp \in Nat \ {0}
  /\ DOMAIN StatusRow = Statuses
  /\ \A s \in Statuses : /\ StatusRow[s].grants \cup StatusRow[s].wards \subseteq Statuses
                         /\ StatusRow[s].shield \in Nat /\ StatusRow[s].dot \in Nat
  /\ Nobody \notin Orders \cup Statuses
ASSUME StatusesAssumption

Shields == {s \in Statuses : StatusRow[s].shield > 0}

Most(n) == IF n < MaxHp THEN n ELSE MaxHp
Least0(n) == IF n > 0 THEN n ELSE 0
Sum(s) == FoldLeft(LAMBDA x, y : x + y, 0, s)
SumOver(S, num(_)) == Sum([i \in DOMAIN SetToSeq(S) |-> num(SetToSeq(S)[i])])

Up(f, u) == f.hp[u] > 0
Foes(u, v) == Team[u] # Team[v]
Held(f, u) == {s \in Statuses : f.st[u][s] # 0}
Marked(f, u, mark(_)) == \E s \in Held(f, u) : mark(StatusRow[s])

BlocksGain(f, u) == Marked(f, u, LAMBDA r : r.stopsGain)
BlocksLoss(f, u) == Marked(f, u, LAMBDA r : r.stopsLoss)
BlocksHeal(f, u) == Marked(f, u, LAMBDA r : r.stopsHeal)
BlocksCdCut(f, u) == Marked(f, u, LAMBDA r : r.stopsCd)
Immobilized(f, u) == Marked(f, u, LAMBDA r : r.skips)
BasicOnly(f, u) == Marked(f, u, LAMBDA r : r.basicOnly)
IsImmune(f, u, s) == Marked(f, u, LAMBDA r : s \in r.wards)
SealedSlots(f, u) == UNION {StatusRow[s].seals : s \in Held(f, u)}
OnHitExtra(f, u) == SumOver(Held(f, u), LAMBDA s : StatusRow[s].thorns)
TickDot(f, u) == SumOver(Held(f, u), LAMBDA s : StatusRow[s].dot)
TickHot(f, u) == SumOver(Held(f, u), LAMBDA s : StatusRow[s].hot)

\* redirect: the strongest of what decides whom the unit attacks.
Lure(f, u) ==
  LET kinds == {StatusRow[s].lure : s \in Held(f, u)}
  IN CASE "any" \in kinds -> "any"
       [] "any" \notin kinds /\ "allies" \in kinds -> "allies"
       [] kinds \cap {"any", "allies"} = {} /\ "taunt" \in kinds -> "taunt"
       [] OTHER -> "none"

-----------------------------------------------------------------------------
(* Coming and going.                                                       *)

\* A repeated application never shortens what is there; a new one without a
\* stated duration lives for the default.
Remaining(old, stated) ==
  CASE old = 0 -> IF stated = 0 THEN DefaultDuration ELSE stated
    [] old # 0 /\ stated <= 0 -> old
    [] old = Always /\ stated > 0 -> stated
    [] OTHER -> IF stated > old THEN stated ELSE old

\* apply_event: a shield is filled, and a taunt remembers its caster, when the
\* status is new; a renewal leaves both as they are.
Applied(f, u, s, rounds, by) ==
  IF IsImmune(f, u, s) THEN f
  ELSE [f EXCEPT
          !.st[u][s] = Remaining(@, rounds),
          !.shield[u] = IF s \in Shields /\ s \notin Held(f, u)
                        THEN [@ EXCEPT ![s] = StatusRow[s].shield] ELSE @,
          !.goad[u] = IF StatusRow[s].lure = "taunt" /\ s \notin Held(f, u) THEN by ELSE @]

\* A status that goes takes its shield, and a taunt its caster, with it.
Without(f, u, gone) ==
  LET left == Held(f, u) \ gone
  IN [f EXCEPT !.st[u] = [s \in Statuses |-> IF s \in gone THEN 0 ELSE @[s]],
               !.shield[u] = [s \in Shields |-> IF s \in gone THEN 0 ELSE @[s]],
               !.goad[u] = IF \E s \in left : StatusRow[s].lure = "taunt" THEN @ ELSE Nobody]

\* remove_category: None and "any" are every category.
Removable(f, u, category) ==
  {s \in Held(f, u) : /\ ~StatusRow[s].fixed
                      /\ category \in {"any", StatusRow[s].category}}

Expiring(f, u) == {s \in Statuses : f.st[u][s] = 1}

\* tick_duration: permanent statuses stay.
Aged(f, u, aging) ==
  LET gone == Expiring(f, u) \cap aging
  IN Without([f EXCEPT !.st[u] = [s \in Statuses |->
                IF s \in aging /\ @[s] > 0 THEN @[s] - 1 ELSE @[s]]], u, gone)

Ticked(f, u) == Aged(f, u, Statuses)

\* run_nested: a marker grants and drops its statuses again whenever it runs.
Nested(f, u, own) ==
  FoldLeft(LAMBDA g, s :
      Without(FoldLeft(LAMBDA h, t : Applied(h, u, t, 0, u), g, SetToSeq(StatusRow[s].grants)),
              u, StatusRow[s].drops),
    f, SetToSeq({s \in Held(f, u) : StatusRow[s].own = own}))

-----------------------------------------------------------------------------
(* Damage.                                                                 *)

\* formula.strike: never less than MIN_DAMAGE, whatever lowers it.
Strike(f, caster, target, power) ==
  LET n == power + SumOver(Held(f, caster), LAMBDA s : StatusRow[s].dealt)
                 + SumOver(Held(f, target), LAMBDA s : StatusRow[s].taken)
  IN IF n < 1 THEN 1 ELSE n

\* absorb: the shields are used up one after the other.
Absorbed(f, u, n) ==
  FoldLeft(LAMBDA a, s :
             LET take == IF a.f.shield[u][s] < a.left THEN a.f.shield[u][s] ELSE a.left
             IN [f |-> [a.f EXCEPT !.shield[u][s] = @ - take], left |-> a.left - take],
           [f |-> f, left |-> n], SetToSeq(Held(f, u) \cap Shields))

Hurt(f, u, n) == [f EXCEPT !.hp[u] = Least0(@ - n)]
Healed(f, u, n) == [f EXCEPT !.hp[u] = Most(@ + n)]
GaugeAt(n) == IF n > ScvFull THEN ScvFull ELSE Least0(n)

=============================================================================
