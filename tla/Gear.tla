-------------------------------- MODULE Gear --------------------------------
(***************************************************************************)
(* The pieces an account owns and which cast wears them: starshards,       *)
(* Soulmirrors and bloodpacts (player_state/gear.py, runes.py, core.py and *)
(* the Char and Backpack handlers of titan_server.py), together with what  *)
(* the client has been told of them.                                       *)
(*                                                                         *)
(* A bag maps slot ids (sid) to pieces; a cast wears pieces by their uid.  *)
(* Both ids are used again once a piece is gone.  The client keeps its own *)
(* copy: a bag message (145) MERGES into it and removes only what it names *)
(* as a tombstone, an equip message (549) rewrites one cast.  A request    *)
(* names what the client shows.  Levels cost one coin each; which stats a  *)
(* piece rolls is left out.  "untold" is history: the Soulmirrors that     *)
(* were paid and not sent.                                                 *)
(***************************************************************************)
EXTENDS Integers, Sequences, FiniteSetsExt, SequencesExt, Functions

CONSTANTS
  Casts,      \* casts that may be in the roster
  RuneSlots, MirrorSlots, PactSlots,  \* indexes of the equips array
  Kinds,      \* items of the design data that are pieces
  KindRow,    \* [Kinds -> KindRows]
  FuseNum,    \* SOULFRAG_TRANSMUTE_NUM
  MaxLevel,   \* RUNE_MAX_LEVEL, SOULFRAG_MAX_LEVEL, BLOODPACT_MAX_LV
  Careful,    \* the panel's selection leaves locked mirrors out
  OldSave,    \* [bag, worn] of the file the run starts from
  GearCoins,      \* coins of that file
  RollsMax,   \* bound: pieces rolled for the account
  BatchMax    \* bound: pieces dismantled in one request

VARIABLES mem, disk, client, rolls, untold
gearVars == <<mem, disk, client, rolls, untold>>

Storages == {"rune", "mirror", "pact"}
Slots == RuneSlots \cup MirrorSlots \cup PactSlots
KindRows == [storage : Storages, slot : MirrorSlots \cup {0}, owner : Nat,
             fusable : BOOLEAN, internal : BOOLEAN]

GearAssumption ==
  /\ IsFiniteSet(RuneSlots) /\ RuneSlots = 1..Cardinality(RuneSlots)
  /\ PactSlots \subseteq Nat /\ PactSlots # {} /\ IsFiniteSet(PactSlots)
  /\ MirrorSlots \subseteq Nat \ {0}
  /\ KindRow \in [Kinds -> KindRows]
  /\ \A k \in Kinds : KindRow[k].fusable => KindRow[k].storage = "mirror"
  /\ FuseNum \in Nat \ {0} /\ MaxLevel \in Nat /\ RollsMax \in Nat /\ BatchMax \in Nat
ASSUME GearAssumption

Nothing == <<"none", 0>>
Bare == [s \in Slots |-> Nothing]
Ref(s, piece) == <<s, piece.uid>>
Refs(a, s) == {Ref(s, a.bag[s][i]) : i \in DOMAIN a.bag[s]}

-----------------------------------------------------------------------------
(* Rolling a piece: roll_rune, grant_soulmirror, grant_bloodpact.          *)

NextSid(b) == IF DOMAIN b = {} THEN 1 ELSE Max(DOMAIN b) + 1

(* The first number from the size of the bag on that no piece carries.     *)
FreeUid(b) ==
  LET n == Cardinality(DOMAIN b)
  IN Min({u \in (n + 1)..(2 * n + 1) : \A i \in DOMAIN b : b[i].uid # u})

Filed(a, s, k) ==
  LET b == a.bag[s]
      new == [uid |-> FreeUid(b), kind |-> k, lv |-> 0, lock |-> FALSE]
  IN [a EXCEPT !.bag[s] = [i \in DOMAIN b \cup {NextSid(b)} |->
                             IF i = NextSid(b) THEN new ELSE b[i]]]

-----------------------------------------------------------------------------
(* What the client does with a message.                                    *)

(* char_update_equip (549), one for each of the casts.                     *)
UpdateEquip(v, a, casts) ==
  [v EXCEPT !.worn = [c \in Casts |-> IF c \in casts THEN a.worn[c] ELSE @[c]]]

(* BACKPACK_CHANGE (145): the live slots that are sent, then tombstones.   *)
BagChange(v, a, s, live, gone) ==
  [v EXCEPT !.bag[s] =
     [i \in (DOMAIN @ \cup live) \ gone |-> IF i \in live THEN a.bag[s][i] ELSE @[i]]]
WholeBag(v, a, s, gone) == BagChange(v, a, s, DOMAIN a.bag[s], gone)

(* The login sync, and the whole roster (char_json, 528).                  *)
AllOf(a) == [casts |-> a.casts, worn |-> a.worn, bag |-> a.bag]
AllChars(v, a) == [v EXCEPT !.casts = a.casts, !.worn = a.worn]

Handler(a, v) ==
  mem' = a /\ disk' = a /\ client' = v
Changed(a, b) == {c \in Casts : a.worn[c] # b.worn[c]}

(* A Soulmirror of its banner: its bag is sent whole.                      *)
DrawMirror(k) ==
  LET a == Filed(mem, "mirror", k)
  IN /\ rolls < RollsMax /\ ~KindRow[k].internal /\ KindRow[k].storage = "mirror"
     /\ Handler(a, WholeBag(client, a, "mirror", {})) /\ rolls' = rolls + 1
     /\ untold' = {}

(* A fight, the shop, a quest, the wheel pays starshards and Soulmirrors   *)
(* (nothing pays a pact).  grant_reward calls both "equipment", and for    *)
(* that its callers send the bag of the starshards.                        *)
Reward(k) ==
  LET s == KindRow[k].storage
      a == Filed(mem, s, k)
  IN /\ rolls < RollsMax /\ ~KindRow[k].internal /\ s # "pact"
     /\ Handler(a, WholeBag(client, a, "rune", {})) /\ rolls' = rolls + 1
     /\ untold' = IF s = "mirror" THEN untold \cup {NextSid(mem.bag[s])} ELSE untold

-----------------------------------------------------------------------------
(* Wearing.                                                                *)

TakenOff(worn, refs) ==
  [c \in Casts |-> [s \in Slots |-> IF worn[c][s] \in refs THEN Nothing ELSE worn[c][s]]]

(* wear_runes: the first slots of the array are rewritten, and no other    *)
(* cast keeps what this one now wears.                                     *)
RunesWorn(a, c, sent) ==
  LET slots == [s \in Slots |-> IF s \in RuneSlots /\ s <= Len(sent) THEN sent[s]
                                ELSE a.worn[c][s]]
      kept == TakenOff(a.worn, {slots[s] : s \in Slots} \ {Nothing})
  IN [a EXCEPT !.worn = [kept EXCEPT ![c] = slots]]

(* wear_soulmirror: a mirror fits one slot and leaves the one it was in.   *)
MirrorWorn(a, c, ref, s) ==
  [a EXCEPT !.worn = [TakenOff(@, {ref} \ {Nothing}) EXCEPT ![c][s] = ref]]

(* Variant: the other casts keep it.                                       *)
PactWornTwice(a, c, ref) ==
  LET free == {s \in PactSlots : a.worn[c][s] = Nothing}
      s == IF free = {} THEN Min(PactSlots) ELSE Min(free)
  IN IF ref = Nothing
       THEN [a EXCEPT !.worn[c] = [i \in Slots |-> IF i \in PactSlots THEN Nothing ELSE @[i]]]
       ELSE [a EXCEPT !.worn = [@ EXCEPT ![c][s] = ref]]

(* wear_bloodpact: the first free pact slot, or the first one; no pact at  *)
(* all clears every slot.                                                  *)
PactWorn(a, c, ref) ==
  LET off == TakenOff(a.worn, {ref} \ {Nothing})
      free == {s \in PactSlots : off[c][s] = Nothing}
      s == IF free = {} THEN Min(PactSlots) ELSE Min(free)
  IN IF ref = Nothing
       THEN [a EXCEPT !.worn[c] = [i \in Slots |-> IF i \in PactSlots THEN Nothing ELSE @[i]]]
       ELSE [a EXCEPT !.worn = [off EXCEPT ![c][s] = ref]]

(* A request names what the client shows; what is not there is refused.    *)
Shown(s) == DOMAIN client.bag[s] \cap DOMAIN mem.bag[s]

(* The cast of the request is told in any case, the others if robbed.      *)
WearReply(a, c) ==
  /\ Handler(a, UpdateEquip(client, a, Changed(mem, a) \cup {c}))
  /\ UNCHANGED <<rolls, untold>>

WearRunes(c, sent) ==
  /\ c \in mem.casts
  /\ \A i \in DOMAIN sent : sent[i] \in Refs(mem, "rune") \cup {Nothing}
  /\ WearReply(RunesWorn(mem, c, sent), c)

WearMirror(c, i, s) ==
  /\ c \in mem.casts /\ i \in Shown("mirror") \cup {0}
  /\ i # 0 => KindRow[mem.bag["mirror"][i].kind].slot = s
  /\ WearReply(MirrorWorn(mem, c, IF i = 0 THEN Nothing ELSE Ref("mirror", mem.bag["mirror"][i]), s), c)

WearPact(c, i) ==
  /\ c \in mem.casts /\ i \in Shown("pact") \cup {0}
  /\ WearReply(PactWorn(mem, c, IF i = 0 THEN Nothing ELSE Ref("pact", mem.bag["pact"][i])), c)

-----------------------------------------------------------------------------
(* Taking pieces apart.                                                    *)

(* unequip_everywhere, and the deletion of the pieces from their bag.      *)
Destroyed(a, s, sids) ==
  [a EXCEPT !.worn = TakenOff(@, {Ref(s, a.bag[s][i]) : i \in sids}),
            !.bag[s] = Restrict(@, DOMAIN @ \ sids)]

(* What the request lists up to the first piece the server refuses.        *)
Refused(a, s, i) == i \notin DOMAIN a.bag[s] \/ (s = "mirror" /\ a.bag[s][i].lock)
Before(a, s, list) ==
  {list[n] : n \in {m \in DOMAIN list : \A k \in 1..m : ~Refused(a, s, list[k])}}

(* dismantle_bloodpacts: a pact comes back as coins, a mirror as material.  *)
Returned(a, s, n) == IF s = "pact" THEN [a EXCEPT !.coins = @ + n] ELSE a

(* dismantle_soulmirrors and dismantle_bloodpacts: pieces are deleted as   *)
(* the list is walked, and the material is handed over at its end.         *)
Dismantle(s, list) ==
  LET gone == Before(mem, s, list)
      a == Destroyed(mem, s, gone)
      paid == Returned(a, s, Cardinality(gone))
      told == UpdateEquip(client, paid, Changed(mem, paid))
      live == IF s = "pact" THEN DOMAIN paid.bag[s] ELSE {}
  IN /\ Careful /\ s = "mirror" => \A n \in DOMAIN list : ~client.bag[s][list[n]].lock
     /\ IF Cardinality(gone) = Len(list)
          THEN Handler(paid, BagChange(told, paid, s, live, gone))
          ELSE mem' = a /\ UNCHANGED <<disk, client>>
     /\ UNCHANGED <<rolls, untold>>

(* The kinds a fuse may roll: a character and a slot the inputs share are  *)
(* kept, what they differ in is drawn.                                     *)
Outcomes(kinds) ==
  {k \in Kinds :
     /\ KindRow[k].fusable
     /\ \A j \in kinds : (\A l \in kinds : KindRow[l].owner = KindRow[j].owner)
                            => KindRow[k].owner = KindRow[j].owner
     /\ LET mates == {l \in Kinds : KindRow[l].fusable /\ KindRow[l].owner = KindRow[k].owner}
        IN \A j \in kinds : /\ \A l \in kinds : KindRow[l].slot = KindRow[j].slot
                            /\ \E l \in mates : KindRow[l].slot = KindRow[j].slot
                            => KindRow[k].slot = KindRow[j].slot}

(* Variant: the inputs are freed before the result is filed.               *)
FusedFreed(a, sids, k) == Filed([Destroyed(a, "mirror", sids) EXCEPT !.coins = @ - 1], "mirror", k)

(* fuse_soulmirrors: the result is filed BEFORE the inputs are freed.      *)
Fused(a, sids, k) == [Destroyed(Filed(a, "mirror", k), "mirror", sids) EXCEPT !.coins = @ - 1]

Fuse(sids, k) ==
  LET a == Fused(mem, sids, k)
      new == {i \in DOMAIN a.bag["mirror"] :
                i \notin DOMAIN mem.bag["mirror"] \/ a.bag["mirror"][i] # mem.bag["mirror"][i]}
  IN /\ mem.coins >= 1 /\ Cardinality(sids) = FuseNum
     /\ sids \subseteq Shown("mirror")
     /\ \A i \in sids : ~mem.bag["mirror"][i].lock /\ KindRow[mem.bag["mirror"][i].kind].fusable
     /\ k \in Outcomes({mem.bag["mirror"][i].kind : i \in sids})
     /\ Handler(a, BagChange(UpdateEquip(client, a, Changed(mem, a)), a, "mirror", new, sids))
     /\ UNCHANGED <<rolls, untold>>

(* mix_bloodpact: the material gives one of its skills and is used up.     *)
Forged(a, from) == [Destroyed(a, "pact", {from}) EXCEPT !.coins = @ - 1]

(* Its handler tells the casts that lose the material before the bag.      *)
Forge(from, to) ==
  LET a == Forged(mem, from)
  IN /\ {from, to} \subseteq Shown("pact") /\ from # to /\ mem.coins >= 1
     /\ Handler(a, WholeBag(UpdateEquip(client, a, Changed(mem, a)), a, "pact", {from}))
     /\ UNCHANGED <<rolls, untold>>

-----------------------------------------------------------------------------
(* upgrade_rune, upgrade_bloodpact, upgrade_soulmirror and set_equip_lock. *)

Edited(s, i, piece, price) ==
  LET a == [mem EXCEPT !.bag[s][i] = piece, !.coins = @ - price]
  IN /\ Handler(a, WholeBag(client, a, s, {})) /\ UNCHANGED rolls
     /\ untold' = IF s = "mirror" THEN {} ELSE untold

(* The level a piece is taken to by a request for n levels.                *)
Raised(p, n) == Min({p.lv + n, MaxLevel})

Upgrade(s, i, n) ==
  LET p == mem.bag[s][i]
      to == Raised(p, n)
  IN /\ to > p.lv /\ mem.coins >= to - p.lv
     /\ Edited(s, i, [p EXCEPT !.lv = to], to - p.lv)

(* The client asks for the opposite of the lock it shows.                  *)
SetLock(s, i, lock) ==
  /\ lock # client.bag[s][i].lock
  /\ Edited(s, i, [mem.bag[s][i] EXCEPT !.lock = lock], 0)

-----------------------------------------------------------------------------
(* The roster, as far as it wears pieces: a cast joins with an empty array *)
(* and leaves with what it wore, which is then worn by nobody.             *)
Join(c) ==
  LET a == [mem EXCEPT !.casts = @ \cup {c}, !.worn[c] = Bare]
  IN /\ c \notin mem.casts /\ Handler(a, AllChars(client, a)) /\ UNCHANGED <<rolls, untold>>
Depart(c) ==
  LET a == [mem EXCEPT !.casts = @ \ {c}, !.worn[c] = Bare]
  IN /\ c \in mem.casts /\ Handler(a, AllChars(client, a)) /\ UNCHANGED <<rolls, untold>>

(* _purge_test_items at every load: internal pieces, in the bag and worn.  *)
Doomed(a, s) == {i \in DOMAIN a.bag[s] : KindRow[a.bag[s][i].kind].internal}
Purged(a) ==
  LET cut(b, s) == Destroyed(b, s, Doomed(b, s))
  IN cut(cut(cut(a, "mirror"), "pact"), "rune")

Relogin ==
  /\ mem' = Purged(disk) /\ disk' = mem' /\ client' = AllOf(mem') /\ untold' = {}
  /\ UNCHANGED rolls

OldAccount ==
  [casts |-> {c \in Casts : OldSave.worn[c] # Bare}, worn |-> OldSave.worn,
   bag |-> OldSave.bag, coins |-> GearCoins]

GearInit ==
  /\ disk = OldAccount /\ mem = Purged(disk) /\ client = AllOf(mem)
  /\ rolls = 0 /\ untold = {}

Lists(s) == {l \in SeqOf(DOMAIN client.bag[s], BatchMax) : l # <<>> /\ IsInjective(l)}
(* The panel sends all its slots, with no shard in two of them.            *)
Sent == {f \in [1..Cardinality(RuneSlots) -> Refs(client, "rune") \cup {Nothing}] :
           \A i, j \in DOMAIN f : f[i] = f[j] /\ i # j => f[i] = Nothing}

GearNext ==
  \/ \E k \in Kinds : DrawMirror(k) \/ Reward(k)
  \/ \E c \in Casts :
       \/ \E sent \in Sent : WearRunes(c, sent)
       \/ \E s \in MirrorSlots, i \in Shown("mirror") \cup {0} : WearMirror(c, i, s)
       \/ \E i \in Shown("pact") \cup {0} : WearPact(c, i)
       \/ Join(c) \/ Depart(c)
  \/ \E s \in {"mirror", "pact"} : \E list \in Lists(s) : Dismantle(s, list)
  \/ \E sids \in SUBSET Shown("mirror"), k \in Kinds : Fuse(sids, k)
  \/ \E from, to \in Shown("pact") : Forge(from, to)
  \/ \E s \in Storages : \E i \in Shown(s) :
       \/ \E n \in 1..MaxLevel : Upgrade(s, i, n)
       \/ \E lock \in BOOLEAN : SetLock(s, i, lock)
  \/ Relogin

GearSpec == GearInit /\ [][GearNext]_gearVars

-----------------------------------------------------------------------------
Pieces == [uid : Nat \ {0}, kind : Kinds, lv : 0..MaxLevel, lock : BOOLEAN]
Marks == (Storages \X (Nat \ {0})) \cup {Nothing}

IsBag(b, s) ==
  /\ DOMAIN b \subseteq Nat \ {0} /\ IsFiniteSet(DOMAIN b)
  /\ b \in [DOMAIN b -> Pieces]
  /\ \A i \in DOMAIN b : KindRow[b[i].kind].storage = s
  /\ \A i, j \in DOMAIN b : b[i].uid = b[j].uid => i = j

AccountOK(a) ==
  /\ a = [casts |-> a.casts, worn |-> a.worn, bag |-> a.bag, coins |-> a.coins]
  /\ a.casts \subseteq Casts /\ a.coins \in Nat
  /\ a.worn \in [Casts -> [Slots -> Marks]]
  /\ a.bag = [s \in Storages |-> a.bag[s]] /\ \A s \in Storages : IsBag(a.bag[s], s)

(* The bags hold pieces of their storage, no uid is carried twice, and     *)
(* nothing is paid that is not there.                                      *)
GearOK == AccountOK(mem) /\ AccountOK(disk) /\ rolls \in 0..RollsMax

(* A piece is in the bag and in a slot of its kind.                        *)
Home(s, piece, slot) ==
  \/ s = "rune" /\ slot \in RuneSlots
  \/ s = "pact" /\ slot \in PactSlots
  \/ s = "mirror" /\ slot = KindRow[piece.kind].slot
Fits(a, c, slot) ==
  \/ a.worn[c][slot] = Nothing
  \/ \E s \in Storages : \E i \in DOMAIN a.bag[s] :
       a.worn[c][slot] = Ref(s, a.bag[s][i]) /\ Home(s, a.bag[s][i], slot)
Worn(a, c, s) ==
  /\ Fits(a, c, s)
  /\ a.worn[c][s] # Nothing =>
       /\ c \in a.casts
       /\ \A d \in Casts, t \in Slots : a.worn[d][t] = a.worn[c][s] => d = c /\ t = s
Neat(a) == AccountOK(a) /\ \A c \in Casts, s \in Slots : Worn(a, c, s)

(* The run starts from a file the program has written.                     *)
SaveAssumption == Neat(OldAccount)
ASSUME SaveAssumption

(* A piece is worn by one cast, in one slot of its kind, and is in the bag:*)
(* no cast keeps a uid of a piece that is gone, which a later piece could  *)
(* carry again (unequip_everywhere, the wear functions, _purge_test_items).*)
WornOnce == GearOK /\ \A c \in Casts, s \in Slots : Worn(mem, c, s)

(* After every answer the client shows the casts, what they wear and what  *)
(* the bags hold, though bag messages only merge and slot ids are used     *)
(* again; and what it misses is a Soulmirror that was paid and whose bag   *)
(* has not been sent since (backpacks_all_json, grant_reward, the replies  *)
(* of the wear, dismantle, fuse and forge handlers).                       *)
Known(a) == [AllOf(a) EXCEPT !.bag["mirror"] = Restrict(@, DOMAIN @ \ untold)]
ClientShowsSent == client = Known(mem)

=============================================================================
