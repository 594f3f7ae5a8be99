# A TLA+ model of the Seven Sins game server

The repository under `src/` is a reconstruction of the server of a mobile game:
a threaded TCP server that keeps one JSON file per account
(`server/player_state`), resolves turn-based fights for a client nobody can
change (`server/battle.py`, `server/engine`), and runs either on a PC, beside a
save editor and a battle inspector, or inside an Android app that can update the
server's code. This directory models the parts of it where several things happen
at once, where something may stop in the middle, or where a long run of legal
requests may lead somewhere nobody meant: who owns an account and writes its file,
the battle dialogue, turns and skills, the settlement of fights, daily and weekly
windows, what an account buys, draws, wears, grows and is paid, and the code a
phone runs after an update.

Source paths below are relative to `src/server/` unless they say otherwise;
`PROJECT.json` maps every definition to its lines.

## 1. Inventory

| Part | State it keeps | Operations | How it interacts | What makes it correct |
|---|---|---|---|---|
| Account store (`player_state/core.py`) | one file per player and its `.tmp`, `_lock`, `_SUPERSEDED` | `load` (with repairs that save), `save`, `supersede`, `release` | called by every handler; the save editor writes the same files | one writer per account, whose saves stay |
| Connection threads (`titan_server.py`, `handle`) | `session`, the account dict, `cx.battle`, `_live_states`, `_sessions` | connect, LOGIN, dispatch, exit | one thread per client; the newest LOGIN takes an account over | a stale thread is refused and ends, the owner never is |
| Save editor (`save_editor.py`) | backups | guard, read, edit, write | asks who is connected, then touches the account files | an edit is not undone by a session |
| Battle dialogue (`battle_replies` in `titan_server.py`, `Battle` in `battle.py`) | waves, units, actor, turn flag, queue of out-of-band rows | StartTurn, Judge, attack, wave end, next wave, auto, unit info, error report, retreat, reconnect | the client plays each reply through its own state machine and asks again | both sides agree on who stands; the client is never stuck |
| Turn order, statuses, passives (`battle.py`, `engine/status.py`, `engine/passives.py`) | gauges, statuses, latches | after-action and start-of-turn passes | feed the out-of-band queue of the dialogue | somebody always moves |
| Skill execution (`engine/core.py`, `formula.py`, value tables, `bridge.py`, `wire.py`), battle AI (`battle_ai.py`) | none | resolve one skill use, format it; choose a move | called by the dialogue | the payload kills each unit once, and only who fell |
| Settlement and resume (`battle_end_reward`, `stage_execute`, drops of `battle.py`, `player_state/battle_resume.py`) | the `battle` key of an account, shards held for a choice, rating masks | entry, snapshot, end, shard choice, rejoin offer | handlers save several times in one request | a reward once; what drops was listed |
| Guild Weekly and guild (`player_state/challenge.py`, `guild.py`) | the `challenge` record, passes, announcements; the guild of one | sync, fight, score, settlement; found, leave, sign in | rolls on two clocks, whenever a request looks at it | a day is paid once, as earned |
| Economy (`shop.py`, `gacha.py`, `roulette.py`, balances in `core.py`) | counters, windows, held rolls, balances | buy, draw, commit, spin | sequential edits of one dict between two saves | caps follow their windows, diamonds are accounted for |
| Coming back (`quests.py`, `loginbonus.py`, `mail.py`, sweeps in `roster.py`) | counters, chains, ladder, mailbox, sweep job | bump, claim, re-arm, climb, read, sweep | every payer bumps counters; a login does many saves | each debt is paid once, wherever a login is cut |
| Roster, gear, bonds (`roster.py`, `charprogress.py`, `gear.py`, `runes.py`, `soulbook.py`, `karma.py`) | casts, formations, pieces worn, Karma, soul links | level, rank, feed, teach, sell; wear, fuse, dismantle; present, choose | the client keeps a copy that replies patch | the copy is the account; a name means what was meant |
| Battle inspector (`battle_inspector.py`) | armed flag, held replies | intercept, step, drop, patch, disarm | an HTTP thread sends on the game's socket | what a client reads can be deciphered, in order |
| Host app (`hostapp/`) | snapshots of the code, `active.txt`, the process | update, activate, prune, reset, start | replaces the server's code while it may run | a pointer names code that is there; reset is a way back |
| Wire and data (`wire.py`, `design_data.py`, `settings.py`, `bundle_server.py`, `ofa.py`), tools (`tools/`) | keystreams, read-only tables, build artefacts | encode, look up, serve, compile | leaves | not modelled |

What is hard about it:

* **Two copies of an account.** A phone that lost its network logs in again while
  the thread of the old connection still holds the dict it loaded, and saves it
  later. The store knows the stale dict by its `id()`, an address that Python
  reuses.
* **An editor without a common lock**, guarded by a look at the live sessions.
* **A client that can only be driven.** It idles until the server pushes, has one
  field for three kinds of push, and derives from every reply who is still
  standing. A unit that dies outside an attack has to be told in the right reply:
  too early or too late, and the fight stands still with nothing in the log.
* **A client that keeps a copy.** Bag messages merge into it, uids of casts, pieces
  and slots are used again, and two requests may be on their way at once.
* **Handlers that save several times.** A connection that breaks between two saves
  leaves the account in between.
* **Windows noticed late.** Nothing runs at 4AM or on Monday; whichever request
  comes next rolls the record, perhaps days later, and midnight is not 4AM.
* **One skill, many hands.** A strike runs riders, counters, thorns, shields,
  passives, deaths, revivals and follow-ups before one payload is laid out, and
  the gauges must still let somebody move.
* **Code replaced under a running process**, in steps any of which may fail.

The hazards this list stands for are in `PROJECT.json`, each at its line, with the
properties that would catch it.

## 2. Modules

| Module | Models | Extends |
|---|---|---|
| `AccountStore` | files, `.tmp`, `_lock`, superseded marks of `core.py` | |
| `AccountLedger` | what the store promises: one writer per account, which never loses its own writes | |
| `AccountSessions` | the threads of `handle()` over the store | `AccountStore`, instance of `AccountLedger` |
| `SaveEditor` | `apply_edits` beside the sessions | `AccountSessions` |
| `BattleFlow` | the battle dialogue with the client's state machine | |
| `Statuses`, `Passives`, `Skills`, `Turns` | the engine: what a status does, when a passive fires, what one cast does, whose turn it is | each the one before |
| `Drops`, `BattleSettlement` | what a clear drops and what the screen lists; entry, snapshots, end rewards, shard choice, rejoin | `Drops` |
| `GuildWeekly`, `Guild` | the weekly raid and its two clocks; the guild of one beside it | `GuildWeekly` |
| `Purse` | balances, stacks, grants and quest counters, as functions of an account | |
| `Market`, `Missions` | the counters where an account spends; what it is owed for coming back | `Purse` |
| `Bonds` | presents, Karma, soul links, and the sheet against the fighting unit | |
| `Gear`, `Roster` | pieces and who wears them; casts, growth and formations | |
| `Updater`, `Inspector` | the phone's update channel; held battle replies | |
| `MC...` | what TLC needs beside a module: small design data, symmetry, and the compositions `MCHosts` (updater or inspector), `MCCasts` (pieces or roster) and `MCMarket` (the counter, a cast's room, a story) | |
| `Finite_proofs` | lemmas on finite sets and sums the proofs share | `TLAPS` |
| `..._proofs` | the theorems of section 5 | `Finite_proofs` and their module |

### AccountStore, AccountSessions, AccountLedger

An account is the set of effects it records; a dict is its identity, drawn from
`Ids` and reusable as soon as no thread refers to it. A thread is in a phase
(`pc`), and every step is one stretch of `handle()` or `core.py` between two
points where another thread can be seen: `Load` (also a fresh account, and files
that do not parse), `LoadRepair`/`LoadRepaired`/`LoadFails` (load's own saving,
under `_lock`), `Claim` (the takeover: supersede the dict of the live slot, enter
one's own), `Change` (a handler), `SaveBegin`/`SaveEnd`/`SaveFails` (the two
halves of `_save_locked`), `SaveRefused` (`StaleSession` ends the thread), `Drop`
and `Exit` (the `finally` block) and `Crash` of the whole process. LOGIN may come
again on an open connection when `Relogin` is TRUE.

`AccountLedger` is the abstract specification: an owner takes an account over,
only the owner commits, and never less than it has committed. The refinement is
`owner <- live`, `ledger <- disk`, `written <- kept`, where `kept` is a history
variable: the effects the live dict's own saves have written.

### SaveEditor

Four steps of `apply_edits`: guard, read and edit, open the temporary file,
replace; each may fail. Server and editor write the same temporary name without a
common lock, so the model lets a save and an edit tear each other. What holds is
stated for an edit in whose time no connection arrived (`quiet`).

### BattleFlow

The server half is `battle_replies` and what it calls; a reply is a sequence of
messages, each with the deaths it shows. The client half is the state machine the
source describes at each handler, and is marked external. Hit points are gone: a
move kills any set of units, a housekeeping pass kills or burns any set, and any
standing unit may be seated next, so every interleaving of gauges, statuses and
passives is included. The queue of out-of-band rows keeps its wave stamps,
because enemy order keys are recycled by each wave. `Fights` is the set of settings
a behaviour may draw: whose party, a boss or not, whether passives raise the
fallen, what the client asks outside its turn loop.

`AgreeOnStanding`, `NeverWedged` and `NeverParked` speak of a client that keeps to
its turn loop (`LoopOnly`: the reconnect is the only thing it asks aside). The auto
button and the answers to popups reach the client in states the server's guards do
not see; `AgreeOnStanding` leaves out, too, fights with passives that raise a unit
outside an attack, for which the protocol has no row. `OnePush` and `JudgePays` hold
for every client and fight.

### Statuses, Passives, Skills, Turns

`Statuses` gives the row of a status (what it does to a strike, a heal, a turn, a
gauge) and how it is applied, aged and removed. `Passives` fires the compiled rules
by trigger, with their gates and recipients; what is drawn at random comes from a
`luck` every action chooses. `Skills` resolves one cast as `engine/core.py` does: the
targets, the strikes, the effects by condition, thorns and counters, deaths and
revivals, follow-ups to their depth, and the groups of rows `engine/wire.py` lays
out, with its assertions. `Turns` is the gauge race of `battle.py`, the passes before
and after an action, the moves `battle_ai.py` may choose from, waves, and the client's
board. Time is in whole gauge steps. Numbers are small, because the damage arithmetic
is calibrated against recordings, not promised.

### Drops, BattleSettlement

`mem` is the dict of the connection and `disk` the file; a handler is split where
it saves and goes on. A fight is its number of legs, its outcome and whether the
party took the status a rating forbids. `Lose` may strike between any two steps;
`Login` then reads the file and offers what `restore_battle` can rebuild from
`to_state()`, or drops what it cannot. `Drops` has the two functions that must
agree: what a clear rolls and what the stage screen lists, over the same design row
(campaign, temple by the day, corridor, generated pool). A roll is the set of its
outcomes; how much a drop is worth is left out.

### GuildWeekly

Time is counted in half days, before and after 4AM, because the week and the boss
of the day turn at midnight (`challenge_key`, `challenge_weekday`) and the day of
the scores at 4AM (`_daily_period`). `Rolled` is `_challenge` with its order:
first the week, which clears the record, then the day, which settles the old one,
then the top-up with its own marker (`Refilled`). `Login` is `core.load`, which tops
the same item up to the same floor by another marker, `pass_refill_day`
(`LoginRefilled`). Every request of the raid begins with the roll; some of them do not
save afterwards. A ledger by day and week (tries started, best score, payments, the
days a login topped up) is carried in the account, so that it is lost and restored
with it.
`Guild` adds founding, leaving and the sign-in of the day; its handlers save before
they answer, so a lost connection loses nothing of it.

### Purse, Market, Missions

`Purse` holds the functions every payer and payee goes through: `grant_reward`,
`grant_goods`, the two kinds of diamonds, `bump_quest_counter` with its chains.
`Market` has the shop with its windows, the banners with their held roll, its price
and its commit, and the wheel; the clock counts 4AM days and a login may come from
the file at any time. `Missions` is one login split at its saves (migration, rescue
of bagged rewards, mission re-arming, ladder, mail, sweep), the handlers between
logins, and a process that may die between any two steps; time goes by half days,
as in `GuildWeekly`. The field `claims` is history: which mission was claimed in
which window. A mission of the case "claimed" counts the missions of the group it
names (`_case_v1`, quests.py:688-695), so a weekly one may count weekly claims.

### Bonds

Presents and story choices raise Karma, Karma rungs and Skill Up pay stats, the Soul
Link rank pays more and gear the rest. `screen` is what the client was sent, `sent`
the taps on their way. A present that crosses a rung leaves the sheet stale until it
is sent again (`behind`; titan_server.py:2246), which `FightsAsShown` leaves out by
name.

### Gear, Roster

`Gear` has the bag by slot ids and the casts by uids, both used again; every handler
answers with a bag message that merges and an equip message that rewrites one cast.
Two ways bring a piece in. `DrawMirror` is the Soulmirror banner, which sends the bag
it filed into. `Reward` is everything that goes through `grant_reward` or the shop: it
calls a Soulmirror "equipment" like a starshard, and its senders push the storage of
the starshards for that (storage 2; a Soulmirror is in storage 3). The client is not
told of such a Soulmirror until something else sends its bag whole, or the next
login; `untold` is the history of these slots, and `ClientShowsSent` says that the
client shows everything else, and nothing that is gone. `Careful` says that the
dismantle panel does not select locked Soulmirrors: the server refuses them one by one
(gear.py:543) but its answer says all are gone (gear.py:515-517), and only the panel
keeps the two together.

`Roster` has the casts by uid, the formations that name them, everything that makes a
cast grow, the food it eats and the tutorial boost. The claim of the last tutorial
quest is two steps, `Claim` (the quests are saved) and `Reset` (the starters are made
ordinary and stamped); between them the process may die, and then the next `Login`
does it. `Serve` is any other request, which the thread reads only when it is not in
the middle of a claim. `serial`, `chosen`, `fed` and `free` are history: the cast
itself, the cast the player put in a slot, the skill levels ever handed out, and that
a request was served after the claim. `GrownIsKept` is about everything that happens
from then on: no cast that stays loses a level, star, rank or transcendence, and only
a lesson takes a skill level from its teacher.

### Updater, Inspector

`Updater` is the update button. A tap starts a thread (MainActivity.java:479) and
nothing keeps a second one out, so a state has any number of presses in `Presses`,
each with its place in `checkAndApply`: check, look at the disk, download, clear file
by file, extract file by file, verify, switch, prune file by file. Presses share the
snapshot directories, `_download.zip` and `active.txt.tmp`. A press that was
overlapped (not `lone`) is given every outcome the sharing can have: an extraction
that ends early, a file that does not appear or not as a whole, an `active.txt` that
is empty or names what another press wrote, a directory with files left. Beside them
run the reset and the process that imports what is on its path; the process may die
at every step, and takes the presses with it. `PointerIsThere` is not true while
presses overlap (section 4). It is stated from the moment on at which a press that
ran alone has named a snapshot (`tangled` becomes FALSE) to the next overlap: the
next tap of a quiet button repairs what an overlap left behind. Which release's bytes a file holds is
not told apart.

`Inspector` has the two locks (`_lock` and the send lock of a connection), the held
replies and the place of each RC4 key stream; frames of a reply and of heartbeats are
put one by one. A send on an open socket succeeds: that `sendall` runs into its 120
seconds half-way through a frame, which the HTTP thread catches and leaves the socket
open (battle_inspector.py:129-134), is not modelled. The app does not ship the
inspector, so `MCHosts` is one host or the other.

## 3. Runs

| Run | Instance | Shows |
|---|---|---|
| `sessions` | 2 connections of one player, repeated LOGIN, 2 dict identities, fair | one writer, the owner's saves stay, the ledger; a parsed login completes, a superseded thread with unsaved work ends |
| `editor` | 3 connections, the editor, 2 effects, 4 identities, one LOGIN each | marks and identities under takeover; a quiet edit is kept and written alone |
| `flow` | party of 2, 2 enemy slots, 2 waves, reconnects, fair; and a boss fight of one whose client asks everything aside | agreement, no stuck client, one push per reply, a judge pays, deaths are told |
| `turns` | 2 against 1 over 2 waves, at most 2 casts beyond basic skills, fair | somebody moves, the board is true, no torn payload, nobody starves |
| `settle` | 2 fights, 2 days, 2 lost connections | what is offered again, rewards once, shards once, drops as listed |
| `weekly` | a week of 3 days and the first hours of the next, 1 try a day, 2 lost connections, 1 founding | a day paid once and as earned, tries within the two top-ups, settled within its week, told once, signed once per guild |
| `weekly_unpaid` | 2 weeks of 2 days, 2 lost connections | *finding*: the last day played in a week is never paid |
| `weekly_tries` | the same | *finding*: a login gives a second allowance on one day |
| `casts` | pieces: 2 casts, 4 slots, 5 kinds, 2 rolled pieces beside 3 old ones; roster: 2 characters, 1 formation of one, 3 casts made | pieces worn once, the client shows what it was sent; names are live, levels are fed, what is grown is kept |
| `missions` | 4 half days over weeks of 2 days, at most 2 starts of the process | step by step; paid once |
| `market` | the counter over 3 days, or a room of two copies of one cast, or a story of two answers | allowances, diamonds, fights as shown, taps once |
| `hosts` | 2 releases of 2 files, 2 presses at a time, 1 death: 2 presses that find news with the server started and stopped, 3 without; or 2 connections of 2 replies of 2 frames, armed once | pointer, reset; wire order, reading on |

**Bounds.** Two connections and two identities force a takeover and the reuse of a
dict's address; three connections are what a stale writer beside a fresh heir needs, and
four identities exceed the threads. Two waves recycle every order key; two foes let one die outside
the attack that kills the other, and two party members leave one standing while the
other is raised. Two lost connections let a fight be resumed and settled twice. Weeks
of two or three days put a change of day inside a week and another across Monday: the
clock of `weekly` runs into the second week, those of its two findings past the
second 4AM of it, and that of `missions` (`LastTime` 3) over the roll of the week.
Three casts made, and two pieces rolled beside three an old save holds, let a uid be
used again while a formation, a worn slot or the client still knows the old one; one
formation of one and one pact slot are what the run affords, and the theorems are for
any. Two presses at a time are what overlaps, and a third, alone, is what repairs it. The rows
of the design data in the `MC` modules are picked so that each branch of a handler
is taken; every action of every run fires. `burns` and `inbox` of a setting, `BootsMax`,
`ClearsMax`, `SweepMax`, `CastMax`, `EditsMax`, `CastsMax`, `RollsMax`, `ReplyMax`,
`ArmMax`, `MaxTaps`, `FewTaps`, `MaxDeaths`, `MaxLosses`, `LastDay`, `LastTime` and `Latest` bound queues and
counters in guards. `market` looks at one of its three places at a time: what they
share in the code, coins and stacks of the bag, is left out of `Bonds`.

Deadlock is not checked where a system comes to rest at its bounds (`settle`,
`market`, `hosts`) and in `flow`, whose second setting can stop a client by a tap
at the wrong moment (section 4).

**Fairness.** In `AccountSessions!FairSpec` the steps a thread takes by itself are
strongly fair: they wait for `_lock`, which every holder gives back before its
next blocking read, and a lock of Python's hands over to some waiter each time.
Clients, failures and crashes are not fair. In `BattleFlow!FairSpec` the client's
own transitions and the delivery of replies are weakly fair: the connection is one
ordered stream and the machine runs each frame. Taps and reconnects are not fair,
and `DeathsAreTold` allows for a fight that is over. `Turns!FairSpec` says that the
client of an auto fight keeps asking (moves, waves, the queue), reconnects not
counted. In `Inspector` the threads, and the operator's take and send once begun, are
strongly fair, for the same reason as above; the operator never has to act.

## 4. Findings

Two runs are listed as findings. `weekly_unpaid`: the week is rolled before the day. A
new ISO week wipes the record with the best score of the last day played in it, and
that day is never settled, although the comments at both ends
(challenge.py:271, titan_server.py:3751) say it has been. `weekly_tries`: the raid's
roll and the login (core.py:411-422, called at 461) top the same passes up by two
markers that do not know of each other. Who stays connected across 4AM, plays three
tries and logs in again has three more, where challenge.py:300 says "the top-up happens
once per period whenever it is first noticed" and test_challenge.py:193 expects "a
fourth run is refused once the passes are gone". `TriesWithinTopUps`, the property
that holds, counts both.

Other places where the code and its prose part, met while modelling. The
properties are stated around them, and say so:

* *Sessions.* `handle()` loads the account (titan_server.py:4179) and only then
  supersedes the old session; a save of the old one in between is overwritten, which
  the comment at 4184 excludes. A repeated LOGIN leaves the mark of the first
  dict behind, so `IdentitiesHold` is about one LOGIN per connection.
* *Editor.* Its guard is a look, not a lock: a client that logs in between guard and
  write is played while its file is written (save_editor.py:15, 429). `quiet` excludes it.
* *Settlement.* The rewards are saved while the snapshot of the fight is still in the
  account (titan_server.py:1267): a connection lost in between lets a paid fight be
  offered, and its drops paid, again (battle_resume.py:30). Account XP is written with
  the end of the fight, and a rating only once per stage, so `PaidOnce` speaks of these two. `to_state()` leaves out the tally of statuses a rating counts
  (battle.py:3782-3786). Temple drops are rolled at settlement with that day's sets,
  and `generated_drop_pool` filters test items where `generated_drops` does not.
* *Dialogue.* An auto kick (titan_server.py:1784) plays a move without looking at the
  death queue; a unit that move revives is killed on the client by the next Judge's
  drain (battle.py:3038-3082). Status rows out of band are not modelled (2839, 2933).
* *Engine.* A follow-up's heals and revivals never reach the wire; a follow-up kill
  undone by an on-death revival is shown as a death (core.py:1000-1012,
  wire.py:14); a passive's revival outside a skill is not announced; rules gated on
  the other side of ON_DAMAGE_DEALT never fire; chance rules at turn_start,
  after_action and battle_start always do; `passives.fire` grants statuses without
  asking immunity (test_client_contract_2.py:181); a `once` passive can fire again
  after a restart.
* *Gear.* The refusal of a locked mirror described above; `dismantle_bloodpacts`
  ignores locks (gear.py:365). A Soulmirror that a quest, the shop, a fight or the wheel
  pays is not sent (titan_server.py:3959-3967, 3212-3271, 1190-1198, 3602-3611): the
  client shows it after the next login, or once a draw, an upgrade or a lock of another
  one sends that bag. `wear_runes` stores an
  array that names one shard twice as it is (runes.py:41-82); the panel does not ask for it (`Sent`).
* *Roster.* roster.py:47 says that casts still at the exact boost are made ordinary;
  the code resets any of them whose levels have reached it.
* *Market.* A refused purchase still answers 513; an unaffordable draw is shown though
  it is not committed; `skill_up` charges for levels the nine-book cap swallows; sales
  ignore locks and parties; quest claims of the kind that has no `done` pay every time;
  sweep runs beyond the passes are free. A banner or option that is not published draws
  ten for nothing (`gacha_cost_row` answers no currency and a price of 0); `Draw` is about
  published ones. A new stack is not cut at the balance limit (core.py:1367), which
  `GrantItem` does.
* *Guild.* Leaving and founding again allows a second sign-in on one day, which is why
  `SignedOncePerGuild` counts foundings.
* *Bonds.* The stale sheet after a present (test_lobby_sheet.py:2).
* *Inspector.* Disarming puts the flag down before the held replies are out, so a new
  reply may pass them (`disarm`); a step sends while it holds `_lock`.
* *Updater.* An I/O error in the middle of an extraction leaves a directory that can be
  activated without some of its files (main.py:261-264): the pointer's marker is there,
  all files need not be. The rates screen imports the shipped settings; pruning may
  remove the directory a running server came from. UpdateManager.java:77-80 says of
  `active.txt` that "it can never drift from what main.py will actually load". With two
  taps it can: the second press has looked at the disk before the first one has
  extracted, the first names its snapshot and ends, the second deletes that snapshot
  (line 138) to extract it again, and a restart in between, or a zip that the first
  press has removed, leaves the name of a directory that is gone. The next start loads
  the shipped code, and if a directory without its marker is what is named, "already
  active" is what the button says until a reset or a newer release. `PointerIsThere`
  therefore speaks of what no overlap has touched since a lone press.

## 5. Theorems

Every theorem is about all values of the constants under the named assumptions of
the modules that declare them: bounds are numbers, sentinels are fresh, and the
design rows have the fields the code reads. Those that say more are named below. None of the
properties is inductive as it stands, but for a few simple ones; the strengthening
is part of the argument.

**`Finite_proofs`**. The prover has no induction over the folds of the community modules. These
lemmas get what is needed of `SumFunctionOnSet`, `Min` and `Max` from their definitions: a
finite family of sets that is not empty has a least one (`LeastSubset`), so a sum that is
not what it should be is so for a least set (`SumIsUnique`, `SumAdd`, `SumUnion`, `SumNat`).
A fold over a set (`FoldSet`) is the end of some run that takes each element once
(`RunExists`), so that what every step keeps, the fold keeps.

**`AccountSessions_proofs`** (over `SaveEditor`; any connections, players, effects,
identities).

* `TypeCorrect` needs `PhaseInv` beside the type: a thread past LOGIN has a player.
* `OwnerKeptAlways` and `OneWriterAlways` follow from `IInv`: `LockInv` (the lock
  is held exactly in the critical sections), `OwnDict` (no two threads share a
  dict), `PhaseInv`, `MarkInv` (a thread that has claimed its account is either in
  the live slot or marked, and never marked while it saves) and `KeptInv` (the
  owner's copy contains what it has saved). `OwnerKept` alone is not inductive: it
  takes `MarkInv` to know that no other thread is about to write.
* `ImplementsLedger` maps every step to a ledger step or a stutter, from the same
  invariant.
* `IdentitiesSafe` (assumes one LOGIN per connection) adds `IdInv`: an identity in the
  live slot or among the marks belongs to a running thread, so a new dict, which
  takes an unused identity, can be neither.
* `QuietEditStays` (the same assumption) adds `EditInv`: an unnamed thread holds
  nothing; what is on the desk was read from the file; while the edit is quiet nobody
  plays that account; and a thread that may yet write carries every quiet edit.

**`BattleSettlement_proofs`** (any fights, legs, days, losses). `SettlementInv` adds to
the type what thread and account may be at each point of a handler (`Places`,
`AtHand`), that an open fight is the snapshot of the file or on its way there
(`OpenIsKept`), and that a fight not concluded is unpaid in the file (`PaidInOrder`):
`OpenFightSafe`, `PaidSafe`, `ShardSafe`, `TypeCorrect`. `DropsSafe` is about what the drop
functions return for any rows and so needs no history. That a corridor pays all its pieces
(`AllPiecesPaid`) is a sum over waves: the shares of the first k waves are k quotients and
as much of the remainder as k waves take (`ShareOut`, by the least k for which they are
not), hence at the last wave the whole (`SharesAddUp`).

**`GuildWeekly_proofs`** (over `Guild`; any length of a week, allowance, scores,
ladder, clock).

* `TriesWithinAllowances`, `PaidOnce`, `WeekSettles` and `TypeCorrect` follow from
  `Inv`: both copies of the account, the file's and the connection's, satisfy
  `AccountInv` at the present time. Its parts are `ClockInv` (day and refill marker
  agree, and no clock of the record, nor the login's marker, is ahead of the time),
  `TriesInv` (tries are charged to the record's day and week or earlier ones; on the
  present day tries and passes left add up to what is `Allowed` at most, one allowance
  or, if a login of the day topped up, two) and `PaidInv` (the best score is
  the one banked for the record's day and week, payments are only for days before
  it). None of the properties is inductive: that a day is paid once takes that
  *no* payment names the record's own day, which the roll is about to settle, and
  that tries are bounded takes that a roll always moves to a day and week without
  tries, where the clocks' order comes in.
* The roll is one lemma (`RollKeeps`), by whether the day, the week or neither has
  changed; every action then keeps `Inv` by the lemma on the change it makes.
* `ToldOfWhatIsKept` adds `QueueInv`: what is queued has been paid and not told, no
  day is queued twice, and both copies have paid whatever was told. A connection
  lost between the roll, its save and the popup falls back on a file for which the
  same holds.
* `RaidUnchanged`: with the guild beside it the raid takes only its own steps.
  `SignedOnce` (assumes that the ladder of rewards climbs) by `GInv`: the sign-ins paid on a day and
  the one the guild still owes are at most one more than the guilds founded on it.

**`Missions_proofs`** (any quests, ladder, week, clock). `StepsSafe` from `StepInv`: in the
dict and in the file, every mission that counts missions has counted exactly the claims
of its window (`MetaCounts`), a record of a chain has progress only after its predecessor
(`InChains`), the ladder's total is its rungs (`OnLadder`). It is not inductive without
what the history must satisfy: the windows of claims are not after the stamps, nor the stamps
after the time (`Timely`), what was claimed in the present window is still done, and the last day
climbed is not ahead of UTC. Everything that only pays leaves the record alone
(`Same`); the fold by which a claim pays is one lemma. `DesignAssumption`, on rows that are not in
the repository: a mission is a special record (quests.py:588), and what follows a mission
in a chain is of its group, hence re-armed with it.

`StepsSafe` also says what is in the mailbox (`MailedOnce`): the letters of a kind and item,
summed over the mailbox, are the sums of the rungs the ladder's total has passed and of
the Karma ranks the Karma spent has reached (`Posted`). A day of the ladder passes one rung
more, which repeats after the last (`RungOfDay`, `NextRung`); a grant of Karma passes the
ranks between the old total and the new (`RanksCrossed`), and its letters are
exactly theirs. `PostInv` adds what makes this inductive: each letter is well formed, a letter that
was read stays in the box, and Karma stays on its ladder. What touches neither letters nor
Karma is framed once (`Outside`), handler by handler.

`OwedSafe` says that mail, a sweep and the repaired balance pay once, where an account can be
read for what it was paid (`RewardsApart`): what mail brings, what a sweep drops and the
diamonds come from nowhere else, a box holds one piece, and the ladder, Karma and the
runs of a sweep stay below BALANCE_MAX. The code promises nothing of the kind about its rows:
an item that both mail and a quest bring leaves no trace of which one brought it. TLC evaluates `RewardsApart`
as an assumption of the run. The invariant (`OwedInv`) is, of the dict and of the file alike:

* `Honest`: what is held of a reward of mail is the sum over the letters that were read; the pieces and
  the unopened boxes are the boxes received; the diamonds are those of the start and, once
  the account is of revision 2, the debt. A letter that is read must not be cut by
  BALANCE_MAX, and it is not: what is in the mailbox is what the ladder and the ranks owed
  (`Posted`), which bounds what was read (`ReadWasMailed`, `RoomForMail`).
* `Sweeping`, `Worked`: paid runs and the count of the running sweep stay within the runs that
  may be started, and what was paid plus what has elapsed (`Elapsed`) is what went by (`earned`),
  so stopping, settling and a login from the file move runs from one side to the other.
* Memory and file agree about the sweep, which makes a crash harmless: its handlers
  save before they answer.

Attachments and the boxes of the bag are paid by folds over items. `AttachedSound` and `RescueSound`
say what is left of a whole fold, from what one `GrantReward` and one `OpenOne` do.
Most handlers touch none of this (`Untouched`), so a step is `Fair` when it leaves the account honest
and the sweep as it was, and `FairStep` is the rest.

**`Lobby_proofs`** (over `MCMarket`). `EachPlaceAlone` says that the composition that is checked
takes only steps of `Market` or of `Bonds`.

*The counters* (any goods, cycles, limits, prices, banners, wheels, amounts, and starting
balances within BALANCE_MAX). `AllowancesSafe` from `MarketInv`, which holds of the dict of the
connection and of the file alike. Its heart is `Recorded`: the record of a good is either all
that was sold in the last window it sold in, stamped with the end of that window, or it is
empty, and then that window is over or sold nothing; and any stamp it bears is the end of a
window not after the present one. Neither half is inductive alone: the look at the shop and
the new login roll one copy and not the other, and the copy that was not rolled must still
agree with what was sold when it is read later. `Counters` adds that a free pull has stamped
its day, and that the spins of the day are those of a wheel record of today and none
otherwise. Windows are quotients: a record is over exactly when its reset has come
(`ResetFacts`), and a day never moves a window back (`WindowsPass`). The purse is one lemma per operation (`CurrencyHeld`,
`HandOverHeld`, `SpendHeld`, `CountHeld`): balances stay within their bounds, the pair of
diamonds included, and the books of the counters are as they were (`SameBooks`).

*The rooms* (any casts, scenes, answers, difficulties and supports). `TapsSafe` from `TapInv`: what was paid is what is chosen
(`PaidAsChosen`), no answer is chosen on two difficulties (`ChosenApart`), the scene on the
screen has the tags the account would send now and an answer on its way is not one of
another difficulty (`ScenesAreNow`), and every level below a support's was tapped
(`RisenByTaps`). That a scene always has an answer left is counted: with no more
difficulties than answers, those chosen elsewhere are fewer (`OneIsLeft`). It rests on
the client entering a stage and opening a scene only with no scene open and no tap on its
way (the guards of `EnterStage` and `AvgSync`): `stage_avg_choice` does not look.
`FightsSafe` from `SheetInv` and `NumbersInv`. The first says that every handler that moves a
number of a cast also sends its sheet, presents apart (`SheetIsSent`). From it both sides of
the equation of `FightsAsShown` are built of the same numbers, and they are equal once these
are numbers at all: that is the second, with Karma within its ladder (`KarmaSound`), ranks
and worn sets within bounds, and every sum over ladders, pieces and sets an integer
(`SheetsAreNumbers`). `ClimbedSound` is the climb over a ladder of any rungs.
`BondAssumption` asks of the design rows, beside their
types, that there are finitely many, that every rank of Karma needs something and that the
first rung of a growth table is positive.

*The diamonds.* `DiamondsSafe` from `LedgerInv`, again of connection and file alike:
beside the counters of `MarketInv`, the diamond mission has counted what the goods of
this copy came to and the rolls kept so far, the balances hold at most the rest, and a
roll that is held was the last one shown, at its price (`Ledger`). The last part is what
makes it inductive: the price is charged when the roll is kept, and the free pull of the
day may be another by then. The prices are sums over sets of any size, of which a step
changes one term (`SumChange`, `SpentMore`).

The theorem says when the books can be read off an account at all. `CountersApart`: a
mission counts the diamonds and one each good that is sold for them; neither goods nor
the bonus bring diamonds, and a spin costs none. That a full round of spins has paid its
bonus, the other half of `DiamondsAccountedFor`, is model-checked only, for a wheel whose
bonus nothing else brings (`BonusApart`): on the shipped one item 210 is a slot and the
bonus, and a balance does not tell which of the two it came from. TLC evaluates both as
assumptions of the run.

**`Casts_proofs`** (over `Roster` and `Gear`).

*The pieces* (any casts, slots, kinds). `WornSafe` and `ClientSafe` from `GearInv`: both
copies are `Neat` (a piece is worn by one cast in one slot of its kind, and is in the
bag), no more is rolled than the bound, and, when `Careful`, the untold slots are in the
bag and the client shows the whole without them (`View`). The lemmas are about a free
uid or slot id (a least element of a finite set), what filing, wearing, destroying and
upgrading do, and what a merging message leaves of such a view. `ClientSafe`
assumes `Careful`; `SaveAssumption` says that the file the run starts from is neat.

*The casts* (any characters, caps, formations, number of casts). `NamesSafe`,
`LevelsSafe` and `GrownSafe` from `RosterInv`: the counts, each cast within its caps
(`IsRoster`), skins owned (`Dressed`), formations of live uids (`Placed`) that are the
casts chosen, the client's copy, and levels at most what was fed. The sum of skill levels is
counted as a set of pairs, so that the lemmas on moving and merging levels (`TotalMove`,
`TotalOfBoth`) follow from cardinalities, without induction. `RosterAssumption` asks
that a tutorial level is positive and fits under its cast's starting stars. `GrownSafe`
adds `Freed`: once a request was served after the claim the account is stamped, because
what is answered between the claim and its reset is nothing, and the login after a crash
there stamps before it answers. Then every handler is shown to take nothing: growth by
its caps, feeding and teaching by the invariant on what a cast holds already.

**`Client_proofs`** (over `MCHosts` and `BattleFlow`): what a client is served.

*The hosts* (any releases, files, presses, connections, replies). `EachHostAlone` says that the
composition that is checked takes only steps of one host or the other. On the phone, `PInv`: a
press that is `lone` is the only one (`OneAtATime`), and while nothing is tangled the
named snapshot has its marker and is neither cleared nor pruned by the press there is
(`PointerSpared`). What a press of any kind leaves alone is one lemma (`PressGoes`), and
the steps that sweep, write and name are the others; after a reset with a clean path only the shipped code is imported
(`ShippedOnly`). On the desk, `SInv`: a thread that holds the send lock has the next place of
the key stream, everything on the wire was spoken in order (`Spoken`, `InLine`), and with
`Ordered`, as long as nothing was disarmed: what is on the wire, being released, held, and being
answered are increasing in that order.

*The fight* (any party, slots, waves and settings). `FlowInv` = `Typed` /\
`InLoop` /\ `InAccord`. `InStep` says, for each state of the client, which replies can be
on their way and what the server has ready when none is; `OnScreen` says what is up
while nothing is asked. `InAccord` is about `WillStand`, the board once the client has
read its inbox: it is who the server has alive plus whose death is queued, and no unit
is both. From it `AgreementSafe` and `StuckSafe`; `OnePushSafe` and `JudgePaysSafe` by
the shape of a reply (`GoodReply`), one lemma per handler, for every client.

**What stays with TLC.**

* Liveness: `LoginCompletes`, `StaleThreadEnds`, `DeathsAreTold`, `ThreadsReadOn`,
  `NobodyStarves`. Fairness and ENABLED are out of the prover's reach.
* `Turns`: `SomebodyMoves`, `DeathsAreShown`, `NeverTorn`. `Skills` resolves follow-ups with
  RECURSIVE operators, which the prover does not take.
* The rounds of the wheel in `DiamondsAccountedFor`.
* `weekly_unpaid` and `weekly_tries`, counterexamples.

## 6. Not modelled, and the plan

Not modelled, with reasons, in the components of `PROJECT.json`: damage arithmetic
and compiled skill tables (calibrated values, nothing to compare them with), the text
of a payload and the frame codec (formatting), the scores of the AI (any candidate may
be taken), static payloads, file serving and the offline tools.

Next:

1. `Turns` without RECURSIVE: the follow-ups as a fold over their bounded depth; then
   `SomebodyMoves`.
