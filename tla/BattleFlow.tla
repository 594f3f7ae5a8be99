----------------------------- MODULE BattleFlow -----------------------------
(***************************************************************************)
(* One fight between a phone and the server, at the level of the battle    *)
(* RPCs.  The server side is `battle_replies` and the handlers under it    *)
(* (titan_server.py) over the Battle object (battle.py); the client is the *)
(* state machine their comments describe and is marked external.           *)
(*                                                                         *)
(* Data is abstracted to who lives, who acts and what is owed to the       *)
(* client: a hit kills any set of units, a housekeeping pass kills or      *)
(* burns any set, and the move gauges seat any living unit.  The queue of  *)
(* out-of-band rows is a set: a drain takes a death before a tick, and any *)
(* of the deaths.  A request is handled at the moment the client sends it: *)
(* one thread serves the connection in order, and no other step reads the  *)
(* Battle in between.                                                      *)
(***************************************************************************)
EXTENDS Naturals, Sequences, FiniteSets, SequencesExt

CONSTANTS
  Party,    \* order keys of the player's units, kept for the whole fight
  Slots,    \* enemy order keys, handed out again in every wave
  NoOne,    \* acting_unit() of an empty field
  WaveMax,  \* waves in the stage
  Fights    \* the fights to look at, each a Setting

Asides == {"Auto", "StartTurn", "CharInfo", "ReportError", "Retreat", "Reconnect"}

\* boss: the stage row's _book is BOSS_BOOK; revives: a passive outside an
\* attack may raise a fallen ally; reasks: what the client asks when it has
\* played an attack; asides: what it asks outside its turn loop.  Bounds:
\* burns, the units that survive a tick in one housekeeping pass, and inbox,
\* the replies on their way from which on nothing is asked aside.
Setting == [party : SUBSET Party \ {{}}, boss : BOOLEAN, revives : BOOLEAN,
            reasks : SUBSET {"Judge", "StartTurn"} \ {{}}, asides : SUBSET Asides,
            burns : Nat, inbox : Nat]

FlowAssumption ==
  /\ Party # {} /\ Slots # {} /\ Party \cap Slots = {}
  /\ NoOne \notin Party \cup Slots
  /\ WaveMax \in Nat \ {0}
  /\ Fights \subseteq Setting
ASSUME FlowAssumption

Orders == Party \cup Slots

VARIABLES
  fight,     \* its setting, which no step changes
  battle,    \* the Battle object
  screen,    \* state of the client's battle machine
  standing,  \* units the client has not played a death row for
  prefAuto,  \* the client's own auto-battle setting
  inbox      \* replies on their way, oldest first; each is read in one frame

vars == <<fight, battle, screen, standing, prefAuto, inbox>>

Row == [order : Orders, die : BOOLEAN, wave : 1..WaveMax]

Battle == [wave : 1..WaveMax, alive : SUBSET Orders,
           actor : Orders \cup {NoOne}, queue : SUBSET Row,
           turnOpen : BOOLEAN, waveBegun : BOOLEAN, auto : BOOLEAN]

Pushes == {"WaveBegin", "StartTurn", "Attack"}     \* POPULATES_BATTLE_CMD
Cmds == Pushes \cup {"Judge", "WaveEnd", "NextWave", "AutoSet", "CharInfo",
                     "Retreat"}
Message == [cmd : Cmds, die : SUBSET Orders, up : SUBSET Orders, won : BOOLEAN]
Screens == {"ready", "asking", "opening", "judging", "skill", "perform",
            "rush", "arriving", "over", "wedged"}

Msg(c) == [cmd |-> c, die |-> {}, up |-> {}, won |-> FALSE]
Hit(dead, raised) == [Msg("Attack") EXCEPT !.die = dead, !.up = raised]
Send(reply) == inbox' = IF reply = <<>> THEN inbox ELSE Append(inbox, reply)

-----------------------------------------------------------------------------
(* The Battle object.                                                      *)

WaveCleared(b) == b.alive \cap Slots = {}
PartyWiped(b) == b.alive \cap Party = {}
Decided(b) == WaveCleared(b) \/ PartyWiped(b)
PlayerTurn(b) == b.actor \in Party

\* Whoever the gauges bring to the front; nobody on an empty field.
Seats(alive) == IF alive = {} THEN {NoOne} ELSE alive

Rows(b, dead, burnt) == [order : dead, die : {TRUE}, wave : {b.wave}]
                        \cup [order : burnt, die : {FALSE}, wave : {b.wave}]

\* The start of the next turn: after-action passives and start-of-turn ticks
\* kill or burn units one after another until somebody can act.
StartOfTurn(b) ==
  \E dead \in SUBSET b.alive :
  \E burnt \in {s \in SUBSET (b.alive \ dead) : Cardinality(s) <= fight.burns},
     back \in IF fight.revives THEN SUBSET (fight.party \ (b.alive \ dead)) ELSE {{}} :
  \E next \in Seats((b.alive \ dead) \cup back) :
    battle' = [b EXCEPT !.alive = (@ \ dead) \cup back,
                        !.queue = @ \cup Rows(b, dead, burnt),
                        !.actor = next]

\* A resolved move closes the turn and runs the housekeeping.
EndTurn(b) == StartOfTurn([b EXCEPT !.turnOpen = FALSE])

\* The acting unit's move: its own payload tells every death and revival it
\* causes, and the housekeeping runs before the reply is sent.
Move(b, before) ==
  \E dead \in SUBSET b.alive,
     raised \in IF PlayerTurn(b) THEN SUBSET (fight.party \ b.alive) ELSE {{}} :
    /\ EndTurn([b EXCEPT !.alive = (@ \ dead) \cup raised])
    /\ Send(Append(before, Hit(dead, raised)))

Due(b) == {r \in b.queue : r.wave = b.wave}
DeathsDue(b) == {r \in Due(b) : r.die}

\* Variant: the rows a limited drain did not take are not put back.
DrainedOnce(b, answer) ==
  IF Due(b) = {}
  THEN battle' = [b EXCEPT !.queue = {}] /\ Send(answer)
  ELSE \E r \in IF DeathsDue(b) = {} THEN Due(b) ELSE DeathsDue(b) :
         /\ battle' = [b EXCEPT !.queue = {}]
         /\ Send(<<Hit(IF r.die THEN {r.order} ELSE {}, {})>> \o answer)

\* Variant: the drain takes rows as they come, ticks before deaths.
DrainedInOrder(b, answer) ==
  IF Due(b) = {}
  THEN battle' = [b EXCEPT !.queue = {}] /\ Send(answer)
  ELSE \E r \in Due(b) :
         /\ battle' = [b EXCEPT !.queue = @ \ {r}]
         /\ Send(<<Hit(IF r.die THEN {r.order} ELSE {}, {})>> \o answer)

\* The drain around a reply that carries no push: one row of this wave, a
\* death first, ahead of the answer; rows of an older wave are dropped.
Drained(b, answer) ==
  IF Due(b) = {}
  THEN battle' = [b EXCEPT !.queue = {}] /\ Send(answer)
  ELSE \E r \in IF DeathsDue(b) = {} THEN Due(b) ELSE DeathsDue(b) :
         /\ battle' = [b EXCEPT !.queue = @ \ {r}]
         /\ Send(<<Hit(IF r.die THEN {r.order} ELSE {}, {})>> \o answer)

\* play_turn_msgs: silent without an actor or a living target.
PlayTurn(b, before) ==
  IF b.actor = NoOne \/ Decided(b) THEN Drained(b, before) ELSE Move(b, before)

-----------------------------------------------------------------------------
(* The requests of the client's turn loop.                                 *)

\* Variant: the turn is opened behind a drained row.
OpenTurnFlushed(b) ==
  IF b.turnOpen THEN Drained(b, <<>>)
  ELSE Drained([b EXCEPT !.turnOpen = TRUE, !.waveBegun = TRUE],
               (IF b.waveBegun THEN <<>> ELSE <<Msg("WaveBegin")>>)
               \o <<Msg("StartTurn")>>)

\* Ready (100) or StartTurn (101): open the wave once, then the turn.
OpenTurn(b) ==
  IF b.turnOpen THEN Drained(b, <<>>)
  ELSE /\ battle' = [b EXCEPT !.turnOpen = TRUE, !.waveBegun = TRUE]
       /\ Send((IF b.waveBegun THEN <<>> ELSE <<Msg("WaveBegin")>>)
               \o <<Msg("StartTurn")>>)

\* A wipe on a boss stage is announced as a win.
WaveEnd(b) == [Msg("WaveEnd") EXCEPT !.won = WaveCleared(b) \/ fight.boss]

\* Variant: a decided wave ends over whatever is queued.
JudgeEndsAtOnce(b) ==
  IF Decided(b) THEN battle' = b /\ Send(<<WaveEnd(b)>>)
  ELSE IF DeathsDue(b) # {} THEN Drained(b, <<>>)
  ELSE IF ~PlayerTurn(b) THEN PlayTurn(b, <<>>)
  ELSE IF b.auto THEN PlayTurn(b, <<Msg("Judge")>>)
  ELSE Drained(b, <<Msg("Judge")>>)

\* Variant: auto-battle hides the bar and nobody plays the move.
JudgeIgnoresAuto(b) ==
  IF DeathsDue(b) # {} THEN Drained(b, <<>>)
  ELSE IF Decided(b) THEN Drained(b, IF Due(b) = {} THEN <<WaveEnd(b)>> ELSE <<>>)
  ELSE IF ~PlayerTurn(b) THEN PlayTurn(b, <<>>)
  ELSE Drained(b, <<Msg("Judge")>>)

\* Judge (200): a queued death answers on its own; a decided wave ends once
\* nothing is owed; otherwise the bar, the auto move or the enemy's move.
Judge(b) ==
  IF DeathsDue(b) # {} THEN Drained(b, <<>>)
  ELSE IF Decided(b) THEN Drained(b, IF Due(b) = {} THEN <<WaveEnd(b)>> ELSE <<>>)
  ELSE IF ~PlayerTurn(b) THEN PlayTurn(b, <<>>)
  ELSE IF b.auto THEN PlayTurn(b, <<Msg("Judge")>>)
  ELSE Drained(b, <<Msg("Judge")>>)

\* Attack (201) from the skill bar.
Attack(b) == Move(b, <<>>)

\* NextWave (502): new mobs on the recycled keys; whatever is queued goes.
NextWave(b) ==
  \E foes \in SUBSET Slots \ {{}} :
  \E next \in Seats((b.alive \cap Party) \cup foes) :
    /\ battle' = [b EXCEPT !.wave = @ + 1, !.alive = (@ \cap Party) \cup foes,
                           !.queue = {}, !.actor = next,
                           !.turnOpen = FALSE, !.waveBegun = FALSE]
    /\ Send(<<[Msg("NextWave") EXCEPT !.up = foes]>>)

\* What a snapshot keeps: no queue, no open turn, no begun wave.
Restored(b) == [b EXCEPT !.queue = {}, !.turnOpen = FALSE, !.waveBegun = FALSE]

\* What a client does when a perform ends or a screen comes up.
Ask(cmd) ==
  CASE cmd = "Judge" -> Judge(battle) /\ screen' = "judging"
    [] cmd = "StartTurn" -> OpenTurn(battle) /\ screen' = "asking"

-----------------------------------------------------------------------------
(* The client's turn loop.                                                 *)

\* The scene is up: Ready carries the remembered auto setting, StartTurn
\* carries nothing and is what a client without auto sends.
AskTurn ==
  /\ screen = "ready"
  /\ \/ OpenTurn([battle EXCEPT !.auto = prefAuto])
     \/ ~prefAuto /\ OpenTurn(battle)
  /\ screen' = "asking"
  /\ UNCHANGED <<fight, standing, prefAuto>>

\* The empty combo of StartTurn ends in SituationJudge, which asks.
AskJudge ==
  /\ screen = "opening"
  /\ Ask("Judge")
  /\ UNCHANGED <<fight, standing, prefAuto>>

\* An attack has been played out.
PerformEnd ==
  /\ screen = "perform"
  /\ \E cmd \in fight.reasks : (cmd = "StartTurn" => ~battle.turnOpen) /\ Ask(cmd)
  /\ UNCHANGED <<fight, standing, prefAuto>>

\* A tap on a skill: the bar is hidden while auto is on.
Tap ==
  /\ screen = "skill" /\ ~prefAuto
  /\ Attack(battle)
  /\ screen' = "judging"
  /\ UNCHANGED <<fight, standing, prefAuto>>

AskWave ==
  /\ screen = "rush"
  /\ NextWave(battle)
  /\ screen' = "arriving"
  /\ UNCHANGED <<fight, standing, prefAuto>>

\* What a message does to the units the client draws: those it takes off the
\* field, then those it puts up.  A wave recycles every enemy key.
Lost(m) == IF m.cmd = "NextWave" THEN Slots ELSE m.die

\* A reply holds one or two messages.
LostIn(reply) == UNION {Lost(reply[i]) : i \in DOMAIN reply}
UpIn(reply) == UNION {reply[i].up \ UNION {Lost(reply[j]) : j \in i + 1 .. Len(reply)} :
                        i \in DOMAIN reply}
Shown(drawn, reply) == (drawn \ LostIn(reply)) \cup UpIn(reply)

\* The machine's transition for a message.  Attack re-enters Perform: while
\* one is running the transition is dropped and nothing ends it.
Enters(at, m) ==
  CASE m.cmd = "StartTurn" -> "opening"
    [] m.cmd = "Attack" -> IF at \in {"perform", "opening", "wedged"} THEN "wedged"
                           ELSE "perform"
    [] m.cmd = "Judge" -> IF at = "wedged" THEN at ELSE "skill"
    [] m.cmd = "WaveEnd" -> IF m.won /\ ~fight.boss /\ battle.wave < WaveMax
                            THEN "rush" ELSE "over"
    [] m.cmd = "NextWave" -> "ready"
    [] m.cmd = "Retreat" -> "over"
    [] OTHER -> at

Lands(at, reply) ==
  IF Len(reply) = 1 THEN Enters(at, reply[1])
  ELSE Enters(Enters(at, reply[1]), reply[2])

\* The messages of one reply are read in the same frame.
Deliver ==
  /\ inbox # <<>> /\ screen \notin {"wedged", "over"}
  /\ screen' = Lands(screen, Head(inbox))
  /\ standing' = Shown(standing, Head(inbox))
  /\ inbox' = Tail(inbox)
  /\ UNCHANGED <<fight, battle, prefAuto>>

-----------------------------------------------------------------------------
(* Requests from outside the loop, each a member of fight.asides.              *)

InFight == screen \notin {"over", "wedged", "ready"}

Aside(cmd) == cmd \in fight.asides /\ InFight /\ Len(inbox) < fight.inbox

\* The auto button: the server kicks an open player turn.
SetAuto ==
  LET b == [battle EXCEPT !.auto = ~prefAuto]
  IN /\ Aside("Auto")
     /\ prefAuto' = ~prefAuto
     /\ IF b.auto /\ b.turnOpen /\ PlayerTurn(b)
        THEN PlayTurn(b, <<Msg("AutoSet")>>)
        ELSE Drained(b, <<Msg("AutoSet")>>)
     /\ UNCHANGED <<fight, screen, standing>>

\* TurnEnd asks for a turn again while StartTurn is still played out.
ReaskTurn ==
  /\ Aside("StartTurn") /\ screen = "opening"
  /\ OpenTurn(battle)
  /\ UNCHANGED <<fight, screen, standing, prefAuto>>

\* The unit-detail popup.
CharInfo ==
  /\ Aside("CharInfo")
  /\ Drained(battle, <<Msg("CharInfo")>>)
  /\ UNCHANGED <<fight, screen, standing, prefAuto>>

\* The client reports a status row it cannot apply; nothing answers it.
ReportError ==
  /\ Aside("ReportError")
  /\ Drained(battle, <<>>)
  /\ UNCHANGED <<fight, screen, standing, prefAuto>>

Retreat ==
  /\ Aside("Retreat")
  /\ Drained(battle, <<Msg("Retreat")>>)
  /\ UNCHANGED <<fight, screen, standing, prefAuto>>

\* The connection or the server is lost, the snapshot is restored and the
\* offer accepted: the client rebuilds the field from BattleDatas.
Reconnect ==
  /\ "Reconnect" \in fight.asides /\ screen # "over"
  /\ battle' = Restored(battle)
  /\ standing' = battle.alive
  /\ screen' = "ready"
  /\ inbox' = <<>>
  /\ UNCHANGED <<fight, prefAuto>>

Finished == screen = "over" /\ UNCHANGED vars

-----------------------------------------------------------------------------
Init ==
  /\ fight \in Fights
  /\ \E foes \in SUBSET Slots \ {{}} :
     \E first \in fight.party \cup foes :
       battle = [wave |-> 1, alive |-> fight.party \cup foes, actor |-> first,
                 queue |-> {}, turnOpen |-> FALSE, waveBegun |-> FALSE,
                 auto |-> FALSE]
  /\ standing = battle.alive
  /\ screen = "ready"
  /\ prefAuto \in BOOLEAN
  /\ inbox = <<>>

Next ==
  \/ AskTurn \/ AskJudge \/ PerformEnd \/ Tap \/ AskWave \/ Deliver
  \/ SetAuto \/ ReaskTurn \/ CharInfo \/ ReportError \/ Retreat \/ Reconnect \/ Finished

Spec == Init /\ [][Next]_vars

\* The machine runs by itself; only the player's taps and losses are free.
FairSpec ==
  /\ Spec
  /\ WF_vars(AskTurn) /\ WF_vars(AskJudge) /\ WF_vars(PerformEnd)
  /\ WF_vars(AskWave) /\ WF_vars(Deliver)

-----------------------------------------------------------------------------
(* Properties.                                                             *)

\* Every variable stays in its range; rows are stamped with a real wave.
TypeOK ==
  /\ fight \in Fights
  /\ battle \in Battle
  /\ screen \in Screens
  /\ standing \subseteq Orders
  /\ prefAuto \in BOOLEAN
  /\ inbox \in Seq(Seq(Message))

\* The client's field once everything on its way has been read: who is put
\* up, or stands already, and is not taken off again.
KeptFrom(o, n) == \A k \in n .. Len(inbox) : o \notin LostIn(inbox[k])
WillStand == {o \in Orders :
                \/ o \in standing /\ KeptFrom(o, 1)
                \/ \E n \in 1 .. Len(inbox) : o \in UpIn(inbox[n]) /\ KeptFrom(o, n + 1)}

\* The client asks nothing while it plays what it was told: a row that
\* answers a popup can reach it in the middle of an attack.
LoopOnly == fight.asides \subseteq {"Reconnect"}

\* The two sides agree on who is standing: what the client will draw is who
\* the server has alive, plus exactly the deaths still queued for it.  Kills
\* inside a payload, out-of-band deaths, wave changes that recycle the order
\* keys and restored fights all have to keep it.  For a unit that a passive
\* raises outside an attack there is no row, and a move the auto button plays
\* may raise a unit whose death is still queued behind it.
AgreeOnStanding ==
  LoopOnly /\ ~fight.revives =>
    WillStand = battle.alive \cup {r.order : r \in DeathsDue(battle)}

\* At most one push into the client's one command field per reply; WaveBegin
\* with StartTurn is the one pair allowed (POPULATES_BATTLE_CMD).
OnePush ==
  [][ Len(inbox') > Len(inbox) =>
        LET reply == Last(inbox')
        IN \A i, j \in DOMAIN reply :
             i # j /\ reply[i].cmd \in Pushes /\ reply[j].cmd \in Pushes
               => reply = <<Msg("WaveBegin"), Msg("StartTurn")>> ]_vars

\* No death waits out a Judge: a judge asked while one is queued is answered
\* with a death, whatever ticks are queued beside it.
JudgePays ==
  [][ (screen \in {"opening", "perform"} /\ screen' = "judging"
       /\ DeathsDue(battle) # {}) =>
        \E r \in DeathsDue(battle) :
          \E i \in DOMAIN Last(inbox') : r.order \in Last(inbox')[i].die ]_vars

\* The client is never told to perform while it performs: nothing would end
\* the second one and the fight idles for good.
NeverWedged == LoopOnly => screen # "wedged"

\* A client waiting on the server has an answer coming: no request of the
\* loop is answered with silence, and a hidden skill bar is never left up.
NeverParked ==
  LoopOnly =>
    (\/ screen \in {"asking", "judging", "arriving"}
     \/ screen = "skill" /\ prefAuto
     => inbox # <<>>)

\* The turn loop alone never leaves the client stuck.
NeverStuck == TypeOK /\ NeverWedged /\ NeverParked

\* Every death queued out of band is eventually played on the client, unless
\* the unit is raised again, the client is wedged or the fight is over.
DeathsAreTold ==
  \A o \in Orders :
    (\E r \in DeathsDue(battle) : r.order = o)
      ~> (o \notin standing \/ o \in battle.alive \/ screen \in {"wedged", "over"})

=============================================================================
