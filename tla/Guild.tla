-------------------------------- MODULE Guild --------------------------------
(***************************************************************************)
(* The guild of one around the Guild Weekly (player_state/guild.py and the *)
(* guild handlers of titan_server.py): it is founded for Mira, left for    *)
(* nothing, and signed in to once a day.  Every handler that changes it    *)
(* saves the whole account before it answers, so a lost connection loses   *)
(* nothing of it, and what the raid has rolled in memory is saved with it. *)
(* Left out: its name, badge, texts and settings.                          *)
(***************************************************************************)
EXTENDS GuildWeekly, FiniteSetsExt

CONSTANTS
  SignLimits,  \* GUILD_SIGN_LIMITS
  Foundings    \* bound: guilds the player's Mira pays for

GuildAssumption ==
  /\ SignLimits \in Seq(Nat \ {0}) /\ SignLimits # <<>>
  /\ Foundings \in Nat
ASSUME GuildAssumption

\* The ladder climbs, so one sign-in is never worth two rewards.
LadderAssumption ==
  \A i, j \in DOMAIN SignLimits : i < j => SignLimits[i] < SignLimits[j]
ASSUME LadderAssumption

VARIABLES
  guild,    \* <<>> or <<the guild>>
  funds,    \* how many foundings the player can still pay
  founded,  \* [period -> guilds founded in it]
  signs     \* [period -> sign-in rewards paid in it]

guildVars == <<guild, funds, founded, signs>>

NewGuild == [day |-> Period(now), sum |-> 0, paid |-> 0, signed |-> FALSE]

\* Variant: the day is rolled without being stamped.
SignDayUnstamped(g) ==
  IF g.day = Period(now) THEN g ELSE [g EXCEPT !.sum = 0, !.paid = 0, !.signed = FALSE]

\* _roll_sign_day
SignDay(g) ==
  IF g.day = Period(now) THEN g
  ELSE [g EXCEPT !.day = Period(now), !.sum = 0, !.paid = 0, !.signed = FALSE]

\* Refused when there is a guild already, no name or not enough Mira.
Found ==
  /\ guild = <<>> /\ funds > 0
  /\ guild' = <<NewGuild>>
  /\ funds' = funds - 1
  /\ founded' = [founded EXCEPT ![Period(now)] = @ + 1]
  /\ UNCHANGED signs

\* Quit and disband are the same.
Quit ==
  /\ guild # <<>>
  /\ guild' = <<>>
  /\ UNCHANGED <<funds, founded, signs>>

\* guild_sign runs whenever the panel is opened: the first of the day counts,
\* and every tier between what was paid and the count is paid.
Sign ==
  \E g \in {SignDay(x) : x \in {guild[i] : i \in DOMAIN guild}} :
    LET sum == IF g.signed THEN g.sum ELSE g.sum + 1
        earned == {i \in DOMAIN SignLimits : i > g.paid /\ SignLimits[i] <= sum}
    IN /\ guild' = <<[g EXCEPT !.signed = TRUE, !.sum = sum,
                              !.paid = IF earned = {} THEN @ ELSE Max(earned)]>>
       /\ signs' = [signs EXCEPT ![Period(now)] = @ + Cardinality(earned)]
       /\ UNCHANGED <<funds, founded>>

\* guild_json rolls the day in memory; nothing but the clock tells it apart
\* from the roll of the next sign-in.
ShowGuild ==
  /\ guild # <<>>
  /\ guild' = <<SignDay(guild[1])>>
  /\ UNCHANGED <<funds, founded, signs>>

\* Only looking saves nothing.
GuildRequest == \/ (Found \/ Quit \/ Sign) /\ Keep
                \/ ShowGuild /\ at = "lobby" /\ UNCHANGED vars

GuildInit ==
  /\ Init
  /\ guild = <<>> /\ funds = Foundings
  /\ founded = [p \in Periods |-> 0] /\ signs = [p \in Periods |-> 0]

GuildNext ==
  \/ Next /\ UNCHANGED guildVars
  \/ GuildRequest

GuildSpec == GuildInit /\ [][GuildNext]_<<vars, guildVars>>

-----------------------------------------------------------------------------
\* A day's sign-in pays once: opening the panel again pays nothing, on either
\* side of 4AM, and a second reward on one day costs a second guild.
SignedOncePerGuild ==
  \A p \in Periods : signs[p] <= 1 + founded[p]

=============================================================================
