--------------------------- MODULE MCGuildWeekly ---------------------------
(* Two short weeks: every hour of the roll, on few tries and few guilds.   *)
EXTENDS Guild

MCSignLimits == <<1, 2, 3>>
=============================================================================
