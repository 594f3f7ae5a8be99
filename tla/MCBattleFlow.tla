---------------------------- MODULE MCBattleFlow ----------------------------
(* Two fights: a party of two whose client keeps to its turn loop and may   *)
(* reconnect, and one unit in a boss fight whose client asks everything.    *)
EXTENDS BattleFlow

CONSTANTS p1, p2

Loop == [party |-> {p1, p2}, boss |-> FALSE, revives |-> FALSE,
         reasks |-> {"Judge"}, asides |-> {"Reconnect"}, burns |-> 1, inbox |-> 1]
Asking == [party |-> {p1}, boss |-> TRUE, revives |-> TRUE,
           reasks |-> {"Judge", "StartTurn"}, asides |-> Asides \ {"Reconnect"},
           burns |-> 0, inbox |-> 1]
MCFights == {Loop, Asking}

=============================================================================
