------------------------------ MODULE MCHosts ------------------------------
(* The server on the phone and on the desk.  The updater exists only in the *)
(* app; the inspector is deliberately not shipped with it (titan_server.py  *)
(* puts a stub in its place): a behaviour is one host or the other.  On the *)
(* phone it is either one in which the server is started and stopped while  *)
(* a few presses run, or one of more presses in which it is never started.  *)
EXTENDS Updater, Inspector

CONSTANT FewTaps   \* bound on presses where the server is started

VARIABLE host

allVars == <<host, updateVars, iVars>>

HostsInit == host \in {"phone", "button", "desk"} /\ UpdateInit /\ InspectorInit

HostsNext ==
  /\ UNCHANGED host
  /\ \/ host = "phone" /\ UpdateNext /\ taps' <= FewTaps /\ UNCHANGED iVars
     \/ host = "button" /\ UpdateNext /\ process' = Cold /\ UNCHANGED iVars
     \/ host = "desk" /\ InspectorNext /\ UNCHANGED updateVars

HostsSpec == HostsInit /\ [][HostsNext]_allVars /\ InspectorFairness

MCFiles == <<"settings", "titan_server">>
MCBuilds == <<"h1", "h2">>
=============================================================================
