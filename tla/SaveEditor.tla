----------------------------- MODULE SaveEditor -----------------------------
(***************************************************************************)
(* server/save_editor.py beside the game server: one edit request at a     *)
(* time, guarded by the registry of live connections, read from and        *)
(* written to the same account files without the server's lock.            *)
(*                                                                         *)
(* The registry the guard reads is the set of connections that are not     *)
(* "none": the in-memory list when both share one process (Android), the   *)
(* published file when they do not.  The file is written in the critical   *)
(* section that changes the list and is ignored once its writer is dead,   *)
(* so both show the same connections at every step of this model.          *)
(***************************************************************************)
EXTENDS AccountSessions

VARIABLES ed,       \* where apply_edits is
          edPid,    \* the account it edits
          edMem,    \* what _read returned, with the edit applied
          quiet,    \* history: no connection arrived since the guard
          edits     \* history: edits written while quiet, per account

editorVars == <<ed, edPid, edMem, quiet, edits>>
allVars == <<vars, editorVars>>

EdPhases == {"rest", "guarded", "edited", "writing"}

EdTypeOK ==
  /\ TypeOK
  /\ ed \in EdPhases
  /\ edPid \in Pids \cup {None}
  /\ edMem \in Images
  /\ quiet \in BOOLEAN
  /\ edits \in [Pids -> Images]

EdInit ==
  /\ Init
  /\ ed = "rest"
  /\ edPid = None
  /\ edMem = {}
  /\ quiet = TRUE
  /\ edits = [p \in Pids |-> {}]

(* Variant: a client that has not logged in yet is not counted.            *)
PlayingNamed(p) == \E c \in Conns : pc[c] # "none" /\ who[c] = p

(* _guard_live: refused while the player, or a client that has not logged  *)
(* in yet, is connected.                                                   *)
Playing(p) == \E c \in Conns : pc[c] # "none" /\ who[c] \in {None, p}

Guard(p) ==
  /\ ed = "rest"
  /\ ~Playing(p)
  /\ ed' = "guarded"
  /\ edPid' = p
  /\ quiet' = TRUE
  /\ UNCHANGED <<vars, edMem, edits>>

(* _read and the edits themselves, one change to the account.              *)
ReadAndEdit(e) ==
  /\ ed = "guarded"
  /\ file[edPid] = "whole"
  /\ e \notin used
  /\ used' = used \cup {e}
  /\ edMem' = disk[edPid] \cup {e}
  /\ ed' = "edited"
  /\ UNCHANGED <<storeVars, pc, who, mem, ref, live, saved, kept,
                 edPid, quiet, edits>>

(* _write, first half: the server's own temporary file name, no lock.      *)
EditorOpenTmp ==
  /\ ed = "edited"
  /\ tmp' = [tmp EXCEPT ![edPid] = TRUE]
  /\ ed' = "writing"
  /\ UNCHANGED <<file, disk, lock, superseded, sessionVars,
                 edPid, edMem, quiet, edits>>

(* A server thread has the same temporary file open.                       *)
SharedTmp(p) == \E c \in Conns : lock = c /\ who[c] = p

(* _write, second half.  With two writers on the one file the JSON that is *)
(* moved into place may be either's or neither's.                          *)
EditorReplace ==
  /\ ed = "writing"
  /\ tmp[edPid]
  /\ \/ /\ file' = [file EXCEPT ![edPid] = "whole"]
        /\ disk' = [disk EXCEPT ![edPid] = edMem]
     \/ /\ SharedTmp(edPid)
        /\ file' = [file EXCEPT ![edPid] = "torn"]
        /\ UNCHANGED disk
  /\ tmp' = [tmp EXCEPT ![edPid] = FALSE]
  /\ edits' = IF quiet THEN [edits EXCEPT ![edPid] = edMem] ELSE edits
  /\ ed' = "rest"
  /\ edPid' = None
  /\ edMem' = {}
  /\ UNCHANGED <<lock, superseded, sessionVars, quiet>>

(* The request raises (no such account, an unreadable one, a write error,  *)
(* the temporary file moved away) or the editor is killed.                 *)
EditorFails ==
  /\ ed # "rest"
  /\ ed' = "rest"
  /\ edPid' = None
  /\ edMem' = {}
  /\ UNCHANGED <<vars, quiet, edits>>

(* The server's os.replace while the editor has the file open too.         *)
TornSave(c) ==
  /\ pc[c] = "saving"
  /\ ed = "writing" /\ edPid = who[c]
  /\ tmp[edPid]
  /\ lock' = None
  /\ file' = [file EXCEPT ![edPid] = "torn"]
  /\ tmp' = [tmp EXCEPT ![edPid] = FALSE]
  /\ pc' = [pc EXCEPT ![c] = "idle"]
  /\ UNCHANGED <<disk, superseded, who, mem, ref, live, used, saved, kept,
                 editorVars>>

EditorStep ==
  \/ \E p \in Pids : Guard(p)
  \/ \E e \in Effects : ReadAndEdit(e)
  \/ EditorOpenTmp
  \/ EditorReplace
  \/ EditorFails

(* A connection that arrives ends the quiet the guard has seen.            *)
ServerStep ==
  /\ Next
  /\ quiet' = (quiet /\ ~\E c \in Conns : Connect(c))
  /\ UNCHANGED <<ed, edPid, edMem, edits>>

EdNext == EditorStep \/ ServerStep \/ \E c \in Conns : TornSave(c)

EdSpec == EdInit /\ [][EdNext]_allVars

(***************************************************************************)
(* Properties                                                              *)
(***************************************************************************)

(* An edit the guard let through is never undone, by any session that is   *)
(* running or starts later, unless a connection arrived between the guard  *)
(* and the write.  Until one does, the editor and the server, who share    *)
(* the name of the temporary file but not a lock, never both write it.     *)
QuietEditKept ==
  /\ \A p \in Pids : edits[p] \subseteq disk[p]
  /\ ed = "writing" /\ quiet => ~SharedTmp(edPid)
=============================================================================
