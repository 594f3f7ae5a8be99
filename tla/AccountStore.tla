---------------------------- MODULE AccountStore ----------------------------
(***************************************************************************)
(* The account files of server/player_state/core.py: one JSON file per     *)
(* player, written whole through a temporary file and os.replace, and the  *)
(* registry of account dicts that a newer login has superseded.            *)
(*                                                                         *)
(* An account's content is abstracted to the set of effects (pulls, stage  *)
(* clears, purchases ...) it records.  A dict is known by its identity, a  *)
(* member of Ids: Python's id(), an address the allocator may hand out     *)
(* again once nothing references the dict.                                 *)
(***************************************************************************)
EXTENDS Naturals, FiniteSets

CONSTANTS Conns,      \* connection threads of the game server
          Pids,       \* player ids
          Effects,    \* changes a session can make to an account
          Ids,        \* identities of account dicts
          None        \* no dict, no thread, no player

ASSUME NoneAssumption == None \notin Conns \cup Pids \cup Ids

VARIABLES file,        \* file[p]: path_for(p) is missing, whole or torn
          disk,        \* disk[p]: the effects it records ({} when missing)
          tmp,         \* tmp[p]: the file at path_for(p) + ".tmp" exists
          lock,        \* holder of core._lock
          superseded   \* core._SUPERSEDED, identities of retired dicts

storeVars == <<file, disk, tmp, lock, superseded>>

Images == SUBSET Effects
FileStates == {"missing", "whole", "torn"}   \* torn: JSON that does not parse

StoreTypeOK ==
  /\ file \in [Pids -> FileStates]
  /\ disk \in [Pids -> Images]
  /\ tmp \in [Pids -> BOOLEAN]
  /\ lock \in Conns \cup {None}
  /\ superseded \in SUBSET Ids

StoreInit ==
  /\ file = [p \in Pids |-> "missing"]
  /\ disk = [p \in Pids |-> {}]
  /\ tmp = [p \in Pids |-> FALSE]
  /\ lock = None
  /\ superseded = {}

LockFree == lock = None

(* _save_locked, first half: the temporary file is opened and truncated.   *)
OpenTmp(c, p) ==
  /\ LockFree
  /\ lock' = c
  /\ tmp' = [tmp EXCEPT ![p] = TRUE]
  /\ UNCHANGED <<file, disk, superseded>>

(* _save_locked, second half: the dump is complete and os.replace moves it *)
(* over the account file.                                                  *)
ReplaceFile(c, p, image) ==
  /\ lock = c
  /\ tmp[p]
  /\ file' = [file EXCEPT ![p] = "whole"]
  /\ disk' = [disk EXCEPT ![p] = image]
  /\ tmp' = [tmp EXCEPT ![p] = FALSE]
  /\ lock' = None
  /\ UNCHANGED superseded

(* The dump or the write raises: the lock is released, the temporary file  *)
(* stays behind and the account file is the old one.                       *)
AbandonTmp(c) ==
  /\ lock = c
  /\ lock' = None
  /\ UNCHANGED <<file, disk, tmp, superseded>>

(* supersede(state) and release(state); both take _lock.                   *)
Supersede(i) ==
  /\ LockFree
  /\ superseded' = superseded \cup {i}

Release(i) ==
  /\ LockFree
  /\ superseded' = superseded \ {i}
=============================================================================
