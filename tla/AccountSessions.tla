-------------------------- MODULE AccountSessions ---------------------------
(***************************************************************************)
(* The connection threads of server/titan_server.py (handle) over the      *)
(* account store: login, takeover of an account by its newest login,       *)
(* changes saved from the thread's own copy of the account, and every way  *)
(* a thread or the whole server ends.                                      *)
(*                                                                         *)
(* handle() loads the account once and keeps the dict in a local for the   *)
(* life of the connection, so two connections of one player hold two       *)
(* copies.  The module has the full interleaving of those threads at the   *)
(* points where they lock, read or write something shared.                 *)
(***************************************************************************)
EXTENDS AccountStore

CONSTANT Relogin      \* a client may send LOGIN again on an open connection

ASSUME ReloginAssumption == Relogin \in BOOLEAN

VARIABLES pc,         \* where the thread of a connection is
          who,        \* session["player_id"] of a connection
          mem,        \* content of the dict the thread's `state` refers to
          ref,        \* identity of that dict
          live,       \* _live_states: the dict each player is played from
          used,       \* history: effects already made (each happens once)
          saved,      \* history: effects some returned save() wrote
          kept        \* history: effects the live dict's own saves wrote

sessionVars == <<pc, who, mem, ref, live, used, saved, kept>>
vars == <<storeVars, sessionVars>>

Phases == {"none",     \* no connection
           "hello",    \* registered with player_id None, reading frames
           "named",    \* LOGIN parsed and published, load() not entered
           "repair",   \* in load(), writing the seeded or repaired account
           "loaded",   \* load() returned, the live slot not yet claimed
           "idle",     \* logged in, reading frames
           "dirty",    \* a handler changed the dict and has not saved it
           "saving",   \* in save(), between opening tmp and os.replace
           "closing"}  \* unwinding into handle()'s finally block

TypeOK ==
  /\ StoreTypeOK
  /\ pc \in [Conns -> Phases]
  /\ who \in [Conns -> Pids \cup {None}]
  /\ mem \in [Conns -> Images]
  /\ ref \in [Conns -> Ids \cup {None}]
  /\ live \in [Pids -> Ids \cup {None}]
  /\ used \in SUBSET Effects
  /\ saved \in [Pids -> Images]
  /\ kept \in [Pids -> Images]

Init ==
  /\ StoreInit
  /\ pc = [c \in Conns |-> "none"]
  /\ who = [c \in Conns |-> None]
  /\ mem = [c \in Conns |-> {}]
  /\ ref = [c \in Conns |-> None]
  /\ live = [p \in Pids |-> None]
  /\ used = {}
  /\ saved = [p \in Pids |-> {}]
  /\ kept = [p \in Pids |-> {}]

Goto(c, phase) == pc' = [pc EXCEPT ![c] = phase]

(* Identities the allocator cannot hand out: a dict is referenced by the   *)
(* thread that loaded it or by the live table.                             *)
Referenced == {ref[c] : c \in Conns} \cup {live[p] : p \in Pids}

(***************************************************************************)
(* Actions                                                                 *)
(***************************************************************************)

(* handle() starts: the connection is registered before any LOGIN.         *)
Connect(c) ==
  /\ pc[c] = "none"
  /\ Goto(c, "hello")
  /\ UNCHANGED <<storeVars, who, mem, ref, live, used, saved, kept>>

(* A LOGIN frame: the session names its player and is published.           *)
Login(c, p) ==
  /\ pc[c] = "hello" \/ (Relogin /\ pc[c] = "idle")
  /\ who' = [who EXCEPT ![c] = p]
  /\ Goto(c, "named")
  /\ UNCHANGED <<storeVars, mem, ref, live, used, saved, kept>>

(* load() returns a new dict: `state` is rebound to it.                    *)
Adopt(c, image) ==
  \E i \in Ids \ Referenced :
    /\ ref' = [ref EXCEPT ![c] = i]
    /\ mem' = [mem EXCEPT ![c] = image]
    /\ Goto(c, "loaded")

(* load() of an account that needs no repair: one critical section.        *)
Load(c) ==
  /\ pc[c] = "named"
  /\ LockFree
  /\ file[who[c]] = "whole"
  /\ Adopt(c, disk[who[c]])
  /\ UNCHANGED <<storeVars, who, live, used, saved, kept>>

(* load() of a missing account, or of one its repairs changed: it is       *)
(* written back before load() returns, still under _lock.                  *)
LoadRepair(c) ==
  /\ pc[c] = "named"
  /\ file[who[c]] # "torn"
  /\ OpenTmp(c, who[c])
  /\ Goto(c, "repair")
  /\ UNCHANGED <<who, mem, ref, live, used, saved, kept>>

(* Variant: a load that has to write falls through to a fresh account.     *)
LoadRepairedFresh(c) ==
  /\ pc[c] = "repair"
  /\ ReplaceFile(c, who[c], {})
  /\ Adopt(c, {})
  /\ UNCHANGED <<who, live, used, saved, kept>>

LoadRepaired(c) ==
  /\ pc[c] = "repair"
  /\ ReplaceFile(c, who[c], disk[who[c]])
  /\ Adopt(c, disk[who[c]])
  /\ UNCHANGED <<who, live, used, saved, kept>>

(* load() raises: the file does not parse, or a repair or the write fails. *)
(* The file is kept as it is and the connection ends.                      *)
LoadFails(c) ==
  /\ \/ /\ pc[c] = "named"
        /\ LockFree
        /\ UNCHANGED storeVars
     \/ /\ pc[c] = "repair"
        /\ AbandonTmp(c)
  /\ Goto(c, "closing")
  /\ UNCHANGED <<who, mem, ref, live, used, saved, kept>>

(* The newest login owns the account: its predecessor's dict is superseded *)
(* and the live slot is taken, under _sessions_lock.                       *)
Claim(c) ==
  /\ pc[c] = "loaded"
  /\ LET p == who[c]
         old == live[p]
     IN /\ IF old \notin {None, ref[c]}
             THEN Supersede(old)
             ELSE UNCHANGED superseded
        /\ live' = [live EXCEPT ![p] = ref[c]]
        /\ kept' = [kept EXCEPT ![p] = {}]
  /\ Goto(c, "idle")
  /\ UNCHANGED <<file, disk, tmp, lock, who, mem, ref, used, saved>>

(* A handler (or a login migration) changes the thread's own copy.         *)
Change(c, e) ==
  /\ pc[c] \in {"idle", "dirty"}
  /\ e \notin used
  /\ used' = used \cup {e}
  /\ mem' = [mem EXCEPT ![c] = @ \cup {e}]
  /\ Goto(c, "dirty")
  /\ UNCHANGED <<storeVars, who, ref, live, saved, kept>>

(* Variant: save() does not look at the superseded set.                    *)
SaveBeginUnchecked(c) ==
  /\ pc[c] = "dirty"
  /\ OpenTmp(c, who[c])
  /\ Goto(c, "saving")
  /\ UNCHANGED <<who, mem, ref, live, used, saved, kept>>

(* save(): the superseded check and the write are one critical section.    *)
SaveBegin(c) ==
  /\ pc[c] = "dirty"
  /\ ref[c] \notin superseded
  /\ OpenTmp(c, who[c])
  /\ Goto(c, "saving")
  /\ UNCHANGED <<who, mem, ref, live, used, saved, kept>>

SaveEnd(c) ==
  /\ pc[c] = "saving"
  /\ ReplaceFile(c, who[c], mem[c])
  /\ saved' = [saved EXCEPT ![who[c]] = @ \cup mem[c]]
  /\ kept' = IF live[who[c]] = ref[c]
               THEN [kept EXCEPT ![who[c]] = mem[c]]
               ELSE kept
  /\ Goto(c, "idle")
  /\ UNCHANGED <<who, mem, ref, live, used>>

(* Variant: the error path leaves _lock taken.                             *)
SaveFailsLocked(c) ==
  /\ pc[c] = "saving"
  /\ Goto(c, "closing")
  /\ UNCHANGED <<storeVars, who, mem, ref, live, used, saved, kept>>

SaveFails(c) ==
  /\ pc[c] = "saving"
  /\ AbandonTmp(c)
  /\ Goto(c, "closing")
  /\ UNCHANGED <<who, mem, ref, live, used, saved, kept>>

(* Variant: save() returns quietly instead of raising.                     *)
SaveRefusedQuietly(c) ==
  /\ pc[c] = "dirty"
  /\ LockFree
  /\ ref[c] \in superseded
  /\ Goto(c, "idle")
  /\ UNCHANGED <<storeVars, who, mem, ref, live, used, saved, kept>>

(* save() raises StaleSession.                                             *)
SaveRefused(c) ==
  /\ pc[c] = "dirty"
  /\ LockFree
  /\ ref[c] \in superseded
  /\ Goto(c, "closing")
  /\ UNCHANGED <<storeVars, who, mem, ref, live, used, saved, kept>>

(* The peer closes, the socket times out, a send fails or a handler        *)
(* raises: whatever was not saved is gone.                                 *)
Drop(c) ==
  /\ pc[c] \in {"hello", "loaded", "idle", "dirty"}
  /\ Goto(c, "closing")
  /\ UNCHANGED <<storeVars, who, mem, ref, live, used, saved, kept>>

ExitThread(c) ==
  /\ pc' = [pc EXCEPT ![c] = "none"]
  /\ who' = [who EXCEPT ![c] = None]
  /\ mem' = [mem EXCEPT ![c] = {}]
  /\ ref' = [ref EXCEPT ![c] = None]
  /\ UNCHANGED <<file, disk, tmp, lock, used, saved, kept>>

(* Variant: a leaving thread empties the slot whoever is in it.            *)
ExitEvicts(c) ==
  /\ pc[c] = "closing"
  /\ Release(ref[c])
  /\ live' = [p \in Pids |-> IF p = who[c] THEN None ELSE live[p]]
  /\ ExitThread(c)

(* Variant: the superseded mark is never taken back.                       *)
ExitUnreleased(c) ==
  /\ pc[c] = "closing"
  /\ live' = [p \in Pids |->
                IF p = who[c] /\ live[p] = ref[c] THEN None ELSE live[p]]
  /\ ExitThread(c)
  /\ UNCHANGED superseded

(* handle()'s finally block: unregister, give up the live slot only if it  *)
(* is still this dict's, forget the dict's superseded mark.                *)
Exit(c) ==
  /\ pc[c] = "closing"
  /\ Release(ref[c])
  /\ live' = [p \in Pids |->
                IF p = who[c] /\ live[p] = ref[c] THEN None ELSE live[p]]
  /\ ExitThread(c)

(* The server process dies between any two steps: memory is lost, files    *)
(* stay, a half-written temporary file stays too.                          *)
Crash ==
  /\ \E c \in Conns : pc[c] # "none"
  /\ lock' = None
  /\ superseded' = {}
  /\ pc' = [c \in Conns |-> "none"]
  /\ who' = [c \in Conns |-> None]
  /\ mem' = [c \in Conns |-> {}]
  /\ ref' = [c \in Conns |-> None]
  /\ live' = [p \in Pids |-> None]
  /\ UNCHANGED <<file, disk, tmp, used, saved, kept>>

(* The steps a thread takes by itself once it has left its socket read.    *)
LoadStep(c) == Load(c) \/ LoadRepair(c) \/ LoadRepaired(c) \/ LoadFails(c)
SaveStep(c) == SaveBegin(c) \/ SaveEnd(c) \/ SaveFails(c) \/ SaveRefused(c)

Next ==
  \/ \E c \in Conns :
       \/ Connect(c)
       \/ \E p \in Pids : Login(c, p)
       \/ LoadStep(c)
       \/ Claim(c)
       \/ \E e \in Effects : Change(c, e)
       \/ SaveStep(c)
       \/ Drop(c)
       \/ Exit(c)
  \/ Crash

Spec == Init /\ [][Next]_vars

(* A thread that waits for _lock gets it in the end: the holders release   *)
(* it before their next blocking socket read.  Nothing is assumed of the   *)
(* clients, of failures or of the crash.                                   *)
FairSpec ==
  /\ Spec
  /\ \A c \in Conns : /\ SF_vars(LoadStep(c))
                      /\ SF_vars(Claim(c))
                      /\ SF_vars(SaveStep(c))
                      /\ SF_vars(Exit(c))

(***************************************************************************)
(* Properties                                                              *)
(***************************************************************************)

Claimed(c) == pc[c] \in {"idle", "dirty", "saving"}

(* core.py, "the NEWEST login owns the account": of the threads playing    *)
(* one account at most one is still allowed to save it.                    *)
OneWriter ==
  \A c, d \in Conns :
    /\ Claimed(c) /\ Claimed(d) /\ who[c] = who[d]
    /\ ref[c] \notin superseded /\ ref[d] \notin superseded
    => c = d

(* What the current (or, once it has left, the last) owner of an account   *)
(* has saved is on disk until another login takes the account over,        *)
(* whatever older sessions, failed saves and crashes do meanwhile.         *)
OwnerKept == \A p \in Pids : kept[p] \subseteq disk[p]

(* core.release, "so ids can be reused safely": a mark is held only while  *)
(* a thread still refers to the marked dict, so that a dict allocated at   *)
(* the same address later is not taken for it.                             *)
MarksAreHeld == superseded \subseteq {ref[c] : c \in Conns}

(* The dict in the live slot belongs to a running thread and save() will   *)
(* not refuse it.                                                          *)
OwnerNeverRefused ==
  \A p \in Pids :
    live[p] # None => /\ live[p] \notin superseded
                      /\ \E c \in Conns : ref[c] = live[p] /\ who[c] = p

(* Dicts are known by identity: a mark neither outlives its dict nor hits  *)
(* the owner.                                                              *)
IdentitiesHold == MarksAreHeld /\ OwnerNeverRefused

(* A login that has been parsed ends up owning the account or its          *)
(* connection ends: no thread waits for _lock for ever.                    *)
LoginCompletes ==
  \A c \in Conns : pc[c] = "named" ~> pc[c] \in {"idle", "closing", "none"}

(* A superseded thread that has something to save is ended by it.          *)
StaleThreadEnds ==
  \A c \in Conns :
    (pc[c] = "dirty" /\ ref[c] \in superseded) ~> pc[c] = "none"

(* Every step is one of a ledger with a single writer per account.         *)
Ledger == INSTANCE AccountLedger WITH
            Owners <- Ids,
            owner <- live,
            ledger <- disk,
            written <- kept

LedgerSpec == Ledger!Spec
=============================================================================
