---------------------------- MODULE AccountLedger ---------------------------
(***************************************************************************)
(* What the session and save machinery of the server promises about an     *)
(* account: it has at most one owner at a time; only the owner writes; the *)
(* owner never takes back what it has written; and a takeover starts from  *)
(* whatever is there.                                                      *)
(***************************************************************************)
CONSTANTS Pids, Owners, Effects, None

VARIABLES owner,     \* who may write each account, or None
          ledger,    \* what each account records
          written    \* what the owner has written since it took over

ledgerVars == <<owner, ledger, written>>

Init ==
  /\ owner = [p \in Pids |-> None]
  /\ ledger = [p \in Pids |-> {}]
  /\ written = [p \in Pids |-> {}]

TakeOver(p, o) ==
  /\ owner' = [owner EXCEPT ![p] = o]
  /\ written' = [written EXCEPT ![p] = {}]
  /\ UNCHANGED ledger

Commit(p, content) ==
  /\ owner[p] # None
  /\ written[p] \subseteq content
  /\ ledger' = [ledger EXCEPT ![p] = content]
  /\ written' = [written EXCEPT ![p] = content]
  /\ UNCHANGED owner

(* Some owners go: one connection ends, or the whole server does.          *)
Leave(gone) ==
  /\ owner' = [p \in Pids |-> IF p \in gone THEN None ELSE owner[p]]
  /\ UNCHANGED <<ledger, written>>

Next ==
  \/ \E p \in Pids, o \in Owners : TakeOver(p, o)
  \/ \E p \in Pids, content \in SUBSET Effects : Commit(p, content)
  \/ \E gone \in SUBSET Pids : Leave(gone)

Spec == Init /\ [][Next]_ledgerVars
=============================================================================
