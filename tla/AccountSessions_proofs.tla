----------------------- MODULE AccountSessions_proofs -----------------------
(***************************************************************************)
(* Proofs about AccountSessions and SaveEditor, for any connections,       *)
(* players, changes and identities.                                        *)
(***************************************************************************)
EXTENDS SaveEditor, TLAPS

InCritical(c) == pc[c] \in {"repair", "saving"}

(* _lock is held exactly by the thread between opening and replacing tmp.  *)
LockInv == \A c \in Conns : lock = c <=> InCritical(c)

(* Two threads never refer to the same dict.                               *)
OwnDict ==
  \A c, d \in Conns : ref[c] = ref[d] /\ ref[c] # None => c = d

(* What each phase of a thread has already got.                            *)
PhaseInv ==
  \A c \in Conns :
    /\ pc[c] \in {"named", "repair", "loaded", "idle", "dirty", "saving"}
         => who[c] # None
    /\ pc[c] \in {"loaded", "idle", "dirty", "saving"} => ref[c] # None

(* A thread that has claimed its account and lost it again is marked; the  *)
(* mark cannot arrive while the thread is saving.                          *)
MarkInv ==
  \A c \in Conns :
    /\ Claimed(c) => live[who[c]] = ref[c] \/ ref[c] \in superseded
    /\ pc[c] = "saving" => live[who[c]] = ref[c]

(* The owner's own copy holds whatever it has saved.                       *)
KeptInv ==
  /\ OwnerKept
  /\ \A c \in Conns :
       Claimed(c) /\ live[who[c]] = ref[c] => kept[who[c]] \subseteq mem[c]

IInv == LockInv /\ OwnDict /\ PhaseInv /\ MarkInv /\ KeptInv

(* The disjuncts of Next that belong to one thread.                        *)
ThreadStep(c) ==
  \/ Connect(c)
  \/ \E p \in Pids : Login(c, p)
  \/ LoadStep(c)
  \/ Claim(c)
  \/ \E e \in Effects : Change(c, e)
  \/ SaveStep(c)
  \/ Drop(c)
  \/ Exit(c)

(***************************************************************************)
(* Type correctness.  It needs PhaseInv: a thread past LOGIN has a player, *)
(* so the account it reads or writes is one of the accounts.               *)
(***************************************************************************)

LEMMA TypeInit == Init => TypeOK /\ PhaseInv
  BY NoneAssumption DEF Init, StoreInit, TypeOK, StoreTypeOK, Images,
     FileStates, Phases, PhaseInv

LEMMA TypeStep == TypeOK /\ PhaseInv /\ [Next]_vars => TypeOK'
<1> SUFFICES ASSUME TypeOK, PhaseInv, [Next]_vars PROVE TypeOK'
  OBVIOUS
<1>1. ASSUME NEW c \in Conns, ThreadStep(c) PROVE TypeOK'
  <2>1. CASE Connect(c)
    BY <2>1, NoneAssumption DEF Connect, Goto, storeVars, TypeOK, StoreTypeOK, Images, FileStates, Phases, PhaseInv
  <2>2. ASSUME NEW p \in Pids, Login(c, p) PROVE TypeOK'
    BY <2>2, NoneAssumption DEF Login, Goto, storeVars, TypeOK, StoreTypeOK, Images, FileStates, Phases, PhaseInv
  <2>3. CASE Load(c)
    BY <2>3, NoneAssumption DEF Load, Adopt, Goto, Referenced, storeVars, TypeOK, StoreTypeOK, Images, FileStates, Phases, PhaseInv
  <2>4. CASE LoadRepair(c)
    BY <2>4, NoneAssumption DEF LoadRepair, OpenTmp, LockFree, Goto, storeVars, TypeOK, StoreTypeOK, Images, FileStates, Phases, PhaseInv
  <2>5. CASE LoadRepaired(c)
    BY <2>5, NoneAssumption DEF LoadRepaired, ReplaceFile, Adopt, Goto, Referenced, storeVars, TypeOK, StoreTypeOK, Images, FileStates, Phases, PhaseInv
  <2>6. CASE LoadFails(c)
    BY <2>6, NoneAssumption DEF LoadFails, AbandonTmp, Goto, LockFree, storeVars, TypeOK, StoreTypeOK, Images, FileStates, Phases, PhaseInv
  <2>7. CASE Claim(c)
    BY <2>7, NoneAssumption DEF Claim, Supersede, LockFree, Goto, storeVars, TypeOK, StoreTypeOK, Images, FileStates, Phases, PhaseInv
  <2>8. ASSUME NEW e \in Effects, Change(c, e) PROVE TypeOK'
    BY <2>8, NoneAssumption DEF Change, Goto, storeVars, TypeOK, StoreTypeOK, Images, FileStates, Phases, PhaseInv
  <2>9. CASE SaveBegin(c)
    BY <2>9, NoneAssumption DEF SaveBegin, OpenTmp, LockFree, Goto, storeVars, TypeOK, StoreTypeOK, Images, FileStates, Phases, PhaseInv
  <2>10. CASE SaveEnd(c)
    BY <2>10, NoneAssumption DEF SaveEnd, ReplaceFile, Goto, storeVars, TypeOK, StoreTypeOK, Images, FileStates, Phases, PhaseInv
  <2>11. CASE SaveFails(c)
    BY <2>11, NoneAssumption DEF SaveFails, AbandonTmp, Goto, storeVars, TypeOK, StoreTypeOK, Images, FileStates, Phases, PhaseInv
  <2>12. CASE SaveRefused(c)
    BY <2>12, NoneAssumption DEF SaveRefused, LockFree, Goto, storeVars, TypeOK, StoreTypeOK, Images, FileStates, Phases, PhaseInv
  <2>13. CASE Drop(c)
    BY <2>13, NoneAssumption DEF Drop, Goto, storeVars, TypeOK, StoreTypeOK, Images, FileStates, Phases, PhaseInv
  <2>14. CASE Exit(c)
    BY <2>14, NoneAssumption DEF Exit, ExitThread, Release, LockFree, storeVars, TypeOK, StoreTypeOK, Images, FileStates, Phases, PhaseInv
  <2> QED
    BY <1>1, <2>1, <2>2, <2>3, <2>4, <2>5, <2>6, <2>7, <2>8, <2>9, <2>10, <2>11, <2>12, <2>13, <2>14
       DEF ThreadStep, LoadStep, SaveStep
<1>2. CASE Crash
  BY <1>2, NoneAssumption DEF Crash, TypeOK, StoreTypeOK, Images, FileStates, Phases, PhaseInv
<1>3. CASE UNCHANGED vars
  BY <1>3 DEF vars, storeVars, sessionVars, TypeOK, StoreTypeOK, Images, FileStates, Phases, PhaseInv
<1> QED
  BY <1>1, <1>2, <1>3 DEF Next, ThreadStep

LEMMA PhaseStep == TypeOK /\ PhaseInv /\ [Next]_vars => PhaseInv'
<1> SUFFICES ASSUME TypeOK, PhaseInv, [Next]_vars PROVE PhaseInv'
  OBVIOUS
<1>1. ASSUME NEW c \in Conns, ThreadStep(c) PROVE PhaseInv'
  <2>1. CASE Connect(c)
    BY <2>1, NoneAssumption DEF Connect, Goto, storeVars, TypeOK, StoreTypeOK, Images, FileStates, Phases, PhaseInv
  <2>2. ASSUME NEW p \in Pids, Login(c, p) PROVE PhaseInv'
    BY <2>2, NoneAssumption DEF Login, Goto, storeVars, TypeOK, StoreTypeOK, Images, FileStates, Phases, PhaseInv
  <2>3. CASE Load(c)
    BY <2>3, NoneAssumption DEF Load, Adopt, Goto, Referenced, storeVars, TypeOK, StoreTypeOK, Images, FileStates, Phases, PhaseInv
  <2>4. CASE LoadRepair(c)
    BY <2>4, NoneAssumption DEF LoadRepair, OpenTmp, LockFree, Goto, storeVars, TypeOK, StoreTypeOK, Images, FileStates, Phases, PhaseInv
  <2>5. CASE LoadRepaired(c)
    BY <2>5, NoneAssumption DEF LoadRepaired, ReplaceFile, Adopt, Goto, Referenced, storeVars, TypeOK, StoreTypeOK, Images, FileStates, Phases, PhaseInv
  <2>6. CASE LoadFails(c)
    BY <2>6, NoneAssumption DEF LoadFails, AbandonTmp, Goto, LockFree, storeVars, TypeOK, StoreTypeOK, Images, FileStates, Phases, PhaseInv
  <2>7. CASE Claim(c)
    BY <2>7, NoneAssumption DEF Claim, Supersede, LockFree, Goto, storeVars, TypeOK, StoreTypeOK, Images, FileStates, Phases, PhaseInv
  <2>8. ASSUME NEW e \in Effects, Change(c, e) PROVE PhaseInv'
    BY <2>8, NoneAssumption DEF Change, Goto, storeVars, TypeOK, StoreTypeOK, Images, FileStates, Phases, PhaseInv
  <2>9. CASE SaveBegin(c)
    BY <2>9, NoneAssumption DEF SaveBegin, OpenTmp, LockFree, Goto, storeVars, TypeOK, StoreTypeOK, Images, FileStates, Phases, PhaseInv
  <2>10. CASE SaveEnd(c)
    BY <2>10, NoneAssumption DEF SaveEnd, ReplaceFile, Goto, storeVars, TypeOK, StoreTypeOK, Images, FileStates, Phases, PhaseInv
  <2>11. CASE SaveFails(c)
    BY <2>11, NoneAssumption DEF SaveFails, AbandonTmp, Goto, storeVars, TypeOK, StoreTypeOK, Images, FileStates, Phases, PhaseInv
  <2>12. CASE SaveRefused(c)
    BY <2>12, NoneAssumption DEF SaveRefused, LockFree, Goto, storeVars, TypeOK, StoreTypeOK, Images, FileStates, Phases, PhaseInv
  <2>13. CASE Drop(c)
    BY <2>13, NoneAssumption DEF Drop, Goto, storeVars, TypeOK, StoreTypeOK, Images, FileStates, Phases, PhaseInv
  <2>14. CASE Exit(c)
    BY <2>14, NoneAssumption DEF Exit, ExitThread, Release, LockFree, storeVars, TypeOK, StoreTypeOK, Images, FileStates, Phases, PhaseInv
  <2> QED
    BY <1>1, <2>1, <2>2, <2>3, <2>4, <2>5, <2>6, <2>7, <2>8, <2>9, <2>10, <2>11, <2>12, <2>13, <2>14
       DEF ThreadStep, LoadStep, SaveStep
<1>2. CASE Crash
  BY <1>2, NoneAssumption DEF Crash, TypeOK, StoreTypeOK, Images, FileStates, Phases, PhaseInv
<1>3. CASE UNCHANGED vars
  BY <1>3 DEF vars, storeVars, sessionVars, TypeOK, StoreTypeOK, Images, FileStates, Phases, PhaseInv
<1> QED
  BY <1>1, <1>2, <1>3 DEF Next, ThreadStep

(* Every variable keeps its type, for every instance of the constants.     *)
THEOREM TypeCorrect == Spec => []TypeOK
<1>1. TypeOK /\ PhaseInv /\ [Next]_vars => (TypeOK /\ PhaseInv)'
  BY TypeStep, PhaseStep
<1> QED
  BY TypeInit, <1>1, PTL DEF Spec

(***************************************************************************)
(* The inductive invariant                                                 *)
(***************************************************************************)

LEMMA InvInit == Init => IInv
  BY NoneAssumption DEF Init, StoreInit, IInv, LockInv, InCritical, OwnDict,
     PhaseInv, MarkInv, KeptInv, OwnerKept, Claimed

LEMMA LockStep == TypeOK /\ LockInv /\ [Next]_vars => LockInv'
<1> SUFFICES ASSUME TypeOK, LockInv, [Next]_vars PROVE LockInv'
  OBVIOUS
<1>1. ASSUME NEW c \in Conns, ThreadStep(c) PROVE LockInv'
  <2>1. CASE Connect(c)
    BY <2>1, NoneAssumption DEF Connect, Goto, storeVars, TypeOK, StoreTypeOK, Images, FileStates, Phases, LockInv, InCritical
  <2>2. ASSUME NEW p \in Pids, Login(c, p) PROVE LockInv'
    BY <2>2, NoneAssumption DEF Login, Goto, storeVars, TypeOK, StoreTypeOK, Images, FileStates, Phases, LockInv, InCritical
  <2>3. CASE Load(c)
    BY <2>3, NoneAssumption DEF Load, Adopt, Goto, Referenced, storeVars, TypeOK, StoreTypeOK, Images, FileStates, Phases, LockInv, InCritical
  <2>4. CASE LoadRepair(c)
    BY <2>4, NoneAssumption DEF LoadRepair, OpenTmp, LockFree, Goto, storeVars, TypeOK, StoreTypeOK, Images, FileStates, Phases, LockInv, InCritical
  <2>5. CASE LoadRepaired(c)
    BY <2>5, NoneAssumption DEF LoadRepaired, ReplaceFile, Adopt, Goto, Referenced, storeVars, TypeOK, StoreTypeOK, Images, FileStates, Phases, LockInv, InCritical
  <2>6. CASE LoadFails(c)
    BY <2>6, NoneAssumption DEF LoadFails, AbandonTmp, Goto, LockFree, storeVars, TypeOK, StoreTypeOK, Images, FileStates, Phases, LockInv, InCritical
  <2>7. CASE Claim(c)
    BY <2>7, NoneAssumption DEF Claim, Supersede, LockFree, Goto, storeVars, TypeOK, StoreTypeOK, Images, FileStates, Phases, LockInv, InCritical
  <2>8. ASSUME NEW e \in Effects, Change(c, e) PROVE LockInv'
    BY <2>8, NoneAssumption DEF Change, Goto, storeVars, TypeOK, StoreTypeOK, Images, FileStates, Phases, LockInv, InCritical
  <2>9. CASE SaveBegin(c)
    BY <2>9, NoneAssumption DEF SaveBegin, OpenTmp, LockFree, Goto, storeVars, TypeOK, StoreTypeOK, Images, FileStates, Phases, LockInv, InCritical
  <2>10. CASE SaveEnd(c)
    BY <2>10, NoneAssumption DEF SaveEnd, ReplaceFile, Goto, storeVars, TypeOK, StoreTypeOK, Images, FileStates, Phases, LockInv, InCritical
  <2>11. CASE SaveFails(c)
    BY <2>11, NoneAssumption DEF SaveFails, AbandonTmp, Goto, storeVars, TypeOK, StoreTypeOK, Images, FileStates, Phases, LockInv, InCritical
  <2>12. CASE SaveRefused(c)
    BY <2>12, NoneAssumption DEF SaveRefused, LockFree, Goto, storeVars, TypeOK, StoreTypeOK, Images, FileStates, Phases, LockInv, InCritical
  <2>13. CASE Drop(c)
    BY <2>13, NoneAssumption DEF Drop, Goto, storeVars, TypeOK, StoreTypeOK, Images, FileStates, Phases, LockInv, InCritical
  <2>14. CASE Exit(c)
    BY <2>14, NoneAssumption DEF Exit, ExitThread, Release, LockFree, storeVars, TypeOK, StoreTypeOK, Images, FileStates, Phases, LockInv, InCritical
  <2> QED
    BY <1>1, <2>1, <2>2, <2>3, <2>4, <2>5, <2>6, <2>7, <2>8, <2>9, <2>10, <2>11, <2>12, <2>13, <2>14
       DEF ThreadStep, LoadStep, SaveStep
<1>2. CASE Crash
  BY <1>2, NoneAssumption DEF Crash, TypeOK, StoreTypeOK, Images, FileStates, Phases, LockInv, InCritical
<1>3. CASE UNCHANGED vars
  BY <1>3 DEF vars, storeVars, sessionVars, TypeOK, StoreTypeOK, Images, FileStates, Phases, LockInv, InCritical
<1> QED
  BY <1>1, <1>2, <1>3 DEF Next, ThreadStep

LEMMA DictStep == TypeOK /\ OwnDict /\ [Next]_vars => OwnDict'
<1> SUFFICES ASSUME TypeOK, OwnDict, [Next]_vars PROVE OwnDict'
  OBVIOUS
<1>1. ASSUME NEW c \in Conns, ThreadStep(c) PROVE OwnDict'
  <2>1. CASE Connect(c)
    BY <2>1, NoneAssumption DEF Connect, Goto, storeVars, TypeOK, StoreTypeOK, Images, FileStates, Phases, OwnDict
  <2>2. ASSUME NEW p \in Pids, Login(c, p) PROVE OwnDict'
    BY <2>2, NoneAssumption DEF Login, Goto, storeVars, TypeOK, StoreTypeOK, Images, FileStates, Phases, OwnDict
  <2>3. CASE Load(c)
    BY <2>3, NoneAssumption DEF Load, Adopt, Goto, Referenced, storeVars, TypeOK, StoreTypeOK, Images, FileStates, Phases, OwnDict
  <2>4. CASE LoadRepair(c)
    BY <2>4, NoneAssumption DEF LoadRepair, OpenTmp, LockFree, Goto, storeVars, TypeOK, StoreTypeOK, Images, FileStates, Phases, OwnDict
  <2>5. CASE LoadRepaired(c)
    BY <2>5, NoneAssumption DEF LoadRepaired, ReplaceFile, Adopt, Goto, Referenced, storeVars, TypeOK, StoreTypeOK, Images, FileStates, Phases, OwnDict
  <2>6. CASE LoadFails(c)
    BY <2>6, NoneAssumption DEF LoadFails, AbandonTmp, Goto, LockFree, storeVars, TypeOK, StoreTypeOK, Images, FileStates, Phases, OwnDict
  <2>7. CASE Claim(c)
    BY <2>7, NoneAssumption DEF Claim, Supersede, LockFree, Goto, storeVars, TypeOK, StoreTypeOK, Images, FileStates, Phases, OwnDict
  <2>8. ASSUME NEW e \in Effects, Change(c, e) PROVE OwnDict'
    BY <2>8, NoneAssumption DEF Change, Goto, storeVars, TypeOK, StoreTypeOK, Images, FileStates, Phases, OwnDict
  <2>9. CASE SaveBegin(c)
    BY <2>9, NoneAssumption DEF SaveBegin, OpenTmp, LockFree, Goto, storeVars, TypeOK, StoreTypeOK, Images, FileStates, Phases, OwnDict
  <2>10. CASE SaveEnd(c)
    BY <2>10, NoneAssumption DEF SaveEnd, ReplaceFile, Goto, storeVars, TypeOK, StoreTypeOK, Images, FileStates, Phases, OwnDict
  <2>11. CASE SaveFails(c)
    BY <2>11, NoneAssumption DEF SaveFails, AbandonTmp, Goto, storeVars, TypeOK, StoreTypeOK, Images, FileStates, Phases, OwnDict
  <2>12. CASE SaveRefused(c)
    BY <2>12, NoneAssumption DEF SaveRefused, LockFree, Goto, storeVars, TypeOK, StoreTypeOK, Images, FileStates, Phases, OwnDict
  <2>13. CASE Drop(c)
    BY <2>13, NoneAssumption DEF Drop, Goto, storeVars, TypeOK, StoreTypeOK, Images, FileStates, Phases, OwnDict
  <2>14. CASE Exit(c)
    BY <2>14, NoneAssumption DEF Exit, ExitThread, Release, LockFree, storeVars, TypeOK, StoreTypeOK, Images, FileStates, Phases, OwnDict
  <2> QED
    BY <1>1, <2>1, <2>2, <2>3, <2>4, <2>5, <2>6, <2>7, <2>8, <2>9, <2>10, <2>11, <2>12, <2>13, <2>14
       DEF ThreadStep, LoadStep, SaveStep
<1>2. CASE Crash
  BY <1>2, NoneAssumption DEF Crash, TypeOK, StoreTypeOK, Images, FileStates, Phases, OwnDict
<1>3. CASE UNCHANGED vars
  BY <1>3 DEF vars, storeVars, sessionVars, TypeOK, StoreTypeOK, Images, FileStates, Phases, OwnDict
<1> QED
  BY <1>1, <1>2, <1>3 DEF Next, ThreadStep

LEMMA MarkStep == TypeOK /\ LockInv /\ OwnDict /\ PhaseInv /\ MarkInv /\ [Next]_vars => MarkInv'
<1> SUFFICES ASSUME TypeOK, LockInv, OwnDict, PhaseInv, MarkInv, [Next]_vars PROVE MarkInv'
  OBVIOUS
<1>1. ASSUME NEW c \in Conns, ThreadStep(c) PROVE MarkInv'
  <2>1. CASE Connect(c)
    BY <2>1, NoneAssumption DEF Connect, Goto, storeVars, TypeOK, StoreTypeOK, Images, FileStates, Phases, LockInv, InCritical, OwnDict, PhaseInv, MarkInv, Claimed
  <2>2. ASSUME NEW p \in Pids, Login(c, p) PROVE MarkInv'
    BY <2>2, NoneAssumption DEF Login, Goto, storeVars, TypeOK, StoreTypeOK, Images, FileStates, Phases, LockInv, InCritical, OwnDict, PhaseInv, MarkInv, Claimed
  <2>3. CASE Load(c)
    BY <2>3, NoneAssumption DEF Load, Adopt, Goto, Referenced, storeVars, TypeOK, StoreTypeOK, Images, FileStates, Phases, LockInv, InCritical, OwnDict, PhaseInv, MarkInv, Claimed
  <2>4. CASE LoadRepair(c)
    BY <2>4, NoneAssumption DEF LoadRepair, OpenTmp, LockFree, Goto, storeVars, TypeOK, StoreTypeOK, Images, FileStates, Phases, LockInv, InCritical, OwnDict, PhaseInv, MarkInv, Claimed
  <2>5. CASE LoadRepaired(c)
    BY <2>5, NoneAssumption DEF LoadRepaired, ReplaceFile, Adopt, Goto, Referenced, storeVars, TypeOK, StoreTypeOK, Images, FileStates, Phases, LockInv, InCritical, OwnDict, PhaseInv, MarkInv, Claimed
  <2>6. CASE LoadFails(c)
    BY <2>6, NoneAssumption DEF LoadFails, AbandonTmp, Goto, LockFree, storeVars, TypeOK, StoreTypeOK, Images, FileStates, Phases, LockInv, InCritical, OwnDict, PhaseInv, MarkInv, Claimed
  <2>7. CASE Claim(c)
    BY <2>7, NoneAssumption DEF Claim, Supersede, LockFree, Goto, storeVars, TypeOK, StoreTypeOK, Images, FileStates, Phases, LockInv, InCritical, OwnDict, PhaseInv, MarkInv, Claimed
  <2>8. ASSUME NEW e \in Effects, Change(c, e) PROVE MarkInv'
    BY <2>8, NoneAssumption DEF Change, Goto, storeVars, TypeOK, StoreTypeOK, Images, FileStates, Phases, LockInv, InCritical, OwnDict, PhaseInv, MarkInv, Claimed
  <2>9. CASE SaveBegin(c)
    BY <2>9, NoneAssumption DEF SaveBegin, OpenTmp, LockFree, Goto, storeVars, TypeOK, StoreTypeOK, Images, FileStates, Phases, LockInv, InCritical, OwnDict, PhaseInv, MarkInv, Claimed
  <2>10. CASE SaveEnd(c)
    BY <2>10, NoneAssumption DEF SaveEnd, ReplaceFile, Goto, storeVars, TypeOK, StoreTypeOK, Images, FileStates, Phases, LockInv, InCritical, OwnDict, PhaseInv, MarkInv, Claimed
  <2>11. CASE SaveFails(c)
    BY <2>11, NoneAssumption DEF SaveFails, AbandonTmp, Goto, storeVars, TypeOK, StoreTypeOK, Images, FileStates, Phases, LockInv, InCritical, OwnDict, PhaseInv, MarkInv, Claimed
  <2>12. CASE SaveRefused(c)
    BY <2>12, NoneAssumption DEF SaveRefused, LockFree, Goto, storeVars, TypeOK, StoreTypeOK, Images, FileStates, Phases, LockInv, InCritical, OwnDict, PhaseInv, MarkInv, Claimed
  <2>13. CASE Drop(c)
    BY <2>13, NoneAssumption DEF Drop, Goto, storeVars, TypeOK, StoreTypeOK, Images, FileStates, Phases, LockInv, InCritical, OwnDict, PhaseInv, MarkInv, Claimed
  <2>14. CASE Exit(c)
    BY <2>14, NoneAssumption DEF Exit, ExitThread, Release, LockFree, storeVars, TypeOK, StoreTypeOK, Images, FileStates, Phases, LockInv, InCritical, OwnDict, PhaseInv, MarkInv, Claimed
  <2> QED
    BY <1>1, <2>1, <2>2, <2>3, <2>4, <2>5, <2>6, <2>7, <2>8, <2>9, <2>10, <2>11, <2>12, <2>13, <2>14
       DEF ThreadStep, LoadStep, SaveStep
<1>2. CASE Crash
  BY <1>2, NoneAssumption DEF Crash, TypeOK, StoreTypeOK, Images, FileStates, Phases, LockInv, InCritical, OwnDict, PhaseInv, MarkInv, Claimed
<1>3. CASE UNCHANGED vars
  BY <1>3 DEF vars, storeVars, sessionVars, TypeOK, StoreTypeOK, Images, FileStates, Phases, LockInv, InCritical, OwnDict, PhaseInv, MarkInv, Claimed
<1> QED
  BY <1>1, <1>2, <1>3 DEF Next, ThreadStep

LEMMA KeptStep == TypeOK /\ OwnDict /\ PhaseInv /\ MarkInv /\ KeptInv /\ [Next]_vars => KeptInv'
<1> SUFFICES ASSUME TypeOK, OwnDict, PhaseInv, MarkInv, KeptInv, [Next]_vars PROVE KeptInv'
  OBVIOUS
<1>1. ASSUME NEW c \in Conns, ThreadStep(c) PROVE KeptInv'
  <2>1. CASE Connect(c)
    BY <2>1, NoneAssumption DEF Connect, Goto, storeVars, TypeOK, StoreTypeOK, Images, FileStates, Phases, OwnDict, PhaseInv, MarkInv, KeptInv, OwnerKept, Claimed
  <2>2. ASSUME NEW p \in Pids, Login(c, p) PROVE KeptInv'
    BY <2>2, NoneAssumption DEF Login, Goto, storeVars, TypeOK, StoreTypeOK, Images, FileStates, Phases, OwnDict, PhaseInv, MarkInv, KeptInv, OwnerKept, Claimed
  <2>3. CASE Load(c)
    BY <2>3, NoneAssumption DEF Load, Adopt, Goto, Referenced, storeVars, TypeOK, StoreTypeOK, Images, FileStates, Phases, OwnDict, PhaseInv, MarkInv, KeptInv, OwnerKept, Claimed
  <2>4. CASE LoadRepair(c)
    BY <2>4, NoneAssumption DEF LoadRepair, OpenTmp, LockFree, Goto, storeVars, TypeOK, StoreTypeOK, Images, FileStates, Phases, OwnDict, PhaseInv, MarkInv, KeptInv, OwnerKept, Claimed
  <2>5. CASE LoadRepaired(c)
    BY <2>5, NoneAssumption DEF LoadRepaired, ReplaceFile, Adopt, Goto, Referenced, storeVars, TypeOK, StoreTypeOK, Images, FileStates, Phases, OwnDict, PhaseInv, MarkInv, KeptInv, OwnerKept, Claimed
  <2>6. CASE LoadFails(c)
    BY <2>6, NoneAssumption DEF LoadFails, AbandonTmp, Goto, LockFree, storeVars, TypeOK, StoreTypeOK, Images, FileStates, Phases, OwnDict, PhaseInv, MarkInv, KeptInv, OwnerKept, Claimed
  <2>7. CASE Claim(c)
    BY <2>7, NoneAssumption DEF Claim, Supersede, LockFree, Goto, storeVars, TypeOK, StoreTypeOK, Images, FileStates, Phases, OwnDict, PhaseInv, MarkInv, KeptInv, OwnerKept, Claimed
  <2>8. ASSUME NEW e \in Effects, Change(c, e) PROVE KeptInv'
    BY <2>8, NoneAssumption DEF Change, Goto, storeVars, TypeOK, StoreTypeOK, Images, FileStates, Phases, OwnDict, PhaseInv, MarkInv, KeptInv, OwnerKept, Claimed
  <2>9. CASE SaveBegin(c)
    BY <2>9, NoneAssumption DEF SaveBegin, OpenTmp, LockFree, Goto, storeVars, TypeOK, StoreTypeOK, Images, FileStates, Phases, OwnDict, PhaseInv, MarkInv, KeptInv, OwnerKept, Claimed
  <2>10. CASE SaveEnd(c)
    BY <2>10, NoneAssumption DEF SaveEnd, ReplaceFile, Goto, storeVars, TypeOK, StoreTypeOK, Images, FileStates, Phases, OwnDict, PhaseInv, MarkInv, KeptInv, OwnerKept, Claimed
  <2>11. CASE SaveFails(c)
    BY <2>11, NoneAssumption DEF SaveFails, AbandonTmp, Goto, storeVars, TypeOK, StoreTypeOK, Images, FileStates, Phases, OwnDict, PhaseInv, MarkInv, KeptInv, OwnerKept, Claimed
  <2>12. CASE SaveRefused(c)
    BY <2>12, NoneAssumption DEF SaveRefused, LockFree, Goto, storeVars, TypeOK, StoreTypeOK, Images, FileStates, Phases, OwnDict, PhaseInv, MarkInv, KeptInv, OwnerKept, Claimed
  <2>13. CASE Drop(c)
    BY <2>13, NoneAssumption DEF Drop, Goto, storeVars, TypeOK, StoreTypeOK, Images, FileStates, Phases, OwnDict, PhaseInv, MarkInv, KeptInv, OwnerKept, Claimed
  <2>14. CASE Exit(c)
    BY <2>14, NoneAssumption DEF Exit, ExitThread, Release, LockFree, storeVars, TypeOK, StoreTypeOK, Images, FileStates, Phases, OwnDict, PhaseInv, MarkInv, KeptInv, OwnerKept, Claimed
  <2> QED
    BY <1>1, <2>1, <2>2, <2>3, <2>4, <2>5, <2>6, <2>7, <2>8, <2>9, <2>10, <2>11, <2>12, <2>13, <2>14
       DEF ThreadStep, LoadStep, SaveStep
<1>2. CASE Crash
  BY <1>2, NoneAssumption DEF Crash, TypeOK, StoreTypeOK, Images, FileStates, Phases, OwnDict, PhaseInv, MarkInv, KeptInv, OwnerKept, Claimed
<1>3. CASE UNCHANGED vars
  BY <1>3 DEF vars, storeVars, sessionVars, TypeOK, StoreTypeOK, Images, FileStates, Phases, OwnDict, PhaseInv, MarkInv, KeptInv, OwnerKept, Claimed
<1> QED
  BY <1>1, <1>2, <1>3 DEF Next, ThreadStep

LEMMA InvStep == TypeOK /\ IInv /\ [Next]_vars => (TypeOK /\ IInv)'
  BY TypeStep, LockStep, DictStep, PhaseStep, MarkStep, KeptStep DEF IInv

LEMMA Invariance == Spec => [](TypeOK /\ IInv)
  BY TypeInit, InvInit, InvStep, PTL DEF Spec

(***************************************************************************)
(* Theorems                                                                *)
(***************************************************************************)

(* What the owner of an account has saved stays on disk until the next     *)
(* takeover: save() refuses every superseded dict under the lock.          *)
THEOREM OwnerKeptAlways == Spec => []OwnerKept
<1>1. IInv => OwnerKept
  BY DEF IInv, KeptInv
<1> QED
  BY Invariance, <1>1, PTL

(* Of several threads playing one account at most one may still save it.   *)
THEOREM OneWriterAlways == Spec => []OneWriter
<1>1. IInv => OneWriter
  <2> SUFFICES ASSUME IInv,
                      NEW c \in Conns, NEW d \in Conns,
                      Claimed(c), Claimed(d), who[c] = who[d],
                      ref[c] \notin superseded, ref[d] \notin superseded
               PROVE  c = d
    BY DEF OneWriter
  <2>1. ref[c] = live[who[c]] /\ ref[d] = live[who[c]]
    BY DEF IInv, MarkInv
  <2>2. ref[c] # None
    BY DEF IInv, PhaseInv, Claimed
  <2> QED
    BY <2>1, <2>2 DEF IInv, OwnDict
<1> QED
  BY Invariance, <1>1, PTL

(***************************************************************************)
(* Implementation of the ledger                                            *)
(***************************************************************************)

LEMMA LedgerInit == Init => Ledger!Init
  BY DEF Init, StoreInit, Ledger!Init

LEMMA LedgerStep == TypeOK /\ PhaseInv /\ MarkInv /\ KeptInv /\ [Next]_vars => [Ledger!Next]_(Ledger!ledgerVars)
<1> SUFFICES ASSUME TypeOK, PhaseInv, MarkInv, KeptInv, [Next]_vars PROVE [Ledger!Next]_(Ledger!ledgerVars)
  OBVIOUS
<1>1. ASSUME NEW c \in Conns, ThreadStep(c) PROVE [Ledger!Next]_(Ledger!ledgerVars)
  <2>1. CASE Connect(c)
    <3>1. UNCHANGED <<live, disk, kept>>
      BY <2>1, NoneAssumption DEF Connect, Goto, storeVars, TypeOK, StoreTypeOK, Images, FileStates, Phases
    <3> QED
      BY <3>1 DEF Ledger!ledgerVars
  <2>2. ASSUME NEW p \in Pids, Login(c, p) PROVE [Ledger!Next]_(Ledger!ledgerVars)
    <3>1. UNCHANGED <<live, disk, kept>>
      BY <2>2, NoneAssumption DEF Login, Goto, storeVars, TypeOK, StoreTypeOK, Images, FileStates, Phases
    <3> QED
      BY <3>1 DEF Ledger!ledgerVars
  <2>3. CASE Load(c)
    <3>1. UNCHANGED <<live, disk, kept>>
      BY <2>3, NoneAssumption DEF Load, Adopt, Goto, Referenced, storeVars, TypeOK, StoreTypeOK, Images, FileStates, Phases
    <3> QED
      BY <3>1 DEF Ledger!ledgerVars
  <2>4. CASE LoadRepair(c)
    <3>1. UNCHANGED <<live, disk, kept>>
      BY <2>4, NoneAssumption DEF LoadRepair, OpenTmp, LockFree, Goto, storeVars, TypeOK, StoreTypeOK, Images, FileStates, Phases
    <3> QED
      BY <3>1 DEF Ledger!ledgerVars
  <2>5. CASE LoadRepaired(c)
    <3>1. who[c] \in Pids
      BY <2>5, NoneAssumption DEF LoadRepaired, TypeOK, PhaseInv
    <3>2. UNCHANGED <<live, disk, kept>>
      BY <2>5, <3>1 DEF LoadRepaired, ReplaceFile, TypeOK, StoreTypeOK
    <3> QED
      BY <3>2 DEF Ledger!ledgerVars
  <2>6. CASE LoadFails(c)
    <3>1. UNCHANGED <<live, disk, kept>>
      BY <2>6, NoneAssumption DEF LoadFails, AbandonTmp, Goto, LockFree, storeVars, TypeOK, StoreTypeOK, Images, FileStates, Phases
    <3> QED
      BY <3>1 DEF Ledger!ledgerVars
  <2>7. CASE Claim(c)
    <3>1. who[c] \in Pids /\ ref[c] \in Ids
      BY <2>7, NoneAssumption DEF Claim, TypeOK, PhaseInv
    <3>2. Ledger!TakeOver(who[c], ref[c])
      BY <2>7 DEF Claim, Ledger!TakeOver
    <3> QED
      BY <3>1, <3>2 DEF Ledger!Next
  <2>8. ASSUME NEW e \in Effects, Change(c, e) PROVE [Ledger!Next]_(Ledger!ledgerVars)
    <3>1. UNCHANGED <<live, disk, kept>>
      BY <2>8, NoneAssumption DEF Change, Goto, storeVars, TypeOK, StoreTypeOK, Images, FileStates, Phases
    <3> QED
      BY <3>1 DEF Ledger!ledgerVars
  <2>9. CASE SaveBegin(c)
    <3>1. UNCHANGED <<live, disk, kept>>
      BY <2>9, NoneAssumption DEF SaveBegin, OpenTmp, LockFree, Goto, storeVars, TypeOK, StoreTypeOK, Images, FileStates, Phases
    <3> QED
      BY <3>1 DEF Ledger!ledgerVars
  <2>10. CASE SaveEnd(c)
    <3>1. who[c] \in Pids /\ ref[c] # None /\ mem[c] \in SUBSET Effects
      BY <2>10, NoneAssumption DEF SaveEnd, TypeOK, Images, PhaseInv
    <3>2. live[who[c]] = ref[c]
      BY <2>10 DEF SaveEnd, MarkInv
    <3>3. kept[who[c]] \subseteq mem[c]
      BY <2>10, <3>2 DEF SaveEnd, KeptInv, Claimed
    <3>4. Ledger!Commit(who[c], mem[c])
      BY <2>10, <3>1, <3>2, <3>3 DEF SaveEnd, ReplaceFile, Ledger!Commit
    <3> QED
      BY <3>1, <3>4 DEF Ledger!Next
  <2>11. CASE SaveFails(c)
    <3>1. UNCHANGED <<live, disk, kept>>
      BY <2>11, NoneAssumption DEF SaveFails, AbandonTmp, Goto, storeVars, TypeOK, StoreTypeOK, Images, FileStates, Phases
    <3> QED
      BY <3>1 DEF Ledger!ledgerVars
  <2>12. CASE SaveRefused(c)
    <3>1. UNCHANGED <<live, disk, kept>>
      BY <2>12, NoneAssumption DEF SaveRefused, LockFree, Goto, storeVars, TypeOK, StoreTypeOK, Images, FileStates, Phases
    <3> QED
      BY <3>1 DEF Ledger!ledgerVars
  <2>13. CASE Drop(c)
    <3>1. UNCHANGED <<live, disk, kept>>
      BY <2>13, NoneAssumption DEF Drop, Goto, storeVars, TypeOK, StoreTypeOK, Images, FileStates, Phases
    <3> QED
      BY <3>1 DEF Ledger!ledgerVars
  <2>14. CASE Exit(c)
    <3> DEFINE gone == {p \in Pids : p = who[c] /\ live[p] = ref[c]}
    <3>1. Ledger!Leave(gone)
      BY <2>14 DEF Exit, ExitThread, Ledger!Leave
    <3> QED
      BY <3>1 DEF Ledger!Next
  <2> QED
    BY <1>1, <2>1, <2>2, <2>3, <2>4, <2>5, <2>6, <2>7, <2>8, <2>9, <2>10, <2>11, <2>12, <2>13, <2>14
       DEF ThreadStep, LoadStep, SaveStep
<1>2. CASE Crash
  <2>1. Ledger!Leave(Pids)
    BY <1>2 DEF Crash, Ledger!Leave
  <2> QED
    BY <2>1 DEF Ledger!Next
<1>3. CASE UNCHANGED vars
  BY <1>3 DEF vars, storeVars, sessionVars, Ledger!ledgerVars
<1> QED
  BY <1>1, <1>2, <1>3 DEF Next, ThreadStep

(* Every behaviour of the threads is one of the single-writer ledger.      *)
THEOREM ImplementsLedger == Spec => LedgerSpec
<1>1. TypeOK /\ IInv /\ [Next]_vars => [Ledger!Next]_(Ledger!ledgerVars)
  BY LedgerStep DEF IInv
<1> QED
  BY LedgerInit, Invariance, <1>1, PTL DEF Spec, LedgerSpec, Ledger!Spec

(***************************************************************************)
(* Identities are never confused, provided no connection logs in twice     *)
(***************************************************************************)

(* Before load() has returned a thread has no dict; until it has claimed   *)
(* the account its dict is neither marked nor in a live slot.              *)
FreshInv ==
  \A c \in Conns :
    /\ pc[c] \in {"none", "hello", "named", "repair"} => ref[c] = None
    /\ pc[c] = "loaded" => /\ ref[c] \notin superseded
                           /\ \A p \in Pids : live[p] # ref[c]

IdInv == FreshInv /\ MarksAreHeld /\ OwnerNeverRefused

LEMMA FreshStep == Relogin = FALSE /\ TypeOK /\ OwnDict /\ PhaseInv /\ IdInv /\ [Next]_vars => FreshInv'
<1> SUFFICES ASSUME Relogin = FALSE, TypeOK, OwnDict, PhaseInv, IdInv, [Next]_vars PROVE FreshInv'
  OBVIOUS
<1>1. ASSUME NEW c \in Conns, ThreadStep(c) PROVE FreshInv'
  <2>1. CASE Connect(c)
    BY <2>1, NoneAssumption DEF Connect, Goto, storeVars, TypeOK, StoreTypeOK, Images, FileStates, Phases, OwnDict, PhaseInv, FreshInv, MarksAreHeld, OwnerNeverRefused, IdInv
  <2>2. ASSUME NEW p \in Pids, Login(c, p) PROVE FreshInv'
    BY <2>2, NoneAssumption DEF Login, Goto, storeVars, TypeOK, StoreTypeOK, Images, FileStates, Phases, OwnDict, PhaseInv, FreshInv, MarksAreHeld, OwnerNeverRefused, IdInv
  <2>3. CASE Load(c)
    BY <2>3, NoneAssumption DEF Load, Adopt, Goto, Referenced, storeVars, TypeOK, StoreTypeOK, Images, FileStates, Phases, OwnDict, PhaseInv, FreshInv, MarksAreHeld, OwnerNeverRefused, IdInv
  <2>4. CASE LoadRepair(c)
    BY <2>4, NoneAssumption DEF LoadRepair, OpenTmp, LockFree, Goto, storeVars, TypeOK, StoreTypeOK, Images, FileStates, Phases, OwnDict, PhaseInv, FreshInv, MarksAreHeld, OwnerNeverRefused, IdInv
  <2>5. CASE LoadRepaired(c)
    BY <2>5, NoneAssumption DEF LoadRepaired, ReplaceFile, Adopt, Goto, Referenced, storeVars, TypeOK, StoreTypeOK, Images, FileStates, Phases, OwnDict, PhaseInv, FreshInv, MarksAreHeld, OwnerNeverRefused, IdInv
  <2>6. CASE LoadFails(c)
    BY <2>6, NoneAssumption DEF LoadFails, AbandonTmp, Goto, LockFree, storeVars, TypeOK, StoreTypeOK, Images, FileStates, Phases, OwnDict, PhaseInv, FreshInv, MarksAreHeld, OwnerNeverRefused, IdInv
  <2>7. CASE Claim(c)
    BY <2>7, NoneAssumption DEF Claim, Supersede, LockFree, Goto, storeVars, TypeOK, StoreTypeOK, Images, FileStates, Phases, OwnDict, PhaseInv, FreshInv, MarksAreHeld, OwnerNeverRefused, IdInv
  <2>8. ASSUME NEW e \in Effects, Change(c, e) PROVE FreshInv'
    BY <2>8, NoneAssumption DEF Change, Goto, storeVars, TypeOK, StoreTypeOK, Images, FileStates, Phases, OwnDict, PhaseInv, FreshInv, MarksAreHeld, OwnerNeverRefused, IdInv
  <2>9. CASE SaveBegin(c)
    BY <2>9, NoneAssumption DEF SaveBegin, OpenTmp, LockFree, Goto, storeVars, TypeOK, StoreTypeOK, Images, FileStates, Phases, OwnDict, PhaseInv, FreshInv, MarksAreHeld, OwnerNeverRefused, IdInv
  <2>10. CASE SaveEnd(c)
    BY <2>10, NoneAssumption DEF SaveEnd, ReplaceFile, Goto, storeVars, TypeOK, StoreTypeOK, Images, FileStates, Phases, OwnDict, PhaseInv, FreshInv, MarksAreHeld, OwnerNeverRefused, IdInv
  <2>11. CASE SaveFails(c)
    BY <2>11, NoneAssumption DEF SaveFails, AbandonTmp, Goto, storeVars, TypeOK, StoreTypeOK, Images, FileStates, Phases, OwnDict, PhaseInv, FreshInv, MarksAreHeld, OwnerNeverRefused, IdInv
  <2>12. CASE SaveRefused(c)
    BY <2>12, NoneAssumption DEF SaveRefused, LockFree, Goto, storeVars, TypeOK, StoreTypeOK, Images, FileStates, Phases, OwnDict, PhaseInv, FreshInv, MarksAreHeld, OwnerNeverRefused, IdInv
  <2>13. CASE Drop(c)
    BY <2>13, NoneAssumption DEF Drop, Goto, storeVars, TypeOK, StoreTypeOK, Images, FileStates, Phases, OwnDict, PhaseInv, FreshInv, MarksAreHeld, OwnerNeverRefused, IdInv
  <2>14. CASE Exit(c)
    BY <2>14, NoneAssumption DEF Exit, ExitThread, Release, LockFree, storeVars, TypeOK, StoreTypeOK, Images, FileStates, Phases, OwnDict, PhaseInv, FreshInv, MarksAreHeld, OwnerNeverRefused, IdInv
  <2> QED
    BY <1>1, <2>1, <2>2, <2>3, <2>4, <2>5, <2>6, <2>7, <2>8, <2>9, <2>10, <2>11, <2>12, <2>13, <2>14
       DEF ThreadStep, LoadStep, SaveStep
<1>2. CASE Crash
  BY <1>2, NoneAssumption DEF Crash, TypeOK, StoreTypeOK, Images, FileStates, Phases, OwnDict, PhaseInv, FreshInv, MarksAreHeld, OwnerNeverRefused, IdInv
<1>3. CASE UNCHANGED vars
  BY <1>3 DEF vars, storeVars, sessionVars, TypeOK, StoreTypeOK, Images, FileStates, Phases, OwnDict, PhaseInv, FreshInv, MarksAreHeld, OwnerNeverRefused, IdInv
<1> QED
  BY <1>1, <1>2, <1>3 DEF Next, ThreadStep

LEMMA HeldStep == Relogin = FALSE /\ TypeOK /\ OwnDict /\ PhaseInv /\ IdInv /\ [Next]_vars => MarksAreHeld'
<1> SUFFICES ASSUME Relogin = FALSE, TypeOK, OwnDict, PhaseInv, IdInv, [Next]_vars PROVE MarksAreHeld'
  OBVIOUS
<1>1. ASSUME NEW c \in Conns, ThreadStep(c) PROVE MarksAreHeld'
  <2>1. CASE Connect(c)
    BY <2>1, NoneAssumption DEF Connect, Goto, storeVars, TypeOK, StoreTypeOK, Images, FileStates, Phases, OwnDict, PhaseInv, FreshInv, MarksAreHeld, OwnerNeverRefused, IdInv
  <2>2. ASSUME NEW p \in Pids, Login(c, p) PROVE MarksAreHeld'
    BY <2>2, NoneAssumption DEF Login, Goto, storeVars, TypeOK, StoreTypeOK, Images, FileStates, Phases, OwnDict, PhaseInv, FreshInv, MarksAreHeld, OwnerNeverRefused, IdInv
  <2>3. CASE Load(c)
    BY <2>3, NoneAssumption DEF Load, Adopt, Goto, Referenced, storeVars, TypeOK, StoreTypeOK, Images, FileStates, Phases, OwnDict, PhaseInv, FreshInv, MarksAreHeld, OwnerNeverRefused, IdInv
  <2>4. CASE LoadRepair(c)
    BY <2>4, NoneAssumption DEF LoadRepair, OpenTmp, LockFree, Goto, storeVars, TypeOK, StoreTypeOK, Images, FileStates, Phases, OwnDict, PhaseInv, FreshInv, MarksAreHeld, OwnerNeverRefused, IdInv
  <2>5. CASE LoadRepaired(c)
    BY <2>5, NoneAssumption DEF LoadRepaired, ReplaceFile, Adopt, Goto, Referenced, storeVars, TypeOK, StoreTypeOK, Images, FileStates, Phases, OwnDict, PhaseInv, FreshInv, MarksAreHeld, OwnerNeverRefused, IdInv
  <2>6. CASE LoadFails(c)
    BY <2>6, NoneAssumption DEF LoadFails, AbandonTmp, Goto, LockFree, storeVars, TypeOK, StoreTypeOK, Images, FileStates, Phases, OwnDict, PhaseInv, FreshInv, MarksAreHeld, OwnerNeverRefused, IdInv
  <2>7. CASE Claim(c)
    BY <2>7, NoneAssumption DEF Claim, Supersede, LockFree, Goto, storeVars, TypeOK, StoreTypeOK, Images, FileStates, Phases, OwnDict, PhaseInv, FreshInv, MarksAreHeld, OwnerNeverRefused, IdInv
  <2>8. ASSUME NEW e \in Effects, Change(c, e) PROVE MarksAreHeld'
    BY <2>8, NoneAssumption DEF Change, Goto, storeVars, TypeOK, StoreTypeOK, Images, FileStates, Phases, OwnDict, PhaseInv, FreshInv, MarksAreHeld, OwnerNeverRefused, IdInv
  <2>9. CASE SaveBegin(c)
    BY <2>9, NoneAssumption DEF SaveBegin, OpenTmp, LockFree, Goto, storeVars, TypeOK, StoreTypeOK, Images, FileStates, Phases, OwnDict, PhaseInv, FreshInv, MarksAreHeld, OwnerNeverRefused, IdInv
  <2>10. CASE SaveEnd(c)
    BY <2>10, NoneAssumption DEF SaveEnd, ReplaceFile, Goto, storeVars, TypeOK, StoreTypeOK, Images, FileStates, Phases, OwnDict, PhaseInv, FreshInv, MarksAreHeld, OwnerNeverRefused, IdInv
  <2>11. CASE SaveFails(c)
    BY <2>11, NoneAssumption DEF SaveFails, AbandonTmp, Goto, storeVars, TypeOK, StoreTypeOK, Images, FileStates, Phases, OwnDict, PhaseInv, FreshInv, MarksAreHeld, OwnerNeverRefused, IdInv
  <2>12. CASE SaveRefused(c)
    BY <2>12, NoneAssumption DEF SaveRefused, LockFree, Goto, storeVars, TypeOK, StoreTypeOK, Images, FileStates, Phases, OwnDict, PhaseInv, FreshInv, MarksAreHeld, OwnerNeverRefused, IdInv
  <2>13. CASE Drop(c)
    BY <2>13, NoneAssumption DEF Drop, Goto, storeVars, TypeOK, StoreTypeOK, Images, FileStates, Phases, OwnDict, PhaseInv, FreshInv, MarksAreHeld, OwnerNeverRefused, IdInv
  <2>14. CASE Exit(c)
    BY <2>14, NoneAssumption DEF Exit, ExitThread, Release, LockFree, storeVars, TypeOK, StoreTypeOK, Images, FileStates, Phases, OwnDict, PhaseInv, FreshInv, MarksAreHeld, OwnerNeverRefused, IdInv
  <2> QED
    BY <1>1, <2>1, <2>2, <2>3, <2>4, <2>5, <2>6, <2>7, <2>8, <2>9, <2>10, <2>11, <2>12, <2>13, <2>14
       DEF ThreadStep, LoadStep, SaveStep
<1>2. CASE Crash
  BY <1>2, NoneAssumption DEF Crash, TypeOK, StoreTypeOK, Images, FileStates, Phases, OwnDict, PhaseInv, FreshInv, MarksAreHeld, OwnerNeverRefused, IdInv
<1>3. CASE UNCHANGED vars
  BY <1>3 DEF vars, storeVars, sessionVars, TypeOK, StoreTypeOK, Images, FileStates, Phases, OwnDict, PhaseInv, FreshInv, MarksAreHeld, OwnerNeverRefused, IdInv
<1> QED
  BY <1>1, <1>2, <1>3 DEF Next, ThreadStep

LEMMA RefusedStep == Relogin = FALSE /\ TypeOK /\ OwnDict /\ PhaseInv /\ IdInv /\ [Next]_vars => OwnerNeverRefused'
<1> SUFFICES ASSUME Relogin = FALSE, TypeOK, OwnDict, PhaseInv, IdInv, [Next]_vars PROVE OwnerNeverRefused'
  OBVIOUS
<1>1. ASSUME NEW c \in Conns, ThreadStep(c) PROVE OwnerNeverRefused'
  <2>1. CASE Connect(c)
    BY <2>1, NoneAssumption DEF Connect, Goto, storeVars, TypeOK, StoreTypeOK, Images, FileStates, Phases, OwnDict, PhaseInv, FreshInv, MarksAreHeld, OwnerNeverRefused, IdInv
  <2>2. ASSUME NEW p \in Pids, Login(c, p) PROVE OwnerNeverRefused'
    BY <2>2, NoneAssumption DEF Login, Goto, storeVars, TypeOK, StoreTypeOK, Images, FileStates, Phases, OwnDict, PhaseInv, FreshInv, MarksAreHeld, OwnerNeverRefused, IdInv
  <2>3. CASE Load(c)
    BY <2>3, NoneAssumption DEF Load, Adopt, Goto, Referenced, storeVars, TypeOK, StoreTypeOK, Images, FileStates, Phases, OwnDict, PhaseInv, FreshInv, MarksAreHeld, OwnerNeverRefused, IdInv
  <2>4. CASE LoadRepair(c)
    BY <2>4, NoneAssumption DEF LoadRepair, OpenTmp, LockFree, Goto, storeVars, TypeOK, StoreTypeOK, Images, FileStates, Phases, OwnDict, PhaseInv, FreshInv, MarksAreHeld, OwnerNeverRefused, IdInv
  <2>5. CASE LoadRepaired(c)
    BY <2>5, NoneAssumption DEF LoadRepaired, ReplaceFile, Adopt, Goto, Referenced, storeVars, TypeOK, StoreTypeOK, Images, FileStates, Phases, OwnDict, PhaseInv, FreshInv, MarksAreHeld, OwnerNeverRefused, IdInv
  <2>6. CASE LoadFails(c)
    BY <2>6, NoneAssumption DEF LoadFails, AbandonTmp, Goto, LockFree, storeVars, TypeOK, StoreTypeOK, Images, FileStates, Phases, OwnDict, PhaseInv, FreshInv, MarksAreHeld, OwnerNeverRefused, IdInv
  <2>7. CASE Claim(c)
    BY <2>7, NoneAssumption DEF Claim, Supersede, LockFree, Goto, storeVars, TypeOK, StoreTypeOK, Images, FileStates, Phases, OwnDict, PhaseInv, FreshInv, MarksAreHeld, OwnerNeverRefused, IdInv
  <2>8. ASSUME NEW e \in Effects, Change(c, e) PROVE OwnerNeverRefused'
    BY <2>8, NoneAssumption DEF Change, Goto, storeVars, TypeOK, StoreTypeOK, Images, FileStates, Phases, OwnDict, PhaseInv, FreshInv, MarksAreHeld, OwnerNeverRefused, IdInv
  <2>9. CASE SaveBegin(c)
    BY <2>9, NoneAssumption DEF SaveBegin, OpenTmp, LockFree, Goto, storeVars, TypeOK, StoreTypeOK, Images, FileStates, Phases, OwnDict, PhaseInv, FreshInv, MarksAreHeld, OwnerNeverRefused, IdInv
  <2>10. CASE SaveEnd(c)
    BY <2>10, NoneAssumption DEF SaveEnd, ReplaceFile, Goto, storeVars, TypeOK, StoreTypeOK, Images, FileStates, Phases, OwnDict, PhaseInv, FreshInv, MarksAreHeld, OwnerNeverRefused, IdInv
  <2>11. CASE SaveFails(c)
    BY <2>11, NoneAssumption DEF SaveFails, AbandonTmp, Goto, storeVars, TypeOK, StoreTypeOK, Images, FileStates, Phases, OwnDict, PhaseInv, FreshInv, MarksAreHeld, OwnerNeverRefused, IdInv
  <2>12. CASE SaveRefused(c)
    BY <2>12, NoneAssumption DEF SaveRefused, LockFree, Goto, storeVars, TypeOK, StoreTypeOK, Images, FileStates, Phases, OwnDict, PhaseInv, FreshInv, MarksAreHeld, OwnerNeverRefused, IdInv
  <2>13. CASE Drop(c)
    BY <2>13, NoneAssumption DEF Drop, Goto, storeVars, TypeOK, StoreTypeOK, Images, FileStates, Phases, OwnDict, PhaseInv, FreshInv, MarksAreHeld, OwnerNeverRefused, IdInv
  <2>14. CASE Exit(c)
    BY <2>14, NoneAssumption DEF Exit, ExitThread, Release, LockFree, storeVars, TypeOK, StoreTypeOK, Images, FileStates, Phases, OwnDict, PhaseInv, FreshInv, MarksAreHeld, OwnerNeverRefused, IdInv
  <2> QED
    BY <1>1, <2>1, <2>2, <2>3, <2>4, <2>5, <2>6, <2>7, <2>8, <2>9, <2>10, <2>11, <2>12, <2>13, <2>14
       DEF ThreadStep, LoadStep, SaveStep
<1>2. CASE Crash
  BY <1>2, NoneAssumption DEF Crash, TypeOK, StoreTypeOK, Images, FileStates, Phases, OwnDict, PhaseInv, FreshInv, MarksAreHeld, OwnerNeverRefused, IdInv
<1>3. CASE UNCHANGED vars
  BY <1>3 DEF vars, storeVars, sessionVars, TypeOK, StoreTypeOK, Images, FileStates, Phases, OwnDict, PhaseInv, FreshInv, MarksAreHeld, OwnerNeverRefused, IdInv
<1> QED
  BY <1>1, <1>2, <1>3 DEF Next, ThreadStep

(* With one LOGIN per connection every superseded mark belongs to a dict a *)
(* thread still refers to, and the owner of an account is never refused.   *)
(* A repeated LOGIN leaves the mark of its first dict behind.              *)
THEOREM IdentitiesSafe ==
  Relogin = FALSE => (Spec => []IdentitiesHold)
<1> SUFFICES ASSUME Relogin = FALSE
             PROVE  Spec => []IdentitiesHold
  OBVIOUS
<1>1. Init => IdInv
  BY NoneAssumption DEF Init, StoreInit, IdInv, FreshInv, MarksAreHeld,
     OwnerNeverRefused
<1>2. TypeOK /\ IInv /\ IdInv /\ [Next]_vars => IdInv'
  BY FreshStep, HeldStep, RefusedStep DEF IInv, IdInv
<1>3. IdInv => IdentitiesHold
  BY DEF IdInv, IdentitiesHold
<1> QED
  BY Invariance, <1>1, <1>2, <1>3, PTL DEF Spec
-----------------------------------------------------------------------------
(* The save editor beside the sessions.                                    *)

(* A connection that has not logged in has no player.                      *)
UnnamedInv == \A c \in Conns : pc[c] \in {"none", "hello"} => who[c] = None

(* The account of an edit under way, and no change of its player lost.     *)
DeskInv ==
  /\ ed # "rest" => edPid \in Pids
  /\ ed \in {"edited", "writing"} => edits[edPid] \subseteq edMem

(* While the guard's look stays true nobody plays what is edited.          *)
AloneInv == ed # "rest" /\ quiet => ~Playing(edPid)

(* Whoever may still write an account has its quiet edits in the dict.     *)
Holds(c) == pc[c] \in {"loaded", "idle", "dirty", "saving"}
EditsInv ==
  /\ \A p \in Pids : edits[p] \subseteq disk[p]
  /\ \A c \in Conns : Holds(c) => edits[who[c]] \subseteq mem[c]

EditInv ==
  /\ EdTypeOK /\ PhaseInv /\ LockInv /\ UnnamedInv
  /\ DeskInv /\ AloneInv /\ EditsInv

LEMMA UnnamedServer ==
  ASSUME TypeOK, UnnamedInv, Next
  PROVE  UnnamedInv'
<1>1. ASSUME NEW c \in Conns, ThreadStep(c) PROVE UnnamedInv'
  <2>1. CASE Connect(c)
    BY <2>1, NoneAssumption DEF Connect, Goto, storeVars, TypeOK, StoreTypeOK, Images, Phases, UnnamedInv
  <2>2. ASSUME NEW p \in Pids, Login(c, p) PROVE UnnamedInv'
    BY <2>2, NoneAssumption DEF Login, Goto, storeVars, TypeOK, StoreTypeOK, Images, Phases, UnnamedInv
  <2>3. CASE Load(c)
    BY <2>3, NoneAssumption DEF Load, Adopt, Goto, Referenced, storeVars, TypeOK, StoreTypeOK, Images, Phases, UnnamedInv
  <2>4. CASE LoadRepair(c)
    BY <2>4, NoneAssumption DEF LoadRepair, OpenTmp, LockFree, Goto, storeVars, TypeOK, StoreTypeOK, Images, Phases, UnnamedInv
  <2>5. CASE LoadRepaired(c)
    BY <2>5, NoneAssumption DEF LoadRepaired, ReplaceFile, Adopt, Goto, Referenced, storeVars, TypeOK, StoreTypeOK, Images, Phases, UnnamedInv
  <2>6. CASE LoadFails(c)
    BY <2>6, NoneAssumption DEF LoadFails, AbandonTmp, Goto, LockFree, storeVars, TypeOK, StoreTypeOK, Images, Phases, UnnamedInv
  <2>7. CASE Claim(c)
    BY <2>7, NoneAssumption DEF Claim, Goto, storeVars, TypeOK, StoreTypeOK, Images, Phases, UnnamedInv
  <2>8. ASSUME NEW e \in Effects, Change(c, e) PROVE UnnamedInv'
    BY <2>8, NoneAssumption DEF Change, Goto, storeVars, TypeOK, StoreTypeOK, Images, Phases, UnnamedInv
  <2>9. CASE SaveBegin(c)
    BY <2>9, NoneAssumption DEF SaveBegin, OpenTmp, LockFree, Goto, storeVars, TypeOK, StoreTypeOK, Images, Phases, UnnamedInv
  <2>10. CASE SaveEnd(c)
    BY <2>10, NoneAssumption DEF SaveEnd, ReplaceFile, Goto, storeVars, TypeOK, StoreTypeOK, Images, Phases, UnnamedInv
  <2>11. CASE SaveFails(c)
    BY <2>11, NoneAssumption DEF SaveFails, AbandonTmp, Goto, storeVars, TypeOK, StoreTypeOK, Images, Phases, UnnamedInv
  <2>12. CASE SaveRefused(c)
    BY <2>12, NoneAssumption DEF SaveRefused, LockFree, Goto, storeVars, TypeOK, StoreTypeOK, Images, Phases, UnnamedInv
  <2>13. CASE Drop(c)
    BY <2>13, NoneAssumption DEF Drop, Goto, storeVars, TypeOK, StoreTypeOK, Images, Phases, UnnamedInv
  <2>14. CASE Exit(c)
    BY <2>14, NoneAssumption DEF Exit, ExitThread, Release, LockFree, storeVars, TypeOK, StoreTypeOK, Images, Phases, UnnamedInv
  <2> QED
    BY <1>1, <2>1, <2>2, <2>3, <2>4, <2>5, <2>6, <2>7, <2>8, <2>9, <2>10, <2>11, <2>12, <2>13, <2>14
       DEF ThreadStep, LoadStep, SaveStep
<1>2. CASE Crash
  BY <1>2, NoneAssumption DEF Crash, storeVars, TypeOK, StoreTypeOK, Images, Phases, UnnamedInv
<1> QED
  BY <1>1, <1>2 DEF Next, ThreadStep

(* A thread loads what the file holds, adds to it and saves it.            *)
LEMMA EditsServer ==
  ASSUME TypeOK, PhaseInv, edits \in [Pids -> Images], EditsInv, Next, edits' = edits, ~Relogin
  PROVE  EditsInv'
<1>1. ASSUME NEW c \in Conns, ThreadStep(c) PROVE EditsInv'
  <2>1. CASE Connect(c)
    BY <2>1, NoneAssumption DEF Connect, Goto, storeVars, TypeOK, StoreTypeOK, Images, Phases, PhaseInv, EditsInv, Holds
  <2>2. ASSUME NEW p \in Pids, Login(c, p) PROVE EditsInv'
    BY <2>2, NoneAssumption DEF Login, Goto, storeVars, TypeOK, StoreTypeOK, Images, Phases, PhaseInv, EditsInv, Holds
  <2>3. CASE Load(c)
    BY <2>3, NoneAssumption DEF Load, Adopt, Goto, Referenced, storeVars, TypeOK, StoreTypeOK, Images, Phases, PhaseInv, EditsInv, Holds
  <2>4. CASE LoadRepair(c)
    BY <2>4, NoneAssumption DEF LoadRepair, OpenTmp, LockFree, Goto, storeVars, TypeOK, StoreTypeOK, Images, Phases, PhaseInv, EditsInv, Holds
  <2>5. CASE LoadRepaired(c)
    BY <2>5, NoneAssumption DEF LoadRepaired, ReplaceFile, Adopt, Goto, Referenced, storeVars, TypeOK, StoreTypeOK, Images, Phases, PhaseInv, EditsInv, Holds
  <2>6. CASE LoadFails(c)
    BY <2>6, NoneAssumption DEF LoadFails, AbandonTmp, Goto, LockFree, storeVars, TypeOK, StoreTypeOK, Images, Phases, PhaseInv, EditsInv, Holds
  <2>7. CASE Claim(c)
    BY <2>7, NoneAssumption DEF Claim, Goto, storeVars, TypeOK, StoreTypeOK, Images, Phases, PhaseInv, EditsInv, Holds
  <2>8. ASSUME NEW e \in Effects, Change(c, e) PROVE EditsInv'
    BY <2>8, NoneAssumption DEF Change, Goto, storeVars, TypeOK, StoreTypeOK, Images, Phases, PhaseInv, EditsInv, Holds
  <2>9. CASE SaveBegin(c)
    BY <2>9, NoneAssumption DEF SaveBegin, OpenTmp, LockFree, Goto, storeVars, TypeOK, StoreTypeOK, Images, Phases, PhaseInv, EditsInv, Holds
  <2>10. CASE SaveEnd(c)
    BY <2>10, NoneAssumption DEF SaveEnd, ReplaceFile, Goto, storeVars, TypeOK, StoreTypeOK, Images, Phases, PhaseInv, EditsInv, Holds
  <2>11. CASE SaveFails(c)
    BY <2>11, NoneAssumption DEF SaveFails, AbandonTmp, Goto, storeVars, TypeOK, StoreTypeOK, Images, Phases, PhaseInv, EditsInv, Holds
  <2>12. CASE SaveRefused(c)
    BY <2>12, NoneAssumption DEF SaveRefused, LockFree, Goto, storeVars, TypeOK, StoreTypeOK, Images, Phases, PhaseInv, EditsInv, Holds
  <2>13. CASE Drop(c)
    BY <2>13, NoneAssumption DEF Drop, Goto, storeVars, TypeOK, StoreTypeOK, Images, Phases, PhaseInv, EditsInv, Holds
  <2>14. CASE Exit(c)
    BY <2>14, NoneAssumption DEF Exit, ExitThread, Release, LockFree, storeVars, TypeOK, StoreTypeOK, Images, Phases, PhaseInv, EditsInv, Holds
  <2> QED
    BY <1>1, <2>1, <2>2, <2>3, <2>4, <2>5, <2>6, <2>7, <2>8, <2>9, <2>10, <2>11, <2>12, <2>13, <2>14
       DEF ThreadStep, LoadStep, SaveStep
<1>2. CASE Crash
  BY <1>2, NoneAssumption DEF Crash, storeVars, TypeOK, StoreTypeOK, Images, Phases, PhaseInv, EditsInv, Holds
<1> QED
  BY <1>1, <1>2 DEF Next, ThreadStep

(* Only a connection that arrives can become one of the edited account.    *)
LEMMA AloneServer ==
  ASSUME TypeOK, UnnamedInv, ServerStep, Next, AloneInv, ~Relogin
  PROVE  AloneInv'
<1>1. ASSUME NEW c \in Conns, ThreadStep(c) PROVE AloneInv'
  <2>1. CASE Connect(c)
    BY <2>1, NoneAssumption DEF Connect, Goto, storeVars, TypeOK, StoreTypeOK, Images, Phases, UnnamedInv, AloneInv, Playing, ServerStep
  <2>2. ASSUME NEW p \in Pids, Login(c, p) PROVE AloneInv'
    BY <2>2, NoneAssumption DEF Login, Goto, storeVars, TypeOK, StoreTypeOK, Images, Phases, UnnamedInv, AloneInv, Playing, ServerStep
  <2>3. CASE Load(c)
    BY <2>3, NoneAssumption DEF Load, Adopt, Goto, Referenced, storeVars, TypeOK, StoreTypeOK, Images, Phases, UnnamedInv, AloneInv, Playing, ServerStep
  <2>4. CASE LoadRepair(c)
    BY <2>4, NoneAssumption DEF LoadRepair, OpenTmp, LockFree, Goto, storeVars, TypeOK, StoreTypeOK, Images, Phases, UnnamedInv, AloneInv, Playing, ServerStep
  <2>5. CASE LoadRepaired(c)
    BY <2>5, NoneAssumption DEF LoadRepaired, ReplaceFile, Adopt, Goto, Referenced, storeVars, TypeOK, StoreTypeOK, Images, Phases, UnnamedInv, AloneInv, Playing, ServerStep
  <2>6. CASE LoadFails(c)
    BY <2>6, NoneAssumption DEF LoadFails, AbandonTmp, Goto, LockFree, storeVars, TypeOK, StoreTypeOK, Images, Phases, UnnamedInv, AloneInv, Playing, ServerStep
  <2>7. CASE Claim(c)
    BY <2>7, NoneAssumption DEF Claim, Goto, storeVars, TypeOK, StoreTypeOK, Images, Phases, UnnamedInv, AloneInv, Playing, ServerStep
  <2>8. ASSUME NEW e \in Effects, Change(c, e) PROVE AloneInv'
    BY <2>8, NoneAssumption DEF Change, Goto, storeVars, TypeOK, StoreTypeOK, Images, Phases, UnnamedInv, AloneInv, Playing, ServerStep
  <2>9. CASE SaveBegin(c)
    BY <2>9, NoneAssumption DEF SaveBegin, OpenTmp, LockFree, Goto, storeVars, TypeOK, StoreTypeOK, Images, Phases, UnnamedInv, AloneInv, Playing, ServerStep
  <2>10. CASE SaveEnd(c)
    BY <2>10, NoneAssumption DEF SaveEnd, ReplaceFile, Goto, storeVars, TypeOK, StoreTypeOK, Images, Phases, UnnamedInv, AloneInv, Playing, ServerStep
  <2>11. CASE SaveFails(c)
    BY <2>11, NoneAssumption DEF SaveFails, AbandonTmp, Goto, storeVars, TypeOK, StoreTypeOK, Images, Phases, UnnamedInv, AloneInv, Playing, ServerStep
  <2>12. CASE SaveRefused(c)
    BY <2>12, NoneAssumption DEF SaveRefused, LockFree, Goto, storeVars, TypeOK, StoreTypeOK, Images, Phases, UnnamedInv, AloneInv, Playing, ServerStep
  <2>13. CASE Drop(c)
    BY <2>13, NoneAssumption DEF Drop, Goto, storeVars, TypeOK, StoreTypeOK, Images, Phases, UnnamedInv, AloneInv, Playing, ServerStep
  <2>14. CASE Exit(c)
    BY <2>14, NoneAssumption DEF Exit, ExitThread, Release, LockFree, storeVars, TypeOK, StoreTypeOK, Images, Phases, UnnamedInv, AloneInv, Playing, ServerStep
  <2> QED
    BY <1>1, <2>1, <2>2, <2>3, <2>4, <2>5, <2>6, <2>7, <2>8, <2>9, <2>10, <2>11, <2>12, <2>13, <2>14
       DEF ThreadStep, LoadStep, SaveStep
<1>2. CASE Crash
  BY <1>2, NoneAssumption DEF Crash, storeVars, TypeOK, StoreTypeOK, Images, Phases, UnnamedInv, AloneInv, Playing, ServerStep
<1> QED
  BY <1>1, <1>2 DEF Next, ThreadStep

(* The server's steps, beside the ones that touch the shared file.         *)
LEMMA ServerKeeps ==
  ASSUME EditInv, ServerStep, ~Relogin
  PROVE  EditInv'
<1>1. TypeOK /\ PhaseInv /\ LockInv /\ UnnamedInv /\ EditsInv /\ AloneInv /\ [Next]_vars /\ Next
  BY DEF EditInv, EdTypeOK, ServerStep
<1>2. TypeOK' /\ PhaseInv' /\ LockInv'
  BY <1>1, TypeStep, PhaseStep, LockStep
<1>3. UnnamedInv'
  BY <1>1, UnnamedServer
<1>4. edits \in [Pids -> Images] /\ edits' = edits
  BY DEF EditInv, EdTypeOK, ServerStep
<1>5. EditsInv'
  BY <1>1, <1>4, EditsServer
<1>6. AloneInv'
  BY <1>1, AloneServer
<1>7. EdTypeOK' /\ DeskInv'
  BY <1>2 DEF EditInv, EdTypeOK, DeskInv, ServerStep, EdPhases, Images
<1> QED BY <1>2, <1>3, <1>5, <1>6, <1>7 DEF EditInv

LEMMA GuardKeeps ==
  ASSUME EditInv, NEW p \in Pids, Guard(p)
  PROVE  EditInv'
BY DEF EditInv, Guard, EdTypeOK, EdPhases, DeskInv, AloneInv, Playing, EditsInv, Holds,
       vars, storeVars, sessionVars, TypeOK, StoreTypeOK, PhaseInv, LockInv, InCritical,
       UnnamedInv

LEMMA ReadKeeps ==
  ASSUME EditInv, NEW e \in Effects, ReadAndEdit(e)
  PROVE  EditInv'
BY DEF EditInv, ReadAndEdit, EdTypeOK, EdPhases, DeskInv, AloneInv, Playing, EditsInv, Holds,
       storeVars, TypeOK, StoreTypeOK, Images, PhaseInv, LockInv, InCritical, UnnamedInv

LEMMA OpenKeeps ==
  ASSUME EditInv, EditorOpenTmp
  PROVE  EditInv'
BY DEF EditInv, EditorOpenTmp, EdTypeOK, EdPhases, DeskInv, AloneInv, Playing, EditsInv, Holds,
       sessionVars, TypeOK, StoreTypeOK, PhaseInv, LockInv, InCritical, UnnamedInv

LEMMA FailsKeeps ==
  ASSUME EditInv, EditorFails
  PROVE  EditInv'
BY DEF EditInv, EditorFails, EdTypeOK, EdPhases, DeskInv, AloneInv, Playing, EditsInv, Holds,
       vars, storeVars, sessionVars, TypeOK, StoreTypeOK, Images, PhaseInv, LockInv, InCritical,
       UnnamedInv

(* Until a connection arrives the editor has the temporary file to itself: *)
(* the thread in the store's critical section plays another account.       *)
LEMMA FileIsOurs ==
  ASSUME EditInv, ed = "writing", quiet
  PROVE  ~SharedTmp(edPid)
<1>1. ASSUME NEW c \in Conns, lock = c, who[c] = edPid PROVE FALSE
  <2>1. pc[c] # "none"
    BY <1>1 DEF EditInv, LockInv, InCritical
  <2> QED BY <1>1, <2>1 DEF EditInv, AloneInv, Playing
<1> QED BY <1>1 DEF SharedTmp

(* The edit is moved into place.  While the look stays true nobody holds a *)
(* copy of the account; afterwards the edit only says what was read.       *)
LEMMA ReplaceKeeps ==
  ASSUME EditInv, EditorReplace
  PROVE  EditInv'
<1>1. edPid \in Pids /\ edits[edPid] \subseteq edMem /\ edMem \in Images
      /\ edits \in [Pids -> Images] /\ disk \in [Pids -> Images]
  BY DEF EditInv, EditorReplace, EdTypeOK, DeskInv, TypeOK, StoreTypeOK
<1>2. /\ disk' \in [Pids -> Images] /\ file' \in [Pids -> FileStates]
      /\ tmp' \in [Pids -> BOOLEAN] /\ edits' \in [Pids -> Images]
  BY <1>1 DEF EditInv, EditorReplace, EdTypeOK, TypeOK, StoreTypeOK, FileStates
<1>3. EdTypeOK' /\ DeskInv' /\ AloneInv'
  BY <1>2 DEF EditInv, EditorReplace, EdTypeOK, EdPhases, DeskInv, AloneInv, sessionVars,
              TypeOK, StoreTypeOK, Images
<1>4. PhaseInv' /\ LockInv' /\ UnnamedInv'
  BY DEF EditInv, EditorReplace, sessionVars, PhaseInv, LockInv, InCritical, UnnamedInv
<1>5. \A p \in Pids : edits'[p] \subseteq disk'[p]
  <2>1. CASE quiet
    <3>1. disk' = [disk EXCEPT ![edPid] = edMem] /\ edits' = [edits EXCEPT ![edPid] = edMem]
      BY <2>1, FileIsOurs DEF EditorReplace
    <3> QED BY <1>1, <3>1 DEF EditInv, EditsInv
  <2>2. CASE ~quiet
    <3>1. edits' = edits /\ (disk' = disk \/ disk' = [disk EXCEPT ![edPid] = edMem])
      BY <2>2 DEF EditorReplace
    <3> QED BY <1>1, <3>1 DEF EditInv, EditsInv
  <2> QED BY <2>1, <2>2
<1>6. ASSUME NEW c \in Conns, Holds(c)' PROVE edits'[who'[c]] \subseteq mem'[c]
  <2>1. Holds(c) /\ who' = who /\ mem' = mem /\ pc' = pc
    BY <1>6 DEF EditorReplace, sessionVars, Holds
  <2>2. who[c] \in Pids /\ pc[c] # "none" /\ edits[who[c]] \subseteq mem[c]
    BY <2>1 DEF EditInv, EditsInv, PhaseInv, EdTypeOK, TypeOK, Holds
  <2>3. CASE quiet
    <3>1. who[c] # edPid
      BY <2>2, <2>3 DEF EditInv, AloneInv, Playing, EditorReplace
    <3>2. edits' = [edits EXCEPT ![edPid] = edMem]
      BY <2>3 DEF EditorReplace
    <3> QED BY <1>1, <2>1, <2>2, <3>1, <3>2
  <2>4. CASE ~quiet
    BY <2>1, <2>2, <2>4 DEF EditorReplace
  <2> QED BY <2>3, <2>4
<1>7. EditsInv'
  BY <1>5, <1>6 DEF EditsInv
<1> QED BY <1>3, <1>4, <1>7 DEF EditInv

LEMMA TornKeeps ==
  ASSUME EditInv, NEW c \in Conns, TornSave(c)
  PROVE  EditInv'
<1>1. EdTypeOK' /\ DeskInv' /\ AloneInv'
  BY DEF EditInv, TornSave, editorVars, EdTypeOK, EdPhases, DeskInv, AloneInv, Playing,
         TypeOK, StoreTypeOK, FileStates, Phases, Images
<1>2. PhaseInv' /\ LockInv' /\ UnnamedInv'
  BY NoneAssumption DEF EditInv, TornSave, PhaseInv, LockInv, InCritical, UnnamedInv, EdTypeOK,
         TypeOK, StoreTypeOK
<1>3. EditsInv'
  BY DEF EditInv, TornSave, editorVars, EditsInv, Holds, EdTypeOK, TypeOK
<1> QED BY <1>1, <1>2, <1>3 DEF EditInv

LEMMA EditInit == EdInit => EditInv
  BY TypeInit, InvInit, NoneAssumption
  DEF EdInit, EditInv, EdTypeOK, EdPhases, Images, IInv, UnnamedInv, DeskInv, AloneInv,
      EditsInv, Holds, Init, StoreInit

LEMMA EditStep ==
  ASSUME EditInv, [EdNext]_allVars, ~Relogin
  PROVE  EditInv'
<1>1. CASE EditorStep
  BY <1>1, GuardKeeps, ReadKeeps, OpenKeeps, ReplaceKeeps, FailsKeeps DEF EditorStep
<1>2. CASE ServerStep
  BY <1>2, ServerKeeps
<1>3. ASSUME NEW c \in Conns, TornSave(c) PROVE EditInv'
  BY <1>3, TornKeeps
<1>4. CASE UNCHANGED allVars
  BY <1>4 DEF allVars, editorVars, vars, storeVars, sessionVars, EditInv, EdTypeOK, DeskInv,
       AloneInv, Playing, EditsInv, Holds, TypeOK, StoreTypeOK, PhaseInv, LockInv, InCritical,
       UnnamedInv
<1> QED BY <1>1, <1>2, <1>3, <1>4 DEF EdNext

(* With one LOGIN per connection, an edit that the guard let through and   *)
(* that no connection overtook is never undone, and until one arrives the  *)
(* editor and the server never both write the temporary file.              *)
THEOREM QuietEditStays == ASSUME ~Relogin PROVE EdSpec => []QuietEditKept
<1>1. EdInit => EditInv
  BY EditInit
<1>2. EditInv /\ [EdNext]_allVars => EditInv'
  BY EditStep
<1>3. EditInv => QuietEditKept
  BY FileIsOurs DEF QuietEditKept, EditInv, EditsInv
<1> QED BY <1>1, <1>2, <1>3, PTL DEF EdSpec

=============================================================================
