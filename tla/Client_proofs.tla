--------------------------- MODULE Client_proofs ----------------------------
(***************************************************************************)
(* What a client is served.  On the phone, for any files, releases and     *)
(* number of deaths: what active.txt names is on disk, and a reset leads   *)
(* back to the shipped code.  On the desk, for any number of connections,  *)
(* replies, frames and times the inspector is armed: two threads write a   *)
(* socket, and what a client reads stays decipherable and in order.  And   *)
(* in a fight between a client and the server, for every party, set of     *)
(* enemy keys, number of waves and set of fights: both agree on who stands.*)
(***************************************************************************)
EXTENDS MCHosts, BattleFlow, SequenceTheorems, TLAPS

-----------------------------------------------------------------------------
(* The phone.                                                              *)

Stages == {"idle", "look", "download", "clear", "extract", "write", "verify", "scrap", "switch",
           "prune"}
Jobs == [at : Stages, hash : Hashes \cup {None}, next : Nat, lone : BOOLEAN]
Dirs == [Hashes -> [Names -> {"absent", "half", "whole"}]]

PhoneOK ==
  /\ channel \in 0..Len(Builds)
  /\ pointer \in Hashes \cup {None}
  /\ dirs \in Dirs
  /\ job \in [Presses -> Jobs]
  /\ \A p \in Busy : job[p].hash \in Hashes
  /\ tangled \in BOOLEAN
  /\ process.path \in Seq(Hashes \cup {Shipped})
  /\ DOMAIN process.mods = Names
  /\ DOMAIN process = {"path", "mods", "server"}
  /\ process.server \in {"off", "on", "failed"}
  /\ deaths \in 0..MaxDeaths

(* A press that no other has overlapped is the only one, and until presses *)
(* overlap there is no other kind.                                         *)
OneAtATime ==
  /\ \A p \in Busy : job[p].lone => Busy = {p}
  /\ ~tangled => \A p \in Busy : job[p].lone

(* The snapshot that is named is neither being fetched anew nor pruned: a  *)
(* press that fetches has found another one named, and a press that prunes *)
(* has named its own.  A reset in between names nothing.                   *)
Spared(p) ==
  /\ job[p].lone /\ job[p].at = "switch" => IsFile(job[p].hash, Marker)
  /\ ~tangled /\ job[p].at \notin {"switch", "prune"} => pointer # job[p].hash
  /\ ~tangled /\ job[p].at = "prune" => pointer \in {job[p].hash, None}

PointerSpared == \A p \in Busy : Spared(p)

PInv == PhoneOK /\ PointerIsThere /\ OneAtATime /\ PointerSpared

(* Nothing but shipped code has been imported by a process that has never  *)
(* had an update on its path.                                              *)
ShippedOnly ==
  Range(process.path) \subseteq {Shipped} =>
    \A f \in Names : process.mods[f] \in {None, Shipped}

LEMMA BuildFacts ==
  /\ Shipped \notin Hashes /\ None \notin Hashes /\ None # Shipped
  /\ Marker \in Names /\ Settings \in Names
  /\ Len(Builds) \in Nat
  /\ \A i \in 1..Len(Builds) : Builds[i] \in Hashes
BY UpdaterAssumption DEF UpdaterAssumption, Hashes, Names, Range

LEMMA PInvInit == UpdateInit => PInv
<1> SUFFICES ASSUME UpdateInit PROVE PInv
  OBVIOUS
<1>1. Busy = {}
  BY DEF UpdateInit, Busy, Idle
<1>2. job \in [Presses -> Jobs] /\ dirs \in Dirs
  BY DEF UpdateInit, Idle, Jobs, Stages, Dirs, Empty
<1>3. /\ process.path \in Seq(Hashes \cup {Shipped}) /\ DOMAIN process.mods = Names
      /\ DOMAIN process = {"path", "mods", "server"} /\ process.server = "off"
  BY DEF UpdateInit, Cold
<1>4. channel = 0 /\ pointer = None /\ tangled = FALSE /\ deaths = 0
  BY DEF UpdateInit
<1>5. PhoneOK
  <2>1. channel \in 0..Len(Builds)
    BY <1>4, BuildFacts
  <2>2. deaths \in 0..MaxDeaths
    BY <1>4, UpdaterAssumption DEF UpdaterAssumption
  <2> QED
    BY <1>1, <1>2, <1>3, <1>4, <2>1, <2>2 DEF PhoneOK
<1> QED
  BY <1>1, <1>4, <1>5 DEF PInv, PointerIsThere, OneAtATime, PointerSpared

LEMMA PInvPublish == PInv /\ Publish => PInv'
BY BuildFacts
   DEF Publish, PInv, PhoneOK, PointerIsThere, OneAtATime, PointerSpared, Spared, IsFile, Dirs,
       Busy

(* A press starts: the latest release is not what is named.                *)
LEMMA PInvCheck ==
  ASSUME PInv, NEW p \in Presses, Check(p), UNCHANGED <<channel, process, deaths>>
  PROVE  PInv'
<1> DEFINE new == [at |-> "look", hash |-> Builds[channel], next |-> 1, lone |-> Busy = {}]
<1>1. Builds[channel] \in Hashes /\ pointer # Builds[channel] /\ job[p].at = "idle"
  BY BuildFacts DEF Check, PInv, PhoneOK
<1>2. new \in Jobs
  BY <1>1 DEF Jobs, Stages
<1>3. job \in [Presses -> Jobs] /\ p \notin Busy
  BY <1>1 DEF PInv, PhoneOK, Busy
<1>4. \A q \in Presses : [job[q] EXCEPT !.lone = FALSE] \in Jobs
  BY <1>3 DEF Jobs
<1>5. /\ job' \in [Presses -> Jobs] /\ job'[p] = new
      /\ \A q \in Presses \ {p} :
           /\ job'[q].at = job[q].at /\ job'[q].hash = job[q].hash
           /\ q \in Busy => ~job'[q].lone
  <2>1. job' = [q \in Presses |-> IF q = p THEN new
                  ELSE IF q \in Busy THEN [job[q] EXCEPT !.lone = FALSE] ELSE job[q]]
    BY DEF Check
  <2> HIDE DEF new
  <2>2. job' \in [Presses -> Jobs] /\ job'[p] = new
    BY <1>2, <1>3, <1>4, <2>1
  <2>3. ASSUME NEW q \in Presses \ {p}
        PROVE  /\ job'[q].at = job[q].at /\ job'[q].hash = job[q].hash
               /\ q \in Busy => ~job'[q].lone
    BY <1>3, <2>1 DEF Jobs
  <2> QED
    BY <2>2, <2>3
<1>6. Busy' = Busy \cup {p}
  BY <1>5 DEF Busy
<1>7. PhoneOK'
  BY <1>1, <1>5, <1>6 DEF Check, PInv, PhoneOK, Busy
<1>8. PointerIsThere'
  BY DEF Check, PInv, PointerIsThere, IsFile
<1>9. CASE Busy = {}
  BY <1>1, <1>5, <1>6, <1>7, <1>8, <1>9
     DEF Check, PInv, OneAtATime, PointerSpared, Spared
<1>10. CASE Busy # {}
  <2>1. tangled' /\ \A q \in Busy' : ~job'[q].lone
    BY <1>3, <1>5, <1>6, <1>10 DEF Check, Busy
  <2> QED
    BY <1>7, <1>8, <2>1 DEF PInv, OneAtATime, PointerSpared, Spared
<1> QED
  BY <1>9, <1>10

(* A press goes on: the others are not lone, and where there are others    *)
(* the presses are tangled already.                                        *)
LEMMA PressGoes ==
  ASSUME PInv, NEW p \in Busy, NEW at \in Stages \ {"idle"},
         job' \in [Presses -> Jobs], job'[p].at = at, job'[p].hash = job[p].hash,
         job'[p].lone = job[p].lone, \A q \in Presses \ {p} : job'[q] = job[q],
         tangled' = tangled \/ (job[p].lone /\ tangled' = FALSE),
         pointer' \in Hashes \cup {None}, dirs' \in Dirs, PointerIsThere', Spared(p)',
         UNCHANGED <<channel, process, deaths>>
  PROVE  PInv'
<1>1. p \in Presses /\ Busy' = Busy
  BY DEF Busy, Stages
<1>2. PhoneOK'
  BY <1>1 DEF PInv, PhoneOK, Busy
<1>3. OneAtATime'
  <2>1. \A q \in Busy : job'[q].lone = job[q].lone
    BY DEF Busy
  <2> QED
    BY <1>1, <2>1 DEF PInv, OneAtATime
<1>4. PointerSpared'
  <2> SUFFICES ASSUME NEW q \in Busy, q # p PROVE Spared(q)'
    BY <1>1 DEF PointerSpared
  <2>1. ~job[q].lone /\ ~job[p].lone /\ tangled
    BY DEF PInv, OneAtATime
  <2> QED
    BY <2>1 DEF Spared, Busy
<1> QED
  BY <1>2, <1>3, <1>4 DEF PInv

LEMMA GoesTo ==
  ASSUME PhoneOK, NEW p \in Busy, NEW at \in Stages, Goes(p, at)
  PROVE  /\ job' \in [Presses -> Jobs] /\ job'[p].at = at /\ job'[p].hash = job[p].hash
         /\ job'[p].lone = job[p].lone /\ \A q \in Presses \ {p} : job'[q] = job[q]
<1>1. p \in Presses /\ job \in [Presses -> Jobs]
  BY DEF PhoneOK, Busy
<1>2. job' = [job EXCEPT ![p] = [job[p] EXCEPT !.at = at]]
  BY <1>1 DEF Goes
<1>3. [job[p] EXCEPT !.at = at] \in Jobs
  BY <1>1 DEF Jobs
<1> QED
  BY <1>1, <1>2, <1>3 DEF Jobs

(* A press ends: what holds of the others holds on.                        *)
LEMMA PressEnds ==
  ASSUME PInv, NEW p \in Busy, Ends(p),
         UNCHANGED <<pointer, dirs, tangled, channel, process, deaths>>
  PROVE  PInv'
<1>1. p \in Presses /\ Idle \in Jobs
  BY DEF Busy, Idle, Jobs, Stages
<1>2. /\ job' \in [Presses -> Jobs] /\ job'[p].at = "idle"
      /\ \A q \in Presses \ {p} : job'[q] = job[q]
  BY <1>1 DEF Ends, Idle, PInv, PhoneOK
<1>3. Busy' = Busy \ {p}
  BY <1>2 DEF Busy
<1>4. \A q \in Busy' : q \in Busy /\ job'[q] = job[q] /\ q # p
  BY <1>2, <1>3 DEF Busy
<1>5. PhoneOK'
  BY <1>2, <1>4 DEF PInv, PhoneOK
<1>6. OneAtATime'
  BY <1>3, <1>4 DEF PInv, OneAtATime
<1>7. PointerSpared' /\ PointerIsThere'
  BY <1>4 DEF PInv, PointerSpared, PointerIsThere, Spared, IsFile
<1> QED
  BY <1>5, <1>6, <1>7 DEF PInv

(* A file is deleted that the pointer does not need, and that no lone      *)
(* press is about to name.                                                 *)
With(d, h, f, v) == [d EXCEPT ![h][f] = v]

LEMMA FileSet ==
  ASSUME NEW d \in Dirs, NEW h \in Hashes, NEW f, NEW v \in {"absent", "half", "whole"}
  PROVE  /\ With(d, h, f, v) \in Dirs
         /\ \A g \in Hashes \ {h} : With(d, h, f, v)[g] = d[g]
         /\ v # "absent" => \A g \in Hashes : d[g][Marker] # "absent"
                              => With(d, h, f, v)[g][Marker] # "absent"
<1> DEFINE e == [d[h] EXCEPT ![f] = v]
<1>1. e \in [Names -> {"absent", "half", "whole"}]
  BY DEF Dirs
<1>2. v # "absent" /\ d[h][Marker] # "absent" => e[Marker] # "absent"
  BY BuildFacts DEF Dirs
<1>3. With(d, h, f, v) = [d EXCEPT ![h] = e]
  BY DEF With
<1> HIDE DEF e
<1>4. With(d, h, f, v) \in Dirs /\ \A g \in Hashes : With(d, h, f, v)[g] = IF g = h THEN e ELSE d[g]
  BY <1>1, <1>3 DEF Dirs
<1> QED
  BY <1>2, <1>4

(* Deleting spares what is named: until presses overlap, what a sweep      *)
(* deletes is not what is named.                                           *)
LEMMA SweepSafe ==
  ASSUME PInv, NEW p \in Busy, NEW hs \in SUBSET Hashes, NEW at \in Stages, NEW goes \in BOOLEAN,
         Sweep(p, hs, IF goes THEN Goes(p, at) ELSE Ends(p)),
         goes => at = "extract" /\ job[p].at = "clear", job[p].at # "switch",
         ~tangled => pointer \notin hs,
         UNCHANGED <<channel, process, deaths>>
  PROVE  PInv'
<1>1. ASSUME NEW h \in hs, NEW f \in Names, dirs' = [dirs EXCEPT ![h][f] = "absent"],
             UNCHANGED job
      PROVE  PInv'
  <2>1. dirs \in Dirs /\ h \in Hashes /\ UNCHANGED <<pointer, tangled>>
    BY DEF PInv, PhoneOK, Sweep
  <2>2. dirs' \in Dirs /\ \A g \in Hashes \ {h} : dirs'[g] = dirs[g]
    <3>1. dirs' = With(dirs, h, f, "absent") /\ "absent" \in {"absent", "half", "whole"}
      BY <1>1 DEF With
    <3> QED
      BY <2>1, <3>1, FileSet
  <2>3. PointerIsThere'
    BY <2>1, <2>2 DEF PInv, PhoneOK, PointerIsThere, IsFile
  <2>4. Spared(p) /\ Spared(p)'
    BY <1>1, <2>1 DEF PInv, PointerSpared, Spared
  <2>5. job[p].at \in Stages \ {"idle"} /\ job \in [Presses -> Jobs]
    BY DEF Busy, PInv, PhoneOK, Jobs
  <2>6. pointer' \in Hashes \cup {None}
    BY <2>1 DEF PInv, PhoneOK
  <2> QED
    BY <1>1, <2>1, <2>2, <2>3, <2>4, <2>5, <2>6, PressGoes
<1>2. CASE goes /\ Goes(p, at) /\ UNCHANGED <<pointer, dirs, tangled>>
  <2>1. /\ job' \in [Presses -> Jobs] /\ job'[p].at = at /\ job'[p].hash = job[p].hash
        /\ job'[p].lone = job[p].lone /\ \A q \in Presses \ {p} : job'[q] = job[q]
    BY <1>2, GoesTo DEF PInv
  <2>2. PointerIsThere' /\ pointer' \in Hashes \cup {None} /\ dirs' \in Dirs
    BY <1>2 DEF PInv, PhoneOK, PointerIsThere, IsFile
  <2>3. Spared(p)'
    BY <1>2, <2>1 DEF PInv, PointerSpared, Spared
  <2> QED
    BY <1>2, <2>1, <2>2, <2>3, PressGoes DEF Stages
<1>3. CASE ~goes /\ Ends(p) /\ UNCHANGED <<pointer, dirs, tangled>>
  BY <1>3, PressEnds
<1> QED
  BY <1>1, <1>2, <1>3 DEF Sweep

(* A press that goes on without touching what is named.                    *)
LEMMA GoesSafe ==
  ASSUME PInv, NEW p \in Busy, NEW at \in Stages \ {"idle", "prune"}, Goes(p, at),
         job[p].at \notin {"switch", "prune"},
         at = "switch" => IsFile(job[p].hash, Marker),
         UNCHANGED <<pointer, dirs, tangled, channel, process, deaths>>
  PROVE  PInv'
<1>1. /\ job' \in [Presses -> Jobs] /\ job'[p].at = at /\ job'[p].hash = job[p].hash
      /\ job'[p].lone = job[p].lone /\ \A q \in Presses \ {p} : job'[q] = job[q]
  BY GoesTo DEF PInv
<1>2. PointerIsThere' /\ pointer' \in Hashes \cup {None} /\ dirs' \in Dirs
  BY DEF PInv, PhoneOK, PointerIsThere, IsFile
<1>3. Spared(p)'
  BY <1>1 DEF PInv, PointerSpared, Spared, IsFile
<1> QED
  BY <1>1, <1>2, <1>3, PressGoes

(* No file goes away while a snapshot is unpacked.                         *)
LEMMA WritingSafe ==
  ASSUME PInv, NEW p \in Busy, NEW at \in {"extract", "write", "verify"}, NEW n \in Nat,
         job' = [job EXCEPT ![p] = [job[p] EXCEPT !.at = at, !.next = n]], job[p].at \notin {"switch", "prune"},
         \/ UNCHANGED dirs
         \/ \E f : \E v \in {"half", "whole"} : dirs' = With(dirs, job[p].hash, f, v),
         UNCHANGED <<pointer, tangled, channel, process, deaths>>
  PROVE  PInv'
<1>1. p \in Presses /\ job \in [Presses -> Jobs] /\ job[p].hash \in Hashes /\ dirs \in Dirs
  BY DEF PInv, PhoneOK, Busy
<1>2. /\ job' \in [Presses -> Jobs] /\ job'[p].at = at /\ job'[p].hash = job[p].hash
      /\ job'[p].lone = job[p].lone /\ \A q \in Presses \ {p} : job'[q] = job[q]
  <2>1. [job[p] EXCEPT !.at = at, !.next = n] \in Jobs
    BY <1>1 DEF Jobs, Stages
  <2> QED
    BY <1>1, <2>1 DEF Jobs
<1>3. dirs' \in Dirs /\ \A g \in Hashes : dirs[g][Marker] # "absent" => dirs'[g][Marker] # "absent"
  <2>1. CASE UNCHANGED dirs
    BY <1>1, <2>1
  <2>2. CASE \E f : \E v \in {"half", "whole"} : dirs' = With(dirs, job[p].hash, f, v)
    <3>1. PICK f : \E v \in {"half", "whole"} : dirs' = With(dirs, job[p].hash, f, v)
      BY <2>2
    <3>2. PICK v \in {"half", "whole"} : dirs' = With(dirs, job[p].hash, f, v)
      BY <3>1
    <3>3. v \in {"absent", "half", "whole"} /\ v # "absent"
      OBVIOUS
    <3> QED
      BY <1>1, <3>2, <3>3, FileSet
  <2> QED
    BY <2>1, <2>2
<1>4. PointerIsThere' /\ pointer' \in Hashes \cup {None}
  BY <1>3 DEF PInv, PhoneOK, PointerIsThere, IsFile
<1>5. Spared(p)'
  BY <1>2 DEF PInv, PointerSpared, Spared
<1>6. at \in Stages \ {"idle"}
  BY DEF Stages
<1> QED
  BY <1>2, <1>3, <1>4, <1>5, <1>6, PressGoes

LEMMA PInvExtract ==
  ASSUME PInv, NEW p \in Busy, Extract(p), UNCHANGED <<channel, process, deaths>>
  PROVE  PInv'
<1>1. CASE /\ dirs' = [dirs EXCEPT ![job[p].hash][Files[job[p].next]] = "half"]
           /\ Goes(p, "write") /\ UNCHANGED <<pointer, tangled>>
  <2>1. p \in Presses /\ job \in [Presses -> Jobs]
    BY DEF PInv, PhoneOK, Busy
  <2>2. job[p].next \in Nat
        /\ [job[p] EXCEPT !.at = "write", !.next = job[p].next] = [job[p] EXCEPT !.at = "write"]
    BY <2>1 DEF Jobs
  <2>3. job' = [job EXCEPT ![p] = [job[p] EXCEPT !.at = "write", !.next = job[p].next]]
    BY <1>1, <2>1, <2>2 DEF Goes
  <2>4. dirs' = With(dirs, job[p].hash, Files[job[p].next], "half")
    BY <1>1 DEF With
  <2>5. job[p].at \notin {"switch", "prune"}
    BY DEF Extract
  <2> QED
    BY <1>1, <2>2, <2>3, <2>4, <2>5, WritingSafe
<1>2. CASE Goes(p, "verify") /\ UNCHANGED <<pointer, dirs, tangled>>
  BY <1>2, GoesSafe DEF Extract, Stages
<1> QED
  BY <1>1, <1>2 DEF Extract

LEMMA PInvWrite ==
  ASSUME PInv, NEW p \in Busy, Write(p), UNCHANGED <<channel, process, deaths>>
  PROVE  PInv'
<1> DEFINE at == IF job[p].next = Len(Files) THEN "verify" ELSE "extract"
<1>1. p \in Presses /\ job \in [Presses -> Jobs] /\ job[p].next \in Nat
  BY DEF PInv, PhoneOK, Busy, Jobs
<1>2. job[p].next + 1 \in Nat
  BY <1>1
<1>3. UNCHANGED dirs \/ dirs' = With(dirs, job[p].hash, Files[job[p].next], "whole")
  BY DEF Write, With
<1>4. /\ at \in {"extract", "write", "verify"} /\ job[p].at \notin {"switch", "prune"}
      /\ Advances(p, at)
  BY DEF Write
<1> HIDE DEF at
<1>5. job' = [job EXCEPT ![p] = [job[p] EXCEPT !.at = at, !.next = job[p].next + 1]]
  BY <1>1, <1>4 DEF Advances
<1> QED
  BY <1>2, <1>3, <1>4, <1>5, WritingSafe DEF Write

(* Only a snapshot with the marker is named by a press that is alone.      *)
LEMMA PInvSwitch ==
  ASSUME PInv, NEW p \in Busy, Switch(p), UNCHANGED <<channel, process, deaths>>
  PROVE  PInv'
<1>1. /\ job' \in [Presses -> Jobs] /\ job'[p].at = "prune" /\ job'[p].hash = job[p].hash
      /\ job'[p].lone = job[p].lone /\ \A q \in Presses \ {p} : job'[q] = job[q]
  BY GoesTo DEF PInv, Switch, Stages
<1>2. pointer' \in Hashes \cup {None} /\ dirs' \in Dirs
  BY DEF PInv, PhoneOK, Switch
<1>3. CASE job[p].lone
  <2>1. pointer' = job[p].hash /\ tangled' = FALSE /\ IsFile(job[p].hash, Marker) /\ UNCHANGED dirs
    BY <1>3 DEF PInv, PointerSpared, Spared, Switch
  <2>2. PointerIsThere' /\ Spared(p)'
    BY <1>1, <2>1 DEF PointerIsThere, Spared, IsFile
  <2> QED
    BY <1>1, <1>2, <1>3, <2>1, <2>2, PressGoes DEF Stages
<1>4. CASE ~job[p].lone
  <2>1. tangled /\ tangled' = tangled
    BY <1>4 DEF PInv, PhoneOK, OneAtATime, Switch
  <2>2. PointerIsThere' /\ Spared(p)'
    BY <1>1, <1>4, <2>1 DEF PointerIsThere, Spared
  <2> QED
    BY <1>1, <1>2, <2>1, <2>2, PressGoes DEF Stages
<1> QED
  BY <1>3, <1>4

(* What is deleted is not what is named: not the name that is fetched      *)
(* anew, nor, after the switch, any but its own.                           *)
LEMMA PInvStep ==
  ASSUME PInv, NEW p \in Presses, UpdateStep(p)
  PROVE  PInv'
<1>1. UNCHANGED <<channel, process, deaths>>
  BY DEF UpdateStep
<1>2. CASE Check(p)
  BY <1>1, <1>2, PInvCheck
<1> SUFFICES ASSUME ~Check(p) PROVE PInv'
  BY <1>2
<1>3. p \in Busy /\ Spared(p) /\ job[p].hash \in Hashes
  <2>1. p \in Busy
    BY DEF UpdateStep, Busy, Look, Download, Clear, Extract, Write, Verify, Scrap, Switch, Prune,
           Failed
  <2> QED
    BY <2>1 DEF PInv, PhoneOK, PointerSpared
<1>4. CASE Look(p) \/ Download(p) \/ Verify(p)
  <2>1. PICK at \in {"switch", "download", "clear", "scrap"} :
          /\ Goes(p, at) /\ UNCHANGED <<pointer, dirs, tangled>>
          /\ at = "switch" => IsFile(job[p].hash, Marker)
    BY <1>4 DEF Look, Download, Verify
  <2>2. at \in Stages \ {"idle", "prune"} /\ job[p].at \notin {"switch", "prune"}
    BY <1>4 DEF Stages, Look, Download, Verify
  <2> QED
    BY <1>1, <1>3, <2>1, <2>2, GoesSafe
<1>5. CASE Clear(p)
  <2>1. ~tangled => pointer \notin {job[p].hash}
    BY <1>3, <1>5 DEF Clear, Spared
  <2>2. Sweep(p, {job[p].hash}, IF TRUE THEN Goes(p, "extract") ELSE Ends(p))
    BY <1>5 DEF Clear
  <2>3. job[p].at = "clear" /\ "extract" \in Stages /\ {job[p].hash} \in SUBSET Hashes
    BY <1>3, <1>5 DEF Clear, Stages
  <2> QED
    BY <1>1, <1>3, <2>1, <2>2, <2>3, SweepSafe
<1>6. CASE Extract(p)
  BY <1>1, <1>3, <1>6, PInvExtract
<1>7. CASE Write(p)
  BY <1>1, <1>3, <1>7, PInvWrite
<1>8. CASE Scrap(p)
  <2>1. ~tangled => pointer \notin {job[p].hash}
    BY <1>3, <1>8 DEF Scrap, Spared
  <2>2. Sweep(p, {job[p].hash}, IF FALSE THEN Goes(p, "extract") ELSE Ends(p))
    BY <1>8 DEF Scrap
  <2>3. job[p].at # "switch" /\ "extract" \in Stages /\ {job[p].hash} \in SUBSET Hashes
    BY <1>3, <1>8 DEF Scrap, Stages
  <2> QED
    BY <1>1, <1>3, <2>1, <2>2, <2>3, SweepSafe
<1>9. CASE Switch(p)
  BY <1>1, <1>3, <1>9, PInvSwitch
<1>10. CASE Prune(p)
  <2>1. ~tangled => pointer \notin Hashes \ {job[p].hash}
    BY <1>3, <1>10, BuildFacts DEF Prune, Spared
  <2>2. Sweep(p, Hashes \ {job[p].hash}, IF FALSE THEN Goes(p, "extract") ELSE Ends(p))
    BY <1>10 DEF Prune
  <2>3. job[p].at # "switch" /\ "extract" \in Stages
    BY <1>10 DEF Prune, Stages
  <2> QED
    BY <1>1, <1>3, <2>1, <2>2, <2>3, SweepSafe
<1>11. CASE Failed(p)
  BY <1>1, <1>3, <1>11, PressEnds DEF Failed, Fails
<1> QED
  BY <1>4, <1>5, <1>6, <1>7, <1>8, <1>9, <1>10, <1>11 DEF UpdateStep

LEMMA PInvReset == PInv /\ Reset => PInv'
BY BuildFacts
   DEF Reset, PInv, PhoneOK, PointerIsThere, OneAtATime, PointerSpared, Spared, IsFile, Busy

LEMMA OnPathType ==
  ASSUME NEW path \in Seq(Hashes \cup {Shipped}), NEW h \in Hashes \cup {Shipped, None}
  PROVE  OnPath(path, h) \in Seq(Hashes \cup {Shipped})
<1>1. CASE h = None \/ Contains(path, h)
  BY <1>1 DEF OnPath
<1>2. CASE h # None /\ ~Contains(path, h)
  <2>1. <<h>> \in Seq(Hashes \cup {Shipped})
    BY <1>2
  <2> QED
    BY <1>2, <2>1, ConcatProperties DEF OnPath
<1> QED
  BY <1>1, <1>2

LEMMA StartServerType ==
  ASSUME PhoneOK, StartServer
  PROVE  /\ process'.path \in Seq(Hashes \cup {Shipped})
         /\ DOMAIN process'.mods = Names
         /\ DOMAIN process' = {"path", "mods", "server"}
         /\ process'.server \in {"on", "failed"}
<1> DEFINE path == OnPath(OnPath(process.path, Shipped), ActiveDir)
<1>1. ActiveDir \in Hashes \cup {None}
  BY DEF PhoneOK, ActiveDir
<1>2. path \in Seq(Hashes \cup {Shipped})
  BY <1>1, OnPathType DEF PhoneOK
<1>3. PICK mods, server :
        /\ server \in {"on", "failed"} /\ DOMAIN mods = Names
        /\ process' = [path |-> path, mods |-> mods, server |-> server]
  BY DEF StartServer, Imported
<1> QED
  BY <1>2, <1>3

LEMMA PInvNext == PInv /\ [UpdateNext]_updateVars => PInv'
<1> SUFFICES ASSUME PInv, [UpdateNext]_updateVars PROVE PInv'
  OBVIOUS
<1>1. CASE \E p \in Presses : UpdateStep(p)
  BY <1>1, PInvStep
<1>2. ASSUME UNCHANGED <<channel, pointer, dirs, job, tangled, deaths>>, PhoneOK'
      PROVE  PInv'
  BY <1>2 DEF PInv, PointerIsThere, OneAtATime, PointerSpared, Spared, IsFile, Busy
<1>3. CASE OpenRates
  <2>1. Shipped \in Hashes \cup {Shipped} /\ process.path \in Seq(Hashes \cup {Shipped})
    BY DEF PInv, PhoneOK
  <2>2. OnPath(process.path, Shipped) \in Seq(Hashes \cup {Shipped})
    BY <2>1, OnPathType
  <2>3. PhoneOK'
    BY <1>3, <2>2 DEF OpenRates, Imported, PInv, PhoneOK, Busy
  <2> QED
    BY <1>2, <1>3, <2>3 DEF OpenRates
<1>4. CASE StartServer
  <2>1. PhoneOK'
    BY <1>4, StartServerType DEF StartServer, PInv, PhoneOK, Busy
  <2> QED
    BY <1>2, <1>4, <2>1 DEF StartServer
<1>5. CASE StopServer
  BY <1>2, <1>5 DEF StopServer, PInv, PhoneOK, Busy
<1>6. CASE Die
  BY <1>6, UpdaterAssumption
     DEF Die, Cold, Idle, PInv, PhoneOK, PointerIsThere, OneAtATime, PointerSpared, IsFile, Stages,
         Jobs, Busy, UpdaterAssumption
<1>7. CASE UNCHANGED updateVars
  BY <1>7 DEF updateVars, PInv, PhoneOK, PointerIsThere, OneAtATime, PointerSpared, Spared,
              IsFile, Busy
<1> QED
  BY <1>1, <1>3, <1>4, <1>5, <1>6, <1>7, PInvPublish, PInvReset DEF UpdateNext

(* active.txt names a snapshot that active_update_dir will take, however   *)
(* many presses failed half-way, processes died and resets came between;   *)
(* and for any number of presses at a time, as soon as one alone has named *)
(* a snapshot after the last overlap.                                      *)
THEOREM PointerSafe == UpdateSpec => []PointerIsThere
<1>1. PInv => PointerIsThere
  BY DEF PInv
<1> QED
  BY <1>1, PInvInit, PInvNext, PTL DEF UpdateSpec

-----------------------------------------------------------------------------
(* A process that has imported nothing but shipped code stays so until an  *)
(* update is put on its path.                                              *)

(* The shipped code is first on a path that holds nothing else.            *)
LEMMA ShippedFirst ==
  ASSUME NEW path \in Seq(Hashes \cup {Shipped}), Range(path) \subseteq {Shipped},
         NEW f \in Names
  PROVE  /\ OnPath(path, Shipped) \in Seq(Hashes \cup {Shipped})
         /\ Range(OnPath(path, Shipped)) = {Shipped}
         /\ Source(OnPath(path, Shipped), f) = Shipped
<1> DEFINE p == OnPath(path, Shipped)
<1>1. /\ p \in Seq(Hashes \cup {Shipped}) /\ Len(p) > 0
      /\ \A i \in 1..Len(p) : p[i] = Shipped
  <2>1. \A i \in 1..Len(path) : path[i] = Shipped
    BY DEF Range
  <2>2. CASE Contains(path, Shipped)
    BY <2>1, <2>2 DEF OnPath, Contains
  <2>3. CASE ~Contains(path, Shipped)
    <3>1. <<Shipped>> \in Seq(Hashes \cup {Shipped}) /\ Len(<<Shipped>>) = 1
      OBVIOUS
    <3>2. p = <<Shipped>> \o path
      BY <2>3, BuildFacts DEF OnPath
    <3> QED
      BY <2>1, <3>1, <3>2, ConcatProperties
  <2> QED
    BY <2>2, <2>3
<1> HIDE DEF p
<1>2. Range(p) = {Shipped}
  BY <1>1 DEF Range
<1> DEFINE found == {i \in DOMAIN p : p[i] = Shipped \/ IsFile(p[i], f)}
<1>3. 1 \in found /\ \A i \in found : 1 <= i
  BY <1>1
<1>4. Min(found) \in found
  BY <1>3 DEF Min
<1>5. Source(p, f) = Shipped
  BY <1>1, <1>3, <1>4 DEF Source
<1> QED
  BY <1>1, <1>2, <1>5 DEF p

(* A path only grows.                                                      *)
LEMMA OnPathGrows ==
  ASSUME NEW path \in Seq(Hashes \cup {Shipped}), NEW h \in Hashes \cup {Shipped}
  PROVE  Range(path) \cup {h} \subseteq Range(OnPath(path, h))
<1>1. CASE Contains(path, h)
  <2>1. \E i \in DOMAIN path : path[i] = h
    BY <1>1 DEF Contains
  <2> QED
    BY <1>1, <2>1 DEF OnPath, Range
<1>2. CASE ~Contains(path, h)
  <2>1. <<h>> \in Seq(Hashes \cup {Shipped}) /\ Len(<<h>>) = 1 /\ <<h>>[1] = h
    OBVIOUS
  <2>2. OnPath(path, h) = <<h>> \o path
    BY <1>2, BuildFacts DEF OnPath
  <2> DEFINE p == <<h>> \o path
  <2>3. /\ p \in Seq(Hashes \cup {Shipped}) /\ Len(p) = 1 + Len(path) /\ p[1] = h
        /\ \A i \in 1..Len(path) : p[i + 1] = path[i]
    BY <2>1, ConcatProperties
  <2> HIDE DEF p
  <2>4. \A i \in 1..Len(path) : i + 1 \in DOMAIN p
    BY <2>3
  <2>5. 1 \in DOMAIN p
    BY <2>3
  <2>6. Range(path) \subseteq Range(p) /\ h \in Range(p)
    BY <2>3, <2>4, <2>5 DEF Range
  <2> QED
    BY <2>2, <2>6 DEF p
<1> QED
  BY <1>1, <1>2

(* A start by a process that has had no update on its path.                *)
LEMMA StartShipped ==
  ASSUME PhoneOK, ShippedOnly, StartServer, Range(process'.path) \subseteq {Shipped}
  PROVE  process'.server = "on" /\ \A f \in Names : process'.mods[f] = Shipped
<1> DEFINE first == OnPath(process.path, Shipped)
           path == OnPath(first, ActiveDir)
           fresh == {f \in Names : process.mods[f] = None}
           bad == {f \in fresh : Broken(path, f)}
<1>1. ActiveDir \in Hashes \cup {None} /\ process.path \in Seq(Hashes \cup {Shipped})
  BY DEF PhoneOK, ActiveDir
<1>2. process'.path = path
  BY DEF StartServer
<1>3. first \in Seq(Hashes \cup {Shipped})
  BY <1>1, OnPathType
<1>4. ActiveDir = None
  <2> SUFFICES ASSUME ActiveDir \in Hashes PROVE FALSE
    BY <1>1
  <2>1. ActiveDir \in Range(path)
    BY <1>3, OnPathGrows
  <2> QED
    BY <1>2, <2>1, BuildFacts
<1>5. path = first
  BY <1>4 DEF OnPath
<1>6. Range(process.path) \subseteq {Shipped}
  BY <1>1, <1>2, <1>5, OnPathGrows
<1>7. \A f \in Names : Source(path, f) = Shipped
  BY <1>1, <1>5, <1>6, ShippedFirst
<1>8. bad = {}
  BY <1>7, BuildFacts DEF Broken
<1>9. process' = [path |-> path, mods |-> Imported(process.mods, path, Names), server |-> "on"]
  BY <1>8 DEF StartServer
<1>10. \A f \in Names : process.mods[f] \in {None, Shipped}
  BY <1>6 DEF ShippedOnly
<1> HIDE DEF path
<1> QED
  BY <1>7, <1>9, <1>10 DEF Imported

LEMMA ShippedOnlyStep ==
  ASSUME PhoneOK, ShippedOnly, [UpdateNext]_updateVars
  PROVE  ShippedOnly'
<1>1. CASE OpenRates
  <2> SUFFICES ASSUME Range(process'.path) \subseteq {Shipped}
               PROVE  \A f \in Names : process'.mods[f] \in {None, Shipped}
    BY DEF ShippedOnly
  <2> DEFINE path == OnPath(process.path, Shipped)
  <2>1. process.path \in Seq(Hashes \cup {Shipped})
    BY DEF PhoneOK
  <2>2. process' = [process EXCEPT !.path = path, !.mods = Imported(@, path, {Settings})]
    BY <1>1 DEF OpenRates
  <2>3. process'.path = path /\ process'.mods = Imported(process.mods, path, {Settings})
    BY <2>2 DEF PhoneOK
  <2>4. Range(process.path) \subseteq {Shipped}
    BY <2>1, <2>3, OnPathGrows
  <2>5. \A f \in Names : Source(path, f) = Shipped
    BY <2>1, <2>4, ShippedFirst
  <2>6. \A f \in Names : process.mods[f] \in {None, Shipped}
    BY <2>4 DEF ShippedOnly
  <2> HIDE DEF path
  <2> QED
    BY <2>3, <2>5, <2>6 DEF Imported
<1>2. CASE StartServer
  BY <1>2, StartShipped DEF ShippedOnly
<1>3. CASE StopServer
  <2>1. process'.path = process.path /\ process'.mods = process.mods
    BY <1>3 DEF StopServer, PhoneOK
  <2> QED
    BY <2>1 DEF ShippedOnly
<1>4. CASE Die
  BY <1>4 DEF Die, Cold, ShippedOnly
<1>5. CASE UNCHANGED process
  BY <1>5 DEF ShippedOnly
<1> QED
  BY <1>1, <1>2, <1>3, <1>4, <1>5
     DEF UpdateNext, UpdateStep, Publish, Reset, updateVars

(* The way back: with nothing named, a process that has had no update on   *)
(* its path starts, and runs the shipped code only.                        *)
THEOREM ResetLeadsBack == UpdateSpec => ResetRecovers
<1>1. UpdateInit => ShippedOnly
  BY DEF UpdateInit, Cold, ShippedOnly
<1>2. PInv /\ ShippedOnly /\ [UpdateNext]_updateVars => ShippedOnly'
  BY ShippedOnlyStep DEF PInv
<1>3. ASSUME PInv, ShippedOnly, [UpdateNext]_updateVars,
             pointer = None, Range(process.path) \subseteq {Shipped},
             process'.server # process.server, process'.server # "off"
      PROVE  process'.server = "on" /\ \A f \in Names : process'.mods[f] = Shipped
  <2>1. PhoneOK
    BY <1>3 DEF PInv
  <2>2. StartServer
    <3>1. CASE OpenRates
      BY <1>3, <2>1, <3>1 DEF OpenRates, PhoneOK
    <3>2. CASE StopServer
      BY <1>3, <2>1, <3>2 DEF StopServer, PhoneOK
    <3>3. CASE Die
      BY <1>3, <3>3 DEF Die, Cold
    <3>4. process' # process
      BY <1>3
    <3> QED
      BY <1>3, <3>1, <3>2, <3>3, <3>4
         DEF UpdateNext, UpdateStep, Publish, Reset, updateVars
  <2>3. ActiveDir = None /\ process.path \in Seq(Hashes \cup {Shipped})
    BY <1>3, <2>1 DEF ActiveDir, PhoneOK
  <2>4. process'.path = OnPath(process.path, Shipped)
    <3>1. process'.path = OnPath(OnPath(process.path, Shipped), ActiveDir)
      BY <2>2 DEF StartServer
    <3> QED
      BY <2>3, <3>1 DEF OnPath
  <2>5. Range(process'.path) = {Shipped}
    <3>1. Source(OnPath(process.path, Shipped), Marker) = Shipped
          /\ Range(OnPath(process.path, Shipped)) = {Shipped}
      BY <1>3, <2>3, ShippedFirst, BuildFacts
    <3> QED
      BY <2>4, <3>1
  <2> QED
    BY <1>3, <2>1, <2>2, <2>5, StartShipped
<1>4. PInv /\ ShippedOnly /\ [UpdateNext]_updateVars =>
        [(pointer = None /\ Range(process.path) \subseteq {Shipped}
            /\ process'.server # process.server /\ process'.server # "off") =>
           /\ process'.server = "on"
           /\ \A f \in Names : process'.mods[f] = Shipped]_updateVars
  BY <1>3
<1> QED
  BY <1>1, <1>2, <1>4, PInvInit, PInvNext, PTL DEF UpdateSpec, ResetRecovers

-----------------------------------------------------------------------------
(* The desk.                                                               *)

InspectorSpec == InspectorInit /\ [][InspectorNext]_iVars /\ InspectorFairness

Entries == [conn : Conns \cup {Nobody}, reply : Nat]
DoingKinds == {"rest", "offer", "queue", "sending", "take"}
Doings == [at : DoingKinds, entry : Entries, left : Nat, key : Nat, all : BOOLEAN]
FrameSet == [reply : Nat, key : Nat]

DeskOK ==
  /\ armed \in BOOLEAN /\ disarmed \in BOOLEAN
  /\ pending \in Seq([conn : Conns, reply : Nat])
  /\ lock \in {Nobody, Operator}
  /\ thread \in [Threads -> Doings]
  /\ open \in [Conns -> BOOLEAN]
  /\ cipher \in [Conns -> Nat]
  /\ line \in [Conns -> Threads \cup {Nobody}]
  /\ wire \in [Conns -> Seq(FrameSet)]
  /\ computed \in [Conns -> Nat]
  /\ arms \in Nat

(* A thread speaks for its own connection, the operator for the one of the *)
(* entry it took.                                                          *)
Spoken ==
  /\ \A c \in Conns : /\ thread[c].at # "take"
                      /\ thread[c].at # "rest" => thread[c].entry.conn = c
  /\ thread[Operator].at \in {"rest", "take", "sending"}
  /\ thread[Operator].at = "sending" => thread[Operator].entry.conn \in Conns

(* Who is in a send lock has encrypted one frame and not yet put it on the *)
(* socket; nobody else has, so the keystream is at most one ahead.         *)
InLine ==
  /\ \A c \in Conns, t \in Threads :
       line[c] = t => /\ Is(t, "sending") /\ thread[t].entry.conn = c
                      /\ thread[t].key = cipher[c] /\ thread[t].key > 0
  /\ \A t \in Threads : thread[t].key > 0 => /\ Is(t, "sending")
                                             /\ line[thread[t].entry.conn] = t
  /\ \A c \in Conns :
       open[c] => cipher[c] = Len(wire[c]) + (IF line[c] = Nobody THEN 0 ELSE 1)

SInv == DeskOK /\ Spoken /\ InLine /\ StreamInSync

LEMMA NobodyElse ==
  /\ Operator \notin Conns /\ Nobody \notin Threads /\ Operator \in Threads
  /\ \A c \in Conns : c \in Threads
  /\ \A t \in Threads : t = Operator \/ t \in Conns
  /\ Frames \in Nat
BY InspectorAssumption DEF InspectorAssumption, Threads

LEMMA DoingFacts ==
  ASSUME NEW d \in Doings
  PROVE  /\ d.at \in DoingKinds /\ d.entry \in Entries /\ d.entry.reply \in Nat
         /\ d.left \in Nat /\ d.key \in Nat /\ d.all \in BOOLEAN
BY DEF Doings, Entries

LEMMA SInvInit == InspectorInit => SInv
<1> SUFFICES ASSUME InspectorInit PROVE SInv
  OBVIOUS
<1>1. Resting \in Doings
  BY DEF Resting, Entry, Entries, Doings, DoingKinds
<1>2. DeskOK
  <2>1. pending \in Seq([conn : Conns, reply : Nat]) /\ wire \in [Conns -> Seq(FrameSet)]
    BY EmptySeq DEF InspectorInit
  <2>2. thread \in [Threads -> Doings]
    BY <1>1 DEF InspectorInit
  <2> QED
    BY <2>1, <2>2 DEF InspectorInit, DeskOK
<1>3. Spoken /\ InLine
  BY NobodyElse DEF InspectorInit, Spoken, InLine, Is, Resting
<1> QED
  BY <1>2, <1>3 DEF InspectorInit, SInv, StreamInSync

(* What a thread does next, if it is not in a send lock before or after.   *)
LEMMA AtRestKey ==
  ASSUME SInv, NEW t \in Threads, NEW d \in Doings, d.key = 0, thread[t].key = 0,
         thread' = [thread EXCEPT ![t] = d], UNCHANGED <<open, cipher, line, wire>>
  PROVE  InLine' /\ StreamInSync'
<1>1. \A u \in Threads : thread'[u] = IF u = t THEN d ELSE thread[u]
  BY DEF SInv, DeskOK
<1>2. \A c \in Conns : line[c] # t
  BY DEF SInv, InLine
<1>3. InLine'
  <2>1. \A c \in Conns, u \in Threads :
          line'[c] = u => /\ Is(u, "sending")' /\ thread'[u].entry.conn = c
                          /\ thread'[u].key = cipher'[c] /\ thread'[u].key > 0
    BY <1>1, <1>2 DEF SInv, InLine, Is
  <2>2. \A u \in Threads : thread'[u].key > 0 => /\ Is(u, "sending")'
                                                /\ line'[thread'[u].entry.conn] = u
    BY <1>1 DEF SInv, InLine, Is
  <2>3. \A c \in Conns :
          open'[c] => cipher'[c] = Len(wire'[c]) + (IF line'[c] = Nobody THEN 0 ELSE 1)
    BY DEF SInv, InLine
  <2> QED
    BY <2>1, <2>2, <2>3 DEF InLine
<1> QED
  BY <1>3 DEF SInv, StreamInSync

LEMMA SInvRead ==
  ASSUME SInv, NEW c \in Conns, Heartbeat(c) \/ Compute(c)
  PROVE  SInv'
<1>1. /\ c \in Threads /\ thread[c] \in Doings /\ thread[c].key = 0
  <2>1. c \in Threads /\ thread[c] \in Doings
    BY NobodyElse DEF SInv, DeskOK
  <2>2. thread[c].at = "rest"
    BY DEF Heartbeat, Compute, Reads, Is
  <2> QED
    BY <2>1, <2>2, DoingFacts DEF SInv, InLine, Is
<1>2. PICK d \in Doings : /\ d.key = 0 /\ d.at \in {"sending", "offer"} /\ d.entry.conn = c
                          /\ thread' = [thread EXCEPT ![c] = d]
  <2>1. CASE Heartbeat(c)
    <3>1. Doing(c, "sending", Entry(c, 0), 1) \in Doings
      BY <1>1 DEF Doing, Entry, Doings, Entries, DoingKinds
    <3> QED
      BY <1>1, <2>1, <3>1 DEF Heartbeat, Now, Doing, Entry, Doings
  <2>2. CASE Compute(c)
    <3>1. Doing(c, "offer", Entry(c, computed[c] + 1), Frames) \in Doings
      <4>1. computed[c] + 1 \in Nat
        BY DEF SInv, DeskOK
      <4> QED
        BY <1>1, <4>1, NobodyElse DEF Doing, Entry, Doings, Entries, DoingKinds
    <3> QED
      BY <1>1, <2>2, <3>1 DEF Compute, Now, Doing, Entry, Doings
  <2> QED
    BY <2>1, <2>2
<1>3. DeskOK'
  <2>1. thread' \in [Threads -> Doings]
    BY <1>1, <1>2 DEF SInv, DeskOK
  <2>2. computed' = [computed EXCEPT ![c] = @ + 1] /\ computed \in [Conns -> Nat]
    BY DEF SInv, DeskOK, Heartbeat, Compute
  <2>3. computed' \in [Conns -> Nat]
    BY <2>2
  <2> QED
    BY <2>1, <2>3 DEF SInv, DeskOK, Heartbeat, Compute, socket
<1>4. Spoken'
  BY <1>1, <1>2, NobodyElse DEF SInv, DeskOK, Spoken
<1>5. InLine' /\ StreamInSync'
  BY <1>1, <1>2, AtRestKey DEF Heartbeat, Compute, socket
<1> QED
  BY <1>3, <1>4, <1>5 DEF SInv

LEMMA SInvOffer ==
  ASSUME SInv, NEW c \in Conns, Offer(c)
  PROVE  SInv'
<1>1. c \in Threads /\ thread[c] \in Doings /\ thread[c].at = "offer"
  BY NobodyElse DEF SInv, DeskOK, Offer, Is
<1>2. thread[c].key = 0 /\ thread[c].entry.conn = c
  BY <1>1, DoingFacts DEF SInv, InLine, Spoken, Is
<1>3. PICK d \in Doings : /\ d.key = 0 /\ d.at \in {"sending", "queue"} /\ d.entry.conn = c
                          /\ thread' = [thread EXCEPT ![c] = d]
  <2>1. [thread[c] EXCEPT !.at = IF armed THEN "queue" ELSE "sending"] \in Doings
    BY <1>1 DEF Doings, DoingKinds
  <2> QED
    BY <1>1, <1>2, <2>1 DEF Offer, Now, Doings
<1>4. DeskOK'
  <2>1. thread' \in [Threads -> Doings]
    BY <1>3 DEF SInv, DeskOK
  <2> QED
    BY <2>1 DEF SInv, DeskOK, Offer, socket
<1>5. Spoken'
  BY <1>1, <1>3, NobodyElse DEF SInv, DeskOK, Spoken
<1>6. InLine' /\ StreamInSync'
  BY <1>1, <1>2, <1>3, AtRestKey DEF Offer, socket
<1> QED
  BY <1>4, <1>5, <1>6 DEF SInv

LEMMA RestFacts == Resting \in Doings /\ Resting.key = 0 /\ Resting.at = "rest"
BY DEF Resting, Entry, Doings, Entries, DoingKinds

LEMMA SInvQueue ==
  ASSUME SInv, NEW c \in Conns, Queue(c)
  PROVE  SInv'
<1>1. c \in Threads /\ thread[c] \in Doings /\ thread[c].at = "queue"
  BY NobodyElse DEF SInv, DeskOK, Queue, Is
<1>2. thread[c].key = 0 /\ thread[c].entry \in [conn : Conns, reply : Nat]
  <2>1. thread[c].entry.conn = c
    BY <1>1 DEF SInv, Spoken
  <2> QED
    BY <1>1, <2>1, DoingFacts DEF SInv, InLine, Is, Entries
<1>3. thread' = [thread EXCEPT ![c] = Resting]
  BY DEF Queue, Now
<1>4. DeskOK'
  <2>1. thread' \in [Threads -> Doings]
    BY <1>3, RestFacts DEF SInv, DeskOK
  <2>2. pending' \in Seq([conn : Conns, reply : Nat])
    BY <1>2, AppendProperties DEF SInv, DeskOK, Queue
  <2> QED
    BY <2>1, <2>2 DEF SInv, DeskOK, Queue, socket
<1>5. Spoken'
  BY <1>1, <1>3, RestFacts, NobodyElse DEF SInv, DeskOK, Spoken
<1>6. InLine' /\ StreamInSync'
  BY <1>1, <1>2, <1>3, RestFacts, AtRestKey DEF Queue, socket
<1> QED
  BY <1>4, <1>5, <1>6 DEF SInv

LEMMA SInvHangup ==
  ASSUME SInv, NEW c \in Conns, Hangup(c)
  PROVE  SInv'
BY DEF SInv, DeskOK, Spoken, InLine, StreamInSync, Hangup, socket, Is

(* The operator between two entries.                                       *)
LEMMA SInvOperates ==
  ASSUME SInv, Operates
  PROVE  SInv'
<1>1. Operator \in Threads /\ thread[Operator] \in Doings /\ thread[Operator].at = "rest"
  BY NobodyElse DEF SInv, DeskOK, Operates, Arm, Disarm, Release, DropHeld, Is
<1>2. thread[Operator].key = 0
  BY <1>1, DoingFacts DEF SInv, InLine, Is
<1>3. CASE Arm
  BY <1>3 DEF SInv, DeskOK, Spoken, InLine, StreamInSync, Arm, socket, Is
<1>4. CASE DropHeld
  <2>1. pending' \in Seq([conn : Conns, reply : Nat])
    BY <1>4, HeadTailProperties DEF SInv, DeskOK, DropHeld
  <2> QED
    BY <1>4, <2>1 DEF SInv, DeskOK, Spoken, InLine, StreamInSync, DropHeld, socket, Is
<1>5. ASSUME NEW all \in BOOLEAN, thread' = [thread EXCEPT ![Operator] =
                                              [Resting EXCEPT !.at = "take", !.all = all]],
             UNCHANGED <<pending, lock, open, socket, computed>>,
             armed' \in BOOLEAN, disarmed' \in BOOLEAN, arms' = arms
      PROVE  SInv'
  <2> DEFINE d == [Resting EXCEPT !.at = "take", !.all = all]
  <2>1. d \in Doings /\ d.key = 0 /\ d.at = "take"
    BY DEF Resting, Entry, Doings, Entries, DoingKinds
  <2> HIDE DEF d
  <2>2. DeskOK'
    <3>1. thread' \in [Threads -> Doings]
      BY <1>5, <2>1 DEF SInv, DeskOK, d
    <3> QED
      BY <1>5, <3>1 DEF SInv, DeskOK, socket
  <2>3. Spoken'
    BY <1>1, <1>5, <2>1, NobodyElse DEF SInv, DeskOK, Spoken, d
  <2>4. InLine' /\ StreamInSync'
    BY <1>1, <1>2, <1>5, <2>1, AtRestKey DEF socket, d
  <2> QED
    BY <2>2, <2>3, <2>4 DEF SInv
<1>6. CASE Disarm
  BY <1>5, <1>6 DEF Disarm, Now
<1>7. ASSUME NEW all \in BOOLEAN, Release(all) PROVE SInv'
  <2>1. armed \in BOOLEAN /\ disarmed \in BOOLEAN
    BY DEF SInv, DeskOK
  <2> QED
    BY <1>5, <1>7, <2>1 DEF Release, Now
<1> QED
  BY <1>3, <1>4, <1>6, <1>7 DEF Operates

(* The entry the operator takes belongs to a connection.                   *)
LEMMA TakenEntry ==
  ASSUME DeskOK, pending # <<>>, thread[Operator] \in Doings
  PROVE  /\ Doing(Operator, "sending", Head(pending), Frames) \in Doings
         /\ Doing(Operator, "sending", Head(pending), Frames).key = 0
         /\ Doing(Operator, "sending", Head(pending), Frames).at = "sending"
         /\ Doing(Operator, "sending", Head(pending), Frames).entry.conn \in Conns
         /\ Doing(Operator, "sending", Head(pending), Frames).entry = Head(pending)
         /\ Tail(pending) \in Seq([conn : Conns, reply : Nat])
<1>1. Head(pending) \in [conn : Conns, reply : Nat] /\ Tail(pending) \in Seq([conn : Conns, reply : Nat])
  BY HeadTailProperties DEF DeskOK
<1>2. Head(pending) \in Entries /\ Head(pending).conn \in Conns
  BY <1>1 DEF Entries
<1> QED
  BY <1>1, <1>2, NobodyElse DEF Doing, Doings, DoingKinds

LEMMA SInvTake ==
  ASSUME SInv, Take
  PROVE  SInv'
<1>1. Operator \in Threads /\ thread[Operator] \in Doings /\ thread[Operator].at = "take"
  BY NobodyElse DEF SInv, DeskOK, Take, Is
<1>2. thread[Operator].key = 0
  BY <1>1, DoingFacts DEF SInv, InLine, Is
<1>3. PICK d \in Doings : /\ d.key = 0 /\ d.at \in {"rest", "sending"}
                          /\ d.at = "sending" => d.entry.conn \in Conns
                          /\ thread' = [thread EXCEPT ![Operator] = d]
                          /\ pending' \in Seq([conn : Conns, reply : Nat])
                          /\ lock' \in {Nobody, Operator}
  <2>1. CASE pending = <<>>
    BY <2>1, RestFacts DEF Take, Now, SInv, DeskOK
  <2>2. CASE pending # <<>>
    BY <1>1, <2>2, TakenEntry DEF Take, Now, SInv
  <2> QED
    BY <2>1, <2>2
<1>4. DeskOK'
  <2>1. thread' \in [Threads -> Doings]
    BY <1>3 DEF SInv, DeskOK
  <2> QED
    BY <1>3, <2>1 DEF SInv, DeskOK, Take, socket
<1>5. Spoken'
  BY <1>1, <1>3, NobodyElse DEF SInv, DeskOK, Spoken
<1>6. InLine' /\ StreamInSync'
  BY <1>1, <1>2, <1>3, AtRestKey DEF Take, socket
<1> QED
  BY <1>4, <1>5, <1>6 DEF SInv

(* A frame is encrypted in the send lock of its connection.                *)
LEMMA SInvEncrypt ==
  ASSUME SInv, NEW t \in Threads, Encrypt(t)
  PROVE  SInv'
<1> DEFINE c == thread[t].entry.conn
           d == [thread[t] EXCEPT !.key = cipher[c] + 1]
<1>1. thread[t] \in Doings /\ thread[t].at = "sending" /\ thread[t].key = 0
  BY DEF SInv, DeskOK, Encrypt, Is
<1>2. c \in Conns
  BY <1>1, NobodyElse DEF SInv, Spoken
<1>3. cipher[c] \in Nat /\ line[c] = Nobody
  BY <1>2 DEF SInv, DeskOK, Encrypt
<1>4. /\ d \in Doings /\ d.at = "sending" /\ d.entry = thread[t].entry /\ d.key = cipher[c] + 1
  BY <1>1, <1>3 DEF Doings
<1>5. /\ thread' = [thread EXCEPT ![t] = d]
      /\ cipher' = [cipher EXCEPT ![c] = @ + 1]
      /\ line' = [line EXCEPT ![c] = t]
      /\ UNCHANGED <<armed, pending, lock, open, wire, computed, arms, disarmed>>
  BY DEF Encrypt, Now
<1>6. \A u \in Threads : thread'[u] = IF u = t THEN d ELSE thread[u]
  BY <1>5 DEF SInv, DeskOK
<1>7. \A k \in Conns : /\ line'[k] = IF k = c THEN t ELSE line[k]
                       /\ cipher'[k] = IF k = c THEN cipher[c] + 1 ELSE cipher[k]
  BY <1>5 DEF SInv, DeskOK
<1> HIDE DEF d
<1>8. DeskOK'
  <2>1. thread' \in [Threads -> Doings] /\ cipher' \in [Conns -> Nat]
        /\ line' \in [Conns -> Threads \cup {Nobody}]
    BY <1>2, <1>3, <1>4, <1>5 DEF SInv, DeskOK
  <2> QED
    BY <1>5, <2>1 DEF SInv, DeskOK
<1>9. Spoken'
  BY <1>1, <1>4, <1>6, NobodyElse DEF SInv, Spoken
<1>10. InLine'
  <2>1. \A k \in Conns, u \in Threads :
          line'[k] = u => /\ Is(u, "sending")' /\ thread'[u].entry.conn = k
                          /\ thread'[u].key = cipher'[k] /\ thread'[u].key > 0
    <3> SUFFICES ASSUME NEW k \in Conns, NEW u \in Threads, line'[k] = u
                 PROVE  /\ thread'[u].at = "sending" /\ thread'[u].entry.conn = k
                        /\ thread'[u].key = cipher'[k] /\ thread'[u].key > 0
      BY DEF Is
    <3>1. CASE k = c
      BY <1>3, <1>4, <1>6, <1>7, <3>1
    <3>2. CASE k # c
      <4>1. line[k] = u
        BY <1>7, <3>2
      <4>2. u # t
        BY <3>2, <4>1 DEF SInv, InLine
      <4> QED
        BY <1>6, <1>7, <3>2, <4>1, <4>2 DEF SInv, InLine, Is
    <3> QED
      BY <3>1, <3>2
  <2>2. \A u \in Threads : thread'[u].key > 0 => /\ Is(u, "sending")'
                                                /\ line'[thread'[u].entry.conn] = u
    <3> SUFFICES ASSUME NEW u \in Threads, thread'[u].key > 0
                 PROVE  thread'[u].at = "sending" /\ line'[thread'[u].entry.conn] = u
      BY DEF Is
    <3>1. CASE u = t
      BY <1>2, <1>4, <1>6, <1>7, <3>1
    <3>2. CASE u # t
      <4>1. thread[u].at = "sending" /\ line[thread[u].entry.conn] = u
        BY <1>6, <3>2 DEF SInv, InLine, Is
      <4>2. thread[u].entry.conn \in Conns
        BY <4>1, NobodyElse DEF SInv, Spoken
      <4>3. thread[u].entry.conn # c
        BY <1>3, <4>1, NobodyElse
      <4> QED
        BY <1>6, <1>7, <3>2, <4>1, <4>2, <4>3
    <3> QED
      BY <3>1, <3>2
  <2>3. \A k \in Conns :
          open'[k] => cipher'[k] = Len(wire'[k]) + (IF line'[k] = Nobody THEN 0 ELSE 1)
    <3> SUFFICES ASSUME NEW k \in Conns, open'[k]
                 PROVE  cipher'[k] = Len(wire'[k]) + (IF line'[k] = Nobody THEN 0 ELSE 1)
      OBVIOUS
    <3>1. cipher[k] = Len(wire[k]) + (IF line[k] = Nobody THEN 0 ELSE 1) /\ wire'[k] = wire[k]
      BY <1>5 DEF SInv, InLine
    <3>2. Len(wire[k]) \in Nat
      BY DEF SInv, DeskOK
    <3>3. CASE k = c
      <4>1. cipher[k] = Len(wire[k]) /\ line'[k] = t /\ cipher'[k] = cipher[k] + 1
        BY <1>3, <1>7, <3>1, <3>2, <3>3
      <4>2. t # Nobody
        BY NobodyElse
      <4> QED
        BY <3>1, <3>2, <4>1, <4>2
    <3>4. CASE k # c
      BY <1>7, <3>1, <3>4
    <3> QED
      BY <3>3, <3>4
  <2> QED
    BY <2>1, <2>2, <2>3 DEF InLine
<1> QED
  BY <1>5, <1>8, <1>9, <1>10 DEF SInv, StreamInSync

LEMMA FrameAfter ==
  ASSUME NEW th \in Doings, th.left > 1
  PROVE  LET d == [th EXCEPT !.left = @ - 1, !.key = 0]
         IN /\ d \in Doings /\ d.key = 0 /\ d.at = th.at /\ d.entry = th.entry
<1> DEFINE l == th.left - 1
           d == [th EXCEPT !.left = l, !.key = 0]
<1>1. l \in Nat
  BY DoingFacts
<1>2. [th EXCEPT !.left = @ - 1, !.key = 0] = d
  BY DEF Doings
<1> HIDE DEF l
<1>3. d \in Doings /\ d.key = 0 /\ d.at = th.at /\ d.entry = th.entry
  BY <1>1 DEF Doings
<1> QED
  BY <1>2, <1>3

(* What follows a frame: the next one of the entry, the next entry or rest. *)
LEMMA PutNext ==
  ASSUME SInv, NEW t \in Threads, Put(t)
  PROVE  \E d \in Doings :
           /\ thread' = [thread EXCEPT ![t] = d] /\ d.key = 0
           /\ \/ d = Resting /\ UNCHANGED pending
              \/ d.at = "sending" /\ d.entry = thread[t].entry /\ UNCHANGED <<pending, lock>>
              \/ /\ t = Operator /\ pending # <<>> /\ pending' = Tail(pending)
                 /\ d.at = "sending" /\ d.entry = Head(pending) /\ d.entry.conn \in Conns
           /\ pending' \in Seq([conn : Conns, reply : Nat]) /\ lock' \in {Nobody, Operator}
<1> DEFINE e == thread[t].entry
<1>1. thread[t] \in Doings /\ thread[t].at = "sending"
  BY DEF SInv, DeskOK, Put, Is
<1>2. pending \in Seq([conn : Conns, reply : Nat]) /\ lock \in {Nobody, Operator}
  BY DEF SInv, DeskOK
<1>3. CASE open[e.conn] /\ thread[t].left > 1
  <2> DEFINE d == [thread[t] EXCEPT !.left = @ - 1, !.key = 0]
  <2>1. d \in Doings /\ d.key = 0 /\ d.at = "sending" /\ d.entry = e
    BY <1>1, <1>3, FrameAfter
  <2>2. thread' = [thread EXCEPT ![t] = d] /\ UNCHANGED <<pending, lock>>
    BY <1>3 DEF Put, Now
  <2> QED
    BY <1>2, <2>1, <2>2
<1>4. CASE ~(open[e.conn] /\ thread[t].left > 1)
  <2>1. Done(t)
    BY <1>4 DEF Put
  <2>2. CASE t # Operator
    BY <1>2, <2>1, <2>2, RestFacts DEF Done, Now
  <2>3. CASE t = Operator /\ thread[t].all /\ pending # <<>>
    BY <1>1, <1>2, <2>1, <2>3, TakenEntry DEF Done, Now, SInv
  <2>4. CASE t = Operator /\ ~(thread[t].all /\ pending # <<>>)
    BY <1>2, <2>1, <2>4, RestFacts DEF Done, Now
  <2> QED
    BY <2>2, <2>3, <2>4
<1> QED
  BY <1>3, <1>4

LEMMA SInvPut ==
  ASSUME SInv, NEW t \in Threads, Put(t)
  PROVE  SInv'
<1> DEFINE c == thread[t].entry.conn
           frame == [reply |-> thread[t].entry.reply, key |-> thread[t].key]
<1>1. thread[t] \in Doings /\ thread[t].at = "sending" /\ thread[t].key > 0
  BY DEF SInv, DeskOK, Put, Is
<1>2. c \in Conns /\ line[c] = t /\ thread[t].key = cipher[c]
  BY <1>1, NobodyElse DEF SInv, Spoken, InLine, Is
<1>3. /\ wire' = IF open[c] THEN [wire EXCEPT ![c] = Append(@, frame)] ELSE wire
      /\ line' = [line EXCEPT ![c] = Nobody]
      /\ UNCHANGED <<armed, open, cipher, computed, arms, disarmed>>
  BY DEF Put
<1>4. PICK d \in Doings :
        /\ thread' = [thread EXCEPT ![t] = d] /\ d.key = 0
        /\ d.at \in {"rest", "sending"}
        /\ d.at = "sending" => d.entry = thread[t].entry \/ (t = Operator /\ d.entry.conn \in Conns)
        /\ pending' \in Seq([conn : Conns, reply : Nat]) /\ lock' \in {Nobody, Operator}
  BY PutNext, RestFacts
<1>5. \A u \in Threads : thread'[u] = IF u = t THEN d ELSE thread[u]
  BY <1>4 DEF SInv, DeskOK
<1>6. wire[c] \in Seq(FrameSet) /\ frame \in FrameSet
  BY <1>1, <1>2, DoingFacts DEF SInv, DeskOK, FrameSet
<1>7. \A k \in Conns : /\ line'[k] = IF k = c THEN Nobody ELSE line[k]
                       /\ wire'[k] = IF k = c /\ open[c] THEN Append(wire[c], frame) ELSE wire[k]
  BY <1>3 DEF SInv, DeskOK
<1> HIDE DEF frame
<1>8. DeskOK'
  <2>1. thread' \in [Threads -> Doings] /\ line' \in [Conns -> Threads \cup {Nobody}]
    BY <1>2, <1>3, <1>4 DEF SInv, DeskOK
  <2>2. wire' \in [Conns -> Seq(FrameSet)]
    BY <1>2, <1>3, <1>6, AppendProperties DEF SInv, DeskOK
  <2> QED
    BY <1>3, <1>4, <2>1, <2>2 DEF SInv, DeskOK
<1>9. Spoken'
  BY <1>1, <1>2, <1>4, <1>5, NobodyElse DEF SInv, Spoken
<1>10. Len(wire[c]) \in Nat /\ (open[c] => cipher[c] = Len(wire[c]) + 1)
  <2>1. line[c] # Nobody
    BY <1>2, NobodyElse
  <2>2. Len(wire[c]) \in Nat
    BY <1>6
  <2>3. open[c] => cipher[c] = Len(wire[c]) + (IF line[c] = Nobody THEN 0 ELSE 1)
    BY <1>2 DEF SInv, InLine
  <2> QED
    BY <2>1, <2>2, <2>3
<1>11. InLine'
  <2>1. \A k \in Conns, u \in Threads :
          line'[k] = u => /\ Is(u, "sending")' /\ thread'[u].entry.conn = k
                          /\ thread'[u].key = cipher'[k] /\ thread'[u].key > 0
    <3> SUFFICES ASSUME NEW k \in Conns, NEW u \in Threads, line'[k] = u
                 PROVE  /\ thread'[u].at = "sending" /\ thread'[u].entry.conn = k
                        /\ thread'[u].key = cipher'[k] /\ thread'[u].key > 0
      BY DEF Is
    <3>1. k # c /\ line[k] = u
      BY <1>7, NobodyElse
    <3>2. u # t
      BY <3>1 DEF SInv, InLine
    <3> QED
      BY <1>3, <1>5, <3>1, <3>2 DEF SInv, InLine, Is
  <2>2. \A u \in Threads : thread'[u].key > 0 => /\ Is(u, "sending")'
                                                /\ line'[thread'[u].entry.conn] = u
    <3> SUFFICES ASSUME NEW u \in Threads, thread'[u].key > 0
                 PROVE  thread'[u].at = "sending" /\ line'[thread'[u].entry.conn] = u
      BY DEF Is
    <3>1. u # t
      BY <1>4, <1>5
    <3>2. thread[u].at = "sending" /\ line[thread[u].entry.conn] = u
      BY <1>5, <3>1 DEF SInv, InLine, Is
    <3>3. thread[u].entry.conn \in Conns
      BY <3>2, NobodyElse DEF SInv, Spoken
    <3> QED
      BY <1>2, <1>5, <1>7, <3>1, <3>2, <3>3
  <2>3. \A k \in Conns :
          open'[k] => cipher'[k] = Len(wire'[k]) + (IF line'[k] = Nobody THEN 0 ELSE 1)
    <3> SUFFICES ASSUME NEW k \in Conns, open'[k]
                 PROVE  cipher'[k] = Len(wire'[k]) + (IF line'[k] = Nobody THEN 0 ELSE 1)
      OBVIOUS
    <3>1. CASE k = c
      <4>1. open[c] /\ wire'[k] = Append(wire[c], frame) /\ line'[k] = Nobody
        BY <1>3, <1>7, <3>1
      <4>2. Len(wire'[k]) = Len(wire[c]) + 1
        BY <1>6, <4>1, AppendProperties
      <4> QED
        BY <1>3, <1>10, <3>1, <4>1, <4>2
    <3>2. CASE k # c
      <4>1. wire'[k] = wire[k] /\ line'[k] = line[k] /\ cipher'[k] = cipher[k] /\ open[k]
        BY <1>3, <1>7, <3>2
      <4>2. cipher[k] = Len(wire[k]) + (IF line[k] = Nobody THEN 0 ELSE 1)
        BY <4>1 DEF SInv, InLine
      <4> QED
        BY <4>1, <4>2
    <3> QED
      BY <3>1, <3>2
  <2> QED
    BY <2>1, <2>2, <2>3 DEF InLine
<1>12. StreamInSync'
  <2> SUFFICES ASSUME NEW k \in Conns, NEW i \in DOMAIN wire'[k]
               PROVE  wire'[k][i].key = i
    BY DEF StreamInSync
  <2>1. CASE k = c /\ open[c]
    <3>1. wire'[k] = Append(wire[c], frame)
      BY <1>7, <2>1
    <3>2. CASE i \in 1..Len(wire[c])
      BY <1>2, <1>6, <3>1, <3>2, AppendProperties DEF SInv, StreamInSync
    <3>3. CASE i = Len(wire[c]) + 1
      <4>1. Append(wire[c], frame)[Len(wire[c]) + 1] = frame
        BY <1>6, AppendProperties
      <4>2. wire'[k][i] = frame
        BY <3>1, <3>3, <4>1
      <4> QED
        BY <1>2, <1>10, <2>1, <3>3, <4>2 DEF frame
    <3>4. DOMAIN wire'[k] = 1..(Len(wire[c]) + 1)
      BY <1>6, <3>1, AppendProperties
    <3> QED
      BY <1>10, <3>2, <3>3, <3>4
  <2>2. CASE ~(k = c /\ open[c])
    BY <1>7, <2>2 DEF SInv, StreamInSync
  <2> QED
    BY <2>1, <2>2
<1> QED
  BY <1>8, <1>9, <1>11, <1>12 DEF SInv

LEMMA SInvNext == SInv /\ [InspectorNext]_iVars => SInv'
<1> SUFFICES ASSUME SInv, [InspectorNext]_iVars PROVE SInv'
  OBVIOUS
<1>1. CASE UNCHANGED iVars
  BY <1>1 DEF iVars, SInv, DeskOK, Spoken, InLine, StreamInSync, Is
<1>2. ASSUME NEW t \in Threads, Sends(t) PROVE SInv'
  BY <1>2, SInvEncrypt, SInvPut DEF Sends
<1>3. ASSUME NEW c \in Conns, Heartbeat(c) \/ Compute(c) \/ Hangup(c) \/ Works(c) PROVE SInv'
  <2>1. c \in Threads
    BY NobodyElse
  <2> QED
    BY <1>2, <1>3, <2>1, SInvRead, SInvHangup, SInvOffer, SInvQueue DEF Works
<1> QED
  BY <1>1, <1>2, <1>3, SInvOperates, SInvTake, NobodyElse DEF InspectorNext

(* Every frame a client reads was encrypted at the place it decrypts it.   *)
THEOREM StreamSafe == InspectorSpec => []StreamInSync
<1>1. SInv => StreamInSync
  BY DEF SInv
<1> QED
  BY <1>1, SInvInit, SInvNext, PTL DEF InspectorSpec

-----------------------------------------------------------------------------
(* Order.  Until the operator disarms, a reply of a connection is either   *)
(* sent by its thread with nothing of that connection held, or it waits    *)
(* behind every earlier one: on the wire, in the operator's hands, held.   *)

UpTo(w, n) == \A i \in DOMAIN w : w[i].reply <= n
InOrder(w) ==
  \A i, j \in DOMAIN w :
    (i < j /\ w[i].reply > 0 /\ w[j].reply > 0) => w[i].reply <= w[j].reply
Releasing(c) == Is(Operator, "sending") /\ thread[Operator].entry.conn = c

NothingHeldYet ==
  ~armed => /\ pending = <<>> /\ Is(Operator, "rest")
            /\ \A c \in Conns : ~Is(c, "queue")

WireOrder ==
  \A c \in Conns : UpTo(wire[c], computed[c]) /\ InOrder(wire[c])

HeldOrder ==
  /\ \A i \in DOMAIN pending : /\ UpTo(wire[pending[i].conn], pending[i].reply)
                               /\ pending[i].reply <= computed[pending[i].conn]
  /\ \A i, j \in DOMAIN pending :
       (i < j /\ pending[i].conn = pending[j].conn) => pending[i].reply <= pending[j].reply

ReleaseOrder ==
  \A c \in Conns : Releasing(c) =>
    /\ UpTo(wire[c], thread[Operator].entry.reply)
    /\ thread[Operator].entry.reply <= computed[c]
    /\ \A i \in DOMAIN pending :
         pending[i].conn = c => thread[Operator].entry.reply <= pending[i].reply

AnswerOrder ==
  \A c \in Conns :
    /\ thread[c].at \in {"offer", "queue"} => thread[c].entry.reply = computed[c]
    /\ (Is(c, "sending") /\ thread[c].entry.reply > 0) =>
         /\ thread[c].entry.reply = computed[c] /\ ~Releasing(c)
         /\ \A i \in DOMAIN pending : pending[i].conn # c

Ordered == NothingHeldYet /\ WireOrder /\ HeldOrder /\ ReleaseOrder /\ AnswerOrder

LEMMA OrderTypes ==
  ASSUME SInv
  PROVE  /\ \A c \in Conns : /\ computed[c] \in Nat /\ wire[c] \in Seq(FrameSet)
                             /\ \A i \in DOMAIN wire[c] : wire[c][i].reply \in Nat
         /\ \A i \in DOMAIN pending : pending[i].conn \in Conns /\ pending[i].reply \in Nat
         /\ \A t \in Threads : thread[t] \in Doings /\ thread[t].entry.reply \in Nat
<1>1. \A c \in Conns : computed[c] \in Nat /\ wire[c] \in Seq(FrameSet)
  BY DEF SInv, DeskOK
<1>2. ASSUME NEW c \in Conns, NEW i \in DOMAIN wire[c] PROVE wire[c][i].reply \in Nat
  <2>1. wire[c] \in Seq(FrameSet)
    BY <1>1
  <2>2. wire[c][i] \in FrameSet
    BY <2>1, ElementOfSeq, LenProperties
  <2> QED
    BY <2>2 DEF FrameSet
<1>3. \A i \in DOMAIN pending : pending[i] \in [conn : Conns, reply : Nat]
  BY ElementOfSeq, LenProperties DEF SInv, DeskOK
<1>4. \A t \in Threads : thread[t] \in Doings
  BY DEF SInv, DeskOK
<1> QED
  BY <1>1, <1>2, <1>3, <1>4, DoingFacts

LEMMA OInvInit == InspectorInit => Ordered
BY NobodyElse
DEF InspectorInit, Ordered, NothingHeldYet, WireOrder, HeldOrder, ReleaseOrder, AnswerOrder,
    UpTo, InOrder, Releasing, Is, Resting, Entry

(* What a thread does next, nothing being held, sent or computed.          *)
LEMMA OrderedTurn ==
  ASSUME SInv, Ordered, NEW c \in Conns, NEW d,
         thread' = [thread EXCEPT ![c] = d],
         UNCHANGED <<armed, pending, wire, computed>>,
         d.at \in {"offer", "queue"} => d.entry.reply = computed[c],
         d.at = "queue" => armed,
         (d.at = "sending" /\ d.entry.reply > 0) =>
            /\ d.entry.reply = computed[c] /\ ~Releasing(c)
            /\ \A i \in DOMAIN pending : pending[i].conn # c
  PROVE  Ordered'
<1>1. \A u \in Threads : thread'[u] = IF u = c THEN d ELSE thread[u]
  BY NobodyElse DEF SInv, DeskOK
<1>2. thread'[Operator] = thread[Operator]
  BY <1>1, NobodyElse
<1>3. \A k \in Conns : thread'[k] = IF k = c THEN d ELSE thread[k]
  BY <1>1, NobodyElse
<1>4. NothingHeldYet'
  BY <1>2, <1>3 DEF Ordered, NothingHeldYet, Is
<1>5. WireOrder' /\ HeldOrder'
  BY DEF Ordered, WireOrder, HeldOrder, UpTo
<1>6. ReleaseOrder'
  BY <1>2 DEF Ordered, ReleaseOrder, Releasing, UpTo, Is
<1>7. AnswerOrder'
  BY <1>2, <1>3 DEF Ordered, AnswerOrder, Releasing, Is
<1> QED
  BY <1>4, <1>5, <1>6, <1>7 DEF Ordered

(* A reply more is computed: nothing that is out gets past it.             *)
LEMMA OrderedRead ==
  ASSUME SInv, Ordered, NEW c \in Conns, Heartbeat(c) \/ Compute(c)
  PROVE  Ordered'
<1>1. /\ UNCHANGED <<armed, pending, wire>> /\ thread[c].at = "rest"
      /\ \A k \in Conns : computed'[k] = IF k = c THEN computed[c] + 1 ELSE computed[k]
  BY DEF Heartbeat, Compute, Reads, Is, socket, SInv, DeskOK
<1>2. \A k \in Conns : computed[k] \in Nat /\ computed'[k] \in Nat /\ computed[k] <= computed'[k]
  BY <1>1, OrderTypes
<1>3. PICK d : /\ thread' = [thread EXCEPT ![c] = d]
               /\ \/ d.at = "sending" /\ d.entry.reply = 0
                  \/ d.at = "offer" /\ d.entry.reply = computed'[c]
  <2>1. thread[c] \in Doings
    BY NobodyElse, OrderTypes
  <2>2. CASE Heartbeat(c)
    <3> DEFINE d == Doing(c, "sending", Entry(c, 0), 1)
    <3>1. d.at = "sending" /\ d.entry.reply = 0
      BY <2>1 DEF Doing, Entry, Doings
    <3>2. thread' = [thread EXCEPT ![c] = d]
      BY <2>2 DEF Heartbeat, Now
    <3> HIDE DEF d
    <3> QED
      BY <3>1, <3>2
  <2>3. CASE Compute(c)
    <3> DEFINE d == Doing(c, "offer", Entry(c, computed[c] + 1), Frames)
    <3>1. d.at = "offer" /\ d.entry.reply = computed[c] + 1
      BY <2>1 DEF Doing, Entry, Doings
    <3>2. thread' = [thread EXCEPT ![c] = d]
      BY <2>3 DEF Compute, Now
    <3> HIDE DEF d
    <3> QED
      BY <1>1, <3>1, <3>2
  <2> QED
    BY <2>2, <2>3
<1>4. \A u \in Threads : thread'[u] = IF u = c THEN d ELSE thread[u]
  BY <1>3, NobodyElse DEF SInv, DeskOK
<1>5. thread'[Operator] = thread[Operator]
  BY <1>4, NobodyElse
<1>6. \A k \in Conns : thread'[k] = IF k = c THEN d ELSE thread[k]
  BY <1>4, NobodyElse
<1>7. NothingHeldYet'
  BY <1>1, <1>3, <1>5, <1>6 DEF Ordered, NothingHeldYet, Is
<1>8. WireOrder'
  <2> SUFFICES ASSUME NEW k \in Conns PROVE UpTo(wire[k], computed[k])'
    BY <1>1 DEF Ordered, WireOrder
  <2>1. UpTo(wire[k], computed[k]) /\ wire'[k] = wire[k]
    BY <1>1 DEF Ordered, WireOrder
  <2> QED
    BY <1>2, <2>1, OrderTypes DEF UpTo
<1>9. HeldOrder'
  <2> SUFFICES ASSUME NEW i \in DOMAIN pending
               PROVE  pending[i].reply <= computed'[pending[i].conn]
    BY <1>1 DEF Ordered, HeldOrder, UpTo
  <2>1. pending[i].reply <= computed[pending[i].conn]
    BY DEF Ordered, HeldOrder
  <2> QED
    BY <1>2, <2>1, OrderTypes
<1>10. ReleaseOrder'
  <2> SUFFICES ASSUME NEW k \in Conns, Releasing(k)
               PROVE  thread[Operator].entry.reply <= computed'[k]
    BY <1>1, <1>5 DEF Ordered, ReleaseOrder, UpTo, Releasing, Is
  <2>1. thread[Operator].entry.reply <= computed[k]
    BY DEF Ordered, ReleaseOrder
  <2> QED
    BY <1>2, <2>1, NobodyElse, OrderTypes
<1>11. AnswerOrder'
  <2> SUFFICES ASSUME NEW k \in Conns
               PROVE  /\ thread'[k].at \in {"offer", "queue"} => thread'[k].entry.reply = computed'[k]
                      /\ (thread'[k].at = "sending" /\ thread'[k].entry.reply > 0) =>
                            /\ thread'[k].entry.reply = computed'[k] /\ ~Releasing(k)
                            /\ \A i \in DOMAIN pending : pending[i].conn # k
    BY <1>1, <1>5 DEF AnswerOrder, Is, Releasing
  <2>1. CASE k = c
    BY <1>3, <1>6, <2>1
  <2>2. CASE k # c
    BY <1>1, <1>6, <2>2 DEF Ordered, AnswerOrder, Is
  <2> QED
    BY <2>1, <2>2
<1> QED
  BY <1>7, <1>8, <1>9, <1>10, <1>11 DEF Ordered

LEMMA OrderedOffer ==
  ASSUME SInv, Ordered, NEW c \in Conns, Offer(c)
  PROVE  Ordered'
<1> DEFINE d == [thread[c] EXCEPT !.at = IF armed THEN "queue" ELSE "sending"]
<1>1. thread[c] \in Doings /\ thread[c].at = "offer"
  BY NobodyElse, OrderTypes DEF Offer, Is
<1>2. d.entry = thread[c].entry /\ d.at = IF armed THEN "queue" ELSE "sending"
  BY <1>1 DEF Doings
<1>3. thread[c].entry.reply = computed[c]
  BY <1>1 DEF Ordered, AnswerOrder
<1>4. ~armed => pending = <<>> /\ ~Releasing(c)
  BY DEF Ordered, NothingHeldYet, Releasing, Is
<1>5. thread' = [thread EXCEPT ![c] = d] /\ UNCHANGED <<armed, pending, wire, computed>>
  BY DEF Offer, Now, socket
<1> HIDE DEF d
<1>6. d.at \in {"offer", "queue"} => d.entry.reply = computed[c]
  BY <1>2, <1>3
<1>7. d.at = "queue" => armed
  BY <1>2
<1>8. d.at = "sending" => /\ d.entry.reply = computed[c] /\ ~Releasing(c)
                          /\ \A i \in DOMAIN pending : pending[i].conn # c
  BY <1>2, <1>3, <1>4
<1> QED
  BY <1>5, <1>6, <1>7, <1>8, OrderedTurn

(* One frame more at the end of a wire.                                    *)
LEMMA GrownWire ==
  ASSUME NEW w \in Seq(FrameSet), NEW f \in FrameSet
  PROVE  /\ \A n : UpTo(w, n) /\ f.reply <= n => UpTo(Append(w, f), n)
         /\ InOrder(w) /\ (f.reply = 0 \/ UpTo(w, f.reply)) => InOrder(Append(w, f))
<1>1. /\ Len(w) \in Nat /\ DOMAIN w = 1..Len(w)
      /\ DOMAIN Append(w, f) = 1..(Len(w) + 1)
      /\ Append(w, f)[Len(w) + 1] = f
      /\ \A i \in DOMAIN w : Append(w, f)[i] = w[i]
  BY AppendProperties, LenProperties
<1>2. \A i \in DOMAIN Append(w, f) : i \in DOMAIN w \/ i = Len(w) + 1
  BY <1>1
<1>3. \A n : UpTo(w, n) /\ f.reply <= n => UpTo(Append(w, f), n)
  BY <1>1, <1>2 DEF UpTo
<1>4. ASSUME InOrder(w), f.reply = 0 \/ UpTo(w, f.reply) PROVE InOrder(Append(w, f))
  <2> SUFFICES ASSUME NEW i \in DOMAIN Append(w, f), NEW j \in DOMAIN Append(w, f), i < j,
                      Append(w, f)[i].reply > 0, Append(w, f)[j].reply > 0
               PROVE  Append(w, f)[i].reply <= Append(w, f)[j].reply
    BY DEF InOrder
  <2>1. i \in DOMAIN w
    BY <1>1, <1>2
  <2>2. CASE j \in DOMAIN w
    BY <1>1, <1>4, <2>1, <2>2 DEF InOrder
  <2>3. CASE j = Len(w) + 1
    BY <1>1, <1>4, <2>1, <2>3 DEF UpTo
  <2> QED
    BY <1>2, <2>2, <2>3
<1> QED
  BY <1>3, <1>4

LEMMA HeldTail ==
  ASSUME SInv, pending # <<>>
  PROVE  /\ 1 \in DOMAIN pending /\ Head(pending) = pending[1]
         /\ \A i \in DOMAIN Tail(pending) :
              i \in Nat \ {0} /\ i + 1 \in DOMAIN pending /\ Tail(pending)[i] = pending[i + 1]
<1>1. pending \in Seq([conn : Conns, reply : Nat])
  BY DEF SInv, DeskOK
<1>2. /\ Len(pending) \in Nat \ {0} /\ DOMAIN pending = 1..Len(pending)
  BY <1>1, EmptySeq, LenProperties
<1>3. /\ Tail(pending) \in Seq([conn : Conns, reply : Nat])
      /\ Len(Tail(pending)) = Len(pending) - 1
      /\ \A i \in 1..Len(Tail(pending)) : Tail(pending)[i] = pending[i + 1]
  BY <1>1, HeadTailProperties
<1>4. DOMAIN Tail(pending) = 1..(Len(pending) - 1)
  BY <1>3, LenProperties
<1>5. Head(pending) = pending[1]
  BY <1>1
<1> QED
  BY <1>2, <1>3, <1>4, <1>5

LEMMA OrderedQueue ==
  ASSUME SInv, Ordered, NEW c \in Conns, Queue(c)
  PROVE  Ordered'
<1> DEFINE e == thread[c].entry
           n == Len(pending)
<1>1. e.conn = c /\ e.reply = computed[c] /\ armed
  BY DEF Queue, Is, SInv, Spoken, Ordered, AnswerOrder, NothingHeldYet
<1>2. UNCHANGED <<armed, wire, computed>> /\ pending' = Append(pending, e)
      /\ thread' = [thread EXCEPT ![c] = Resting]
  BY DEF Queue, socket, Now
<1>3. \A u \in Threads : thread'[u] = IF u = c THEN Resting ELSE thread[u]
  BY <1>2 DEF SInv, DeskOK
<1>4. thread'[Operator] = thread[Operator]
  BY <1>3, NobodyElse
<1>5. \A k \in Conns : thread'[k] = IF k = c THEN Resting ELSE thread[k]
  BY <1>3, NobodyElse
<1>6. /\ n \in Nat /\ DOMAIN pending = 1..n /\ DOMAIN pending' = 1..(n + 1)
      /\ pending'[n + 1] = e /\ \A i \in DOMAIN pending : pending'[i] = pending[i]
  <2>1. pending \in Seq([conn : Conns, reply : Nat])
    BY DEF SInv, DeskOK
  <2>2. e \in [conn : Conns, reply : Nat]
    BY <1>1, NobodyElse, OrderTypes, DoingFacts DEF Entries
  <2> QED
    BY <1>2, <2>1, <2>2, AppendProperties, LenProperties
<1>7. \A i \in DOMAIN pending' : i \in DOMAIN pending \/ i = n + 1
  BY <1>6
<1> HIDE DEF e, n
<1>8. NothingHeldYet'
  BY <1>1, <1>2 DEF NothingHeldYet
<1>9. WireOrder'
  BY <1>2 DEF Ordered, WireOrder
<1>10. HeldOrder'
  <2>1. ASSUME NEW i \in DOMAIN pending'
        PROVE  /\ UpTo(wire[pending'[i].conn], pending'[i].reply)
               /\ pending'[i].reply <= computed[pending'[i].conn]
    <3>1. CASE i \in DOMAIN pending
      BY <1>6, <3>1 DEF Ordered, HeldOrder
    <3>2. CASE i = n + 1
      BY <1>1, <1>6, <3>2, OrderTypes DEF Ordered, WireOrder
    <3> QED
      BY <1>7, <3>1, <3>2
  <2>2. ASSUME NEW i \in DOMAIN pending', NEW j \in DOMAIN pending', i < j,
               pending'[i].conn = pending'[j].conn
        PROVE  pending'[i].reply <= pending'[j].reply
    <3>1. i \in DOMAIN pending
      BY <1>6, <1>7, <2>2
    <3>2. CASE j \in DOMAIN pending
      BY <1>6, <2>2, <3>1, <3>2 DEF Ordered, HeldOrder
    <3>3. CASE j = n + 1
      BY <1>1, <1>6, <2>1, <2>2, <3>1, <3>3
    <3> QED
      BY <1>7, <3>2, <3>3
  <2> QED
    BY <1>2, <2>1, <2>2 DEF HeldOrder
<1>11. ReleaseOrder'
  <2> SUFFICES ASSUME NEW k \in Conns, Releasing(k)
               PROVE  /\ UpTo(wire[k], thread[Operator].entry.reply)
                      /\ thread[Operator].entry.reply <= computed[k]
                      /\ \A i \in DOMAIN pending' :
                           pending'[i].conn = k => thread[Operator].entry.reply <= pending'[i].reply
    BY <1>2, <1>4 DEF ReleaseOrder, Releasing, Is
  <2>1. /\ UpTo(wire[k], thread[Operator].entry.reply)
        /\ thread[Operator].entry.reply <= computed[k]
        /\ \A i \in DOMAIN pending :
             pending[i].conn = k => thread[Operator].entry.reply <= pending[i].reply
    BY DEF Ordered, ReleaseOrder
  <2> QED
    BY <1>1, <1>6, <1>7, <2>1
<1>12. AnswerOrder'
  <2> SUFFICES ASSUME NEW k \in Conns, k # c
               PROVE  /\ thread[k].at \in {"offer", "queue"} => thread[k].entry.reply = computed[k]
                      /\ (thread[k].at = "sending" /\ thread[k].entry.reply > 0) =>
                            /\ thread[k].entry.reply = computed[k] /\ ~Releasing(k)
                            /\ \A i \in DOMAIN pending' : pending'[i].conn # k
    BY <1>2, <1>4, <1>5, RestFacts DEF AnswerOrder, Is, Releasing
  <2> QED
    BY <1>1, <1>6, <1>7 DEF Ordered, AnswerOrder, Is
<1> QED
  BY <1>8, <1>9, <1>10, <1>11, <1>12 DEF Ordered

LEMMA PutWire ==
  ASSUME SInv, NEW t \in Threads, Put(t)
  PROVE  /\ thread[t].at = "sending" /\ thread[t].entry.conn \in Conns
         /\ UNCHANGED <<armed, computed>>
         /\ \E f \in FrameSet :
              /\ f.reply = thread[t].entry.reply
              /\ \A k \in Conns : \/ wire'[k] = wire[k]
                                  \/ /\ k = thread[t].entry.conn
                                     /\ wire'[k] = Append(wire[k], f)
<1> DEFINE c == thread[t].entry.conn
           f == [reply |-> thread[t].entry.reply, key |-> thread[t].key]
<1>1. thread[t] \in Doings /\ thread[t].at = "sending"
  BY OrderTypes DEF Put, Is
<1>2. c \in Conns
  BY <1>1, NobodyElse DEF SInv, Spoken
<1>3. f \in FrameSet /\ f.reply = thread[t].entry.reply
  BY <1>1, DoingFacts DEF FrameSet
<1>4. /\ wire' = IF open[c] THEN [wire EXCEPT ![c] = Append(@, f)] ELSE wire
      /\ UNCHANGED <<armed, computed>>
  BY DEF Put
<1>5. wire \in [Conns -> Seq(FrameSet)]
  BY DEF SInv, DeskOK
<1> HIDE DEF f
<1>6. \A k \in Conns : wire'[k] = wire[k] \/ (k = c /\ wire'[k] = Append(wire[k], f))
  BY <1>4, <1>5
<1> QED
  BY <1>1, <1>2, <1>3, <1>4, <1>6

(* A connection's own thread sends: nothing of that connection is held.    *)
LEMMA OrderedAnswer ==
  ASSUME SInv, Ordered, NEW c \in Conns, Put(c)
  PROVE  Ordered'
<1> DEFINE r == thread[c].entry.reply
<1>1. c \in Threads /\ c # Operator /\ thread[c].entry.conn = c /\ thread[c].at = "sending"
  BY NobodyElse, PutWire DEF SInv, Spoken
<1>2. PICK f \in FrameSet : /\ f.reply = r
                            /\ \A k \in Conns : wire'[k] = wire[k]
                                              \/ (k = c /\ wire'[k] = Append(wire[k], f))
  BY <1>1, PutWire
<1>3. UNCHANGED <<armed, computed>>
  BY <1>1, PutWire
<1>4. PICK d \in Doings : /\ thread' = [thread EXCEPT ![c] = d]
                          /\ d.at = "rest" \/ (d.at = "sending" /\ d.entry = thread[c].entry)
                          /\ UNCHANGED pending
  BY <1>1, PutNext, RestFacts
<1>5. \A u \in Threads : thread'[u] = IF u = c THEN d ELSE thread[u]
  BY <1>4 DEF SInv, DeskOK
<1>6. thread'[Operator] = thread[Operator]
  BY <1>1, <1>5, NobodyElse
<1>7. \A k \in Conns : thread'[k] = IF k = c THEN d ELSE thread[k]
  BY <1>5, NobodyElse
<1>8. r \in Nat /\ computed[c] \in Nat /\ wire[c] \in Seq(FrameSet)
  BY <1>1, OrderTypes
<1>9. r > 0 => r = computed[c] /\ ~Releasing(c) /\ \A i \in DOMAIN pending : pending[i].conn # c
  BY <1>1 DEF Ordered, AnswerOrder, Is
<1> HIDE DEF r
<1>10. NothingHeldYet'
  BY <1>1, <1>3, <1>4, <1>6, <1>7 DEF Ordered, NothingHeldYet, Is
<1>11. WireOrder'
  <2> SUFFICES ASSUME NEW k \in Conns PROVE UpTo(wire'[k], computed[k]) /\ InOrder(wire'[k])
    BY <1>3 DEF WireOrder
  <2>1. UpTo(wire[k], computed[k]) /\ InOrder(wire[k])
    BY DEF Ordered, WireOrder
  <2>2. CASE k = c /\ wire'[k] = Append(wire[k], f)
    <3>1. r <= computed[c] /\ (r = 0 \/ UpTo(wire[c], r))
      BY <1>8, <1>9, <2>1, <2>2
    <3> QED
      BY <1>2, <1>8, <2>1, <2>2, <3>1, GrownWire
  <2> QED
    BY <1>2, <2>1, <2>2
<1>12. ASSUME NEW k \in Conns, NEW n \in Nat, UpTo(wire[k], n), k = c => r = 0
       PROVE  UpTo(wire'[k], n)
  <2>1. CASE k = c /\ wire'[k] = Append(wire[k], f)
    BY <1>2, <1>8, <1>12, <2>1, GrownWire
  <2> QED
    BY <1>2, <1>12, <2>1
<1>13. HeldOrder'
  <2> SUFFICES ASSUME NEW i \in DOMAIN pending
               PROVE  UpTo(wire'[pending[i].conn], pending[i].reply)
    BY <1>3, <1>4 DEF Ordered, HeldOrder
  <2>1. UpTo(wire[pending[i].conn], pending[i].reply)
    BY DEF Ordered, HeldOrder
  <2>2. pending[i].conn = c => r = 0
    BY <1>8, <1>9
  <2> QED
    BY <1>12, <2>1, <2>2, OrderTypes
<1>14. ReleaseOrder'
  <2> SUFFICES ASSUME NEW k \in Conns, Releasing(k)
               PROVE  UpTo(wire'[k], thread[Operator].entry.reply)
    BY <1>3, <1>4, <1>6 DEF Ordered, ReleaseOrder, Releasing, Is
  <2>1. UpTo(wire[k], thread[Operator].entry.reply)
    BY DEF Ordered, ReleaseOrder
  <2>2. k = c => r = 0
    BY <1>8, <1>9
  <2> QED
    BY <1>12, <2>1, <2>2, NobodyElse, OrderTypes
<1>15. AnswerOrder'
  <2> SUFFICES ASSUME NEW k \in Conns
               PROVE  /\ thread'[k].at \in {"offer", "queue"} => thread'[k].entry.reply = computed[k]
                      /\ (thread'[k].at = "sending" /\ thread'[k].entry.reply > 0) =>
                            /\ thread'[k].entry.reply = computed[k] /\ ~Releasing(k)
                            /\ \A i \in DOMAIN pending : pending[i].conn # k
    BY <1>3, <1>4, <1>6 DEF AnswerOrder, Is, Releasing
  <2>1. CASE k = c
    BY <1>4, <1>7, <1>9, <2>1 DEF r
  <2>2. CASE k # c
    BY <1>7, <2>2 DEF Ordered, AnswerOrder, Is
  <2> QED
    BY <2>1, <2>2
<1> QED
  BY <1>10, <1>11, <1>13, <1>14, <1>15 DEF Ordered

(* What the operator does with what is held: it goes on with its entry,    *)
(* takes the oldest, or leaves it alone; and it may have put one frame.    *)
LEMMA OrderedRelease ==
  ASSUME SInv, Ordered, armed, UNCHANGED <<armed, computed>>,
         NEW d, thread' = [thread EXCEPT ![Operator] = d],
         UNCHANGED pending \/ (pending # <<>> /\ pending' = Tail(pending)),
         d.at = "sending" =>
           \/ UNCHANGED pending /\ thread[Operator].at = "sending" /\ d.entry = thread[Operator].entry
           \/ pending # <<>> /\ pending' = Tail(pending) /\ d.entry = Head(pending),
         NEW f \in FrameSet, f.reply = thread[Operator].entry.reply,
         \A k \in Conns : \/ wire'[k] = wire[k]
                          \/ Releasing(k) /\ wire'[k] = Append(wire[k], f)
  PROVE  Ordered'
<1> DEFINE r == thread[Operator].entry.reply
           Kept(i) == IF pending' = pending THEN i ELSE i + 1
<1>1. r \in Nat /\ \A k \in Conns : computed[k] \in Nat /\ wire[k] \in Seq(FrameSet)
  BY NobodyElse, OrderTypes
<1>2. thread'[Operator] = d /\ \A k \in Conns : thread'[k] = thread[k]
  BY NobodyElse DEF SInv, DeskOK
<1>3. \A i \in DOMAIN pending' : Kept(i) \in DOMAIN pending /\ pending'[i] = pending[Kept(i)]
  <2>1. CASE UNCHANGED pending
    BY <2>1
  <2>2. CASE pending' # pending
    BY <2>2, HeldTail
  <2> QED
    BY <2>1, <2>2
<1>4. \A i, j \in DOMAIN pending' : i < j => Kept(i) < Kept(j)
  <2>1. CASE UNCHANGED pending
    BY <2>1
  <2>2. CASE pending' # pending
    BY <2>2, HeldTail
  <2> QED
    BY <2>1, <2>2
<1> HIDE DEF Kept
<1>5. \A k \in Conns : Releasing(k) =>
        /\ UpTo(wire[k], r) /\ r <= computed[k]
        /\ \A i \in DOMAIN pending : pending[i].conn = k => r <= pending[i].reply
  BY DEF Ordered, ReleaseOrder
<1> HIDE DEF r
<1>6. WireOrder'
  <2> SUFFICES ASSUME NEW k \in Conns PROVE UpTo(wire'[k], computed[k]) /\ InOrder(wire'[k])
    BY DEF WireOrder
  <2>1. UpTo(wire[k], computed[k]) /\ InOrder(wire[k])
    BY DEF Ordered, WireOrder
  <2>2. CASE Releasing(k) /\ wire'[k] = Append(wire[k], f)
    BY <1>1, <1>5, <2>1, <2>2, GrownWire DEF r
  <2> QED
    BY <2>1, <2>2
<1>7. ASSUME NEW k \in Conns, NEW n \in Nat, UpTo(wire[k], n), Releasing(k) => r <= n
      PROVE  UpTo(wire'[k], n)
  <2>1. CASE Releasing(k) /\ wire'[k] = Append(wire[k], f)
    BY <1>1, <1>7, <2>1, GrownWire DEF r
  <2> QED
    BY <1>7, <2>1
<1>8. \A i \in DOMAIN pending : UpTo(wire'[pending[i].conn], pending[i].reply)
  <2> SUFFICES ASSUME NEW i \in DOMAIN pending
               PROVE  UpTo(wire'[pending[i].conn], pending[i].reply)
    OBVIOUS
  <2>1. UpTo(wire[pending[i].conn], pending[i].reply)
    BY DEF Ordered, HeldOrder
  <2> QED
    BY <1>5, <1>7, <2>1, OrderTypes
<1>9. HeldOrder'
  <2>1. \A i \in DOMAIN pending' : /\ UpTo(wire'[pending'[i].conn], pending'[i].reply)
                                  /\ pending'[i].reply <= computed[pending'[i].conn]
    BY <1>3, <1>8 DEF Ordered, HeldOrder
  <2>2. \A i, j \in DOMAIN pending' :
          (i < j /\ pending'[i].conn = pending'[j].conn) => pending'[i].reply <= pending'[j].reply
    BY <1>3, <1>4 DEF Ordered, HeldOrder
  <2> QED
    BY <2>1, <2>2 DEF HeldOrder
<1>10. ReleaseOrder'
  <2> SUFFICES ASSUME NEW k \in Conns, d.at = "sending", d.entry.conn = k
               PROVE  /\ UpTo(wire'[k], d.entry.reply) /\ d.entry.reply <= computed[k]
                      /\ \A i \in DOMAIN pending' :
                           pending'[i].conn = k => d.entry.reply <= pending'[i].reply
    BY <1>2 DEF ReleaseOrder, Releasing, Is
  <2>1. CASE UNCHANGED pending /\ thread[Operator].at = "sending" /\ d.entry = thread[Operator].entry
    <3>1. Releasing(k) /\ d.entry.reply = r
      BY <2>1 DEF Releasing, Is, r
    <3>2. UpTo(wire'[k], r)
      BY <1>1, <1>5, <1>7, <3>1
    <3> QED
      BY <1>5, <2>1, <3>1, <3>2
  <2>2. CASE pending # <<>> /\ pending' = Tail(pending) /\ d.entry = Head(pending)
    <3>1. 1 \in DOMAIN pending /\ d.entry = pending[1]
      BY <2>2, HeldTail
    <3>2. UpTo(wire'[k], d.entry.reply) /\ d.entry.reply <= computed[k]
      BY <1>8, <3>1 DEF Ordered, HeldOrder
    <3>3. ASSUME NEW i \in DOMAIN pending', pending'[i].conn = k
          PROVE  d.entry.reply <= pending'[i].reply
      BY <2>2, <3>1, <3>3, HeldTail DEF Ordered, HeldOrder
    <3> QED
      BY <3>2, <3>3
  <2> QED
    BY <2>1, <2>2
<1>11. AnswerOrder'
  <2> SUFFICES ASSUME NEW k \in Conns, thread[k].at = "sending", thread[k].entry.reply > 0
               PROVE  /\ ~Releasing(k)'
                      /\ \A i \in DOMAIN pending' : pending'[i].conn # k
    BY <1>2 DEF Ordered, AnswerOrder, Is
  <2>1. ~Releasing(k) /\ \A i \in DOMAIN pending : pending[i].conn # k
    BY DEF Ordered, AnswerOrder, Is
  <2>2. ~(d.at = "sending" /\ d.entry.conn = k)
    BY <2>1, HeldTail DEF Releasing, Is
  <2> QED
    BY <1>2, <1>3, <2>1, <2>2 DEF Releasing, Is
<1> QED
  BY <1>6, <1>9, <1>10, <1>11 DEF Ordered, NothingHeldYet

(* Whoever is at work with an entry the operator holds, is armed.          *)
LEMMA OrderedPut ==
  ASSUME SInv, Ordered, Put(Operator)
  PROVE  Ordered'
<1>1. Operator \in Threads /\ thread[Operator].at = "sending" /\ UNCHANGED <<armed, computed>>
  BY NobodyElse, PutWire
<1>2. armed
  BY <1>1 DEF Ordered, NothingHeldYet, Is
<1>3. PICK f \in FrameSet :
        /\ f.reply = thread[Operator].entry.reply
        /\ \A k \in Conns : wire'[k] = wire[k] \/ (Releasing(k) /\ wire'[k] = Append(wire[k], f))
  BY <1>1, PutWire DEF Releasing, Is
<1>4. PICK d \in Doings :
        /\ thread' = [thread EXCEPT ![Operator] = d]
        /\ UNCHANGED pending \/ (pending # <<>> /\ pending' = Tail(pending))
        /\ d.at = "sending" =>
             \/ UNCHANGED pending /\ d.entry = thread[Operator].entry
             \/ pending # <<>> /\ pending' = Tail(pending) /\ d.entry = Head(pending)
  BY <1>1, PutNext, RestFacts
<1> QED
  BY <1>1, <1>2, <1>3, <1>4, OrderedRelease

LEMMA OrderedOperates ==
  ASSUME SInv, Ordered, ~disarmed', Operates \/ Take
  PROVE  Ordered'
<1>1. \E f \in FrameSet : f.reply = thread[Operator].entry.reply
  <2>1. [reply |-> thread[Operator].entry.reply, key |-> 0] \in FrameSet
    BY NobodyElse, OrderTypes DEF FrameSet
  <2> QED
    BY <2>1
<1>2. thread \in [Threads -> Doings] /\ Operator \in Threads
  BY NobodyElse DEF SInv, DeskOK
<1>3. CASE Arm
  BY <1>3 DEF Arm, socket, Ordered, NothingHeldYet, WireOrder, HeldOrder, ReleaseOrder,
              AnswerOrder, Releasing, Is
<1>4. CASE Disarm
  BY <1>4 DEF Disarm
<1>5. CASE Release(TRUE) \/ Release(FALSE)
  <2>1. PICK all \in BOOLEAN : Release(all)
    BY <1>5
  <2> DEFINE d == [Resting EXCEPT !.at = "take", !.all = all]
  <2>2. thread' = [thread EXCEPT ![Operator] = d] /\ UNCHANGED <<armed, pending, wire, computed>>
        /\ pending # <<>>
    BY <2>1 DEF Release, Now, socket
  <2>3. d.at = "take"
    BY DEF Resting
  <2>4. armed
    BY <2>2 DEF Ordered, NothingHeldYet
  <2> HIDE DEF d
  <2> QED
    BY <1>1, <2>2, <2>3, <2>4, OrderedRelease
<1>6. CASE DropHeld
  <2> DEFINE d == thread[Operator]
  <2>1. thread' = [thread EXCEPT ![Operator] = d] /\ UNCHANGED <<armed, wire, computed>>
        /\ pending # <<>> /\ pending' = Tail(pending) /\ d.at = "rest"
    BY <1>2, <1>6 DEF DropHeld, socket, Is
  <2>2. armed
    BY <2>1 DEF Ordered, NothingHeldYet
  <2> HIDE DEF d
  <2> QED
    BY <1>1, <2>1, <2>2, OrderedRelease
<1>7. CASE Take
  <2>1. armed /\ UNCHANGED <<armed, wire, computed>>
    BY <1>7 DEF Take, socket, Is, Ordered, NothingHeldYet
  <2>2. CASE pending = <<>>
    <3>1. thread' = [thread EXCEPT ![Operator] = Resting] /\ UNCHANGED pending
      BY <1>7, <2>2 DEF Take, Now
    <3> QED
      BY <1>1, <2>1, <3>1, RestFacts, OrderedRelease
  <2>3. CASE pending # <<>>
    <3> DEFINE d == Doing(Operator, "sending", Head(pending), Frames)
    <3>1. thread' = [thread EXCEPT ![Operator] = d] /\ pending' = Tail(pending)
      BY <1>7, <2>3 DEF Take, Now
    <3>2. d.entry = Head(pending)
      BY <1>2, <2>3, TakenEntry DEF SInv
    <3> HIDE DEF d
    <3> QED
      BY <1>1, <2>1, <2>3, <3>1, <3>2, OrderedRelease
  <2> QED
    BY <2>2, <2>3
<1> QED
  BY <1>3, <1>4, <1>5, <1>6, <1>7 DEF Operates

LEMMA OrderedEncrypt ==
  ASSUME SInv, Ordered, NEW t \in Threads, Encrypt(t)
  PROVE  Ordered'
<1>1. UNCHANGED <<armed, pending, wire, computed>>
  BY DEF Encrypt
<1>2. thread[t] \in Doings
  BY OrderTypes
<1>3. \A u \in Threads : thread'[u].at = thread[u].at /\ thread'[u].entry = thread[u].entry
  <2> DEFINE d == [thread[t] EXCEPT !.key = cipher[thread[t].entry.conn] + 1]
  <2>1. d.at = thread[t].at /\ d.entry = thread[t].entry
    BY <1>2 DEF Doings
  <2>2. thread' = [thread EXCEPT ![t] = d]
    BY DEF Encrypt, Now
  <2> HIDE DEF d
  <2> QED
    BY <2>1, <2>2 DEF SInv, DeskOK
<1>4. NothingHeldYet' /\ WireOrder' /\ HeldOrder'
  BY <1>1, <1>3, NobodyElse DEF Ordered, NothingHeldYet, WireOrder, HeldOrder, Is
<1>5. ReleaseOrder' /\ AnswerOrder'
  BY <1>1, <1>3, NobodyElse DEF Ordered, ReleaseOrder, AnswerOrder, Releasing, Is
<1> QED
  BY <1>4, <1>5 DEF Ordered

LEMMA OrderedStep ==
  ASSUME SInv, Ordered, ~disarmed', [InspectorNext]_iVars
  PROVE  Ordered'
<1>1. CASE UNCHANGED iVars
  BY <1>1 DEF iVars, Ordered, NothingHeldYet, WireOrder, HeldOrder, ReleaseOrder, AnswerOrder,
              Releasing, Is
<1>2. ASSUME NEW t \in Threads, Sends(t) PROVE Ordered'
  BY <1>2, NobodyElse, OrderedEncrypt, OrderedAnswer, OrderedPut DEF Sends
<1>3. ASSUME NEW c \in Conns, Hangup(c) PROVE Ordered'
  BY <1>3 DEF Hangup, socket, Ordered, NothingHeldYet, WireOrder, HeldOrder, ReleaseOrder,
              AnswerOrder, Releasing, Is
<1>4. ASSUME NEW c \in Conns, Heartbeat(c) \/ Compute(c) \/ Works(c) PROVE Ordered'
  BY <1>2, <1>4, NobodyElse, OrderedRead, OrderedOffer, OrderedQueue DEF Works
<1> QED
  BY <1>1, <1>2, <1>3, <1>4, NobodyElse, OrderedOperates DEF InspectorNext

(* What a client reads can be deciphered, and for as long as the operator  *)
(* has not disarmed the battle replies of a connection come in the order   *)
(* they were computed in, held, stepped and dropped at will.               *)
THEOREM WireSafe == InspectorSpec => []WireIntact
<1> DEFINE IInv == SInv /\ (~disarmed => Ordered)
<1>1. InspectorInit => IInv
  BY SInvInit, OInvInit
<1>2. IInv /\ [InspectorNext]_iVars => IInv'
  <2> SUFFICES ASSUME IInv, [InspectorNext]_iVars, ~disarmed' PROVE Ordered'
    BY SInvNext
  <2>1. ~disarmed
    BY DEF InspectorNext, iVars, Heartbeat, Compute, Hangup, Works, Offer, Queue, Sends, Encrypt,
           Put, Operates, Arm, Disarm, Release, DropHeld, Take
  <2> QED
    BY <2>1, OrderedStep
<1>3. IInv => WireIntact
  BY DEF SInv, Ordered, WireOrder, InOrder, WireIntact, OrderKept
<1> QED
  BY <1>1, <1>2, <1>3, PTL DEF InspectorSpec

-----------------------------------------------------------------------------
(* A behaviour is one host or the other, and either takes its own steps:   *)
(* what holds of the updater and of the inspector holds of the pair that   *)
(* is model-checked.                                                       *)
THEOREM EachHostAlone == HostsSpec => UpdateSpec /\ InspectorSpec
<1>1. HostsInit => UpdateInit /\ InspectorInit
  BY DEF HostsInit
<1>2. [HostsNext]_allVars => [UpdateNext]_updateVars /\ [InspectorNext]_iVars
  BY DEF HostsNext, allVars
<1> QED BY <1>1, <1>2, PTL DEF HostsSpec, UpdateSpec, InspectorSpec

-----------------------------------------------------------------------------
(* The fight.                                                              *)
(*                                                                         *)
(* What the client will draw is read off its inbox: WillStand follows each *)
(* reply that is sent and each reply that is read (WillSend, WillRead).    *)
(* The rest is the conversation: under LoopOnly the client waits for one   *)
(* reply at a time, and InStep says what that reply can be for each thing  *)
(* it may have asked.  AgreeOnStanding is inductive only with OnScreen     *)
(* beside it: no death is owed while the skill bar is up or being sent, so *)
(* a move never raises a unit whose death row is still to come, and nothing*)
(* is owed when a wave is left, so clearing the queue loses no death.      *)

\* The units whose deaths are still to be told.
Owed(b) == {r.order : r \in DeathsDue(b)}

\* The acting unit is one of the living; only an empty field has none.
SeatTaken == battle.actor \in Seats(battle.alive)

\* A wave rushed to is one the stage has.
WaveAhead == screen = "rush" => battle.wave < WaveMax

\* A reply holds one or two messages.
Short == \A n \in 1 .. Len(inbox) : Len(inbox[n]) \in 1 .. 2

Plain(m) == m.die = {} /\ m.up = {}
Sits(m) == m = Msg("Judge") /\ ~prefAuto /\ DeathsDue(battle) = {}
ClosesWave(m) == m.cmd = "WaveEnd" /\ Plain(m) /\ Due(battle) = {}

AnswersTurn(reply) ==
  reply \in {<<Msg("StartTurn")>>, <<Msg("WaveBegin"), Msg("StartTurn")>>}
AnswersJudge(reply) ==
  \/ Len(reply) = 1 /\ (reply[1].cmd = "Attack" \/ Sits(reply[1]) \/ ClosesWave(reply[1]))
  \/ Len(reply) = 2 /\ reply[1].cmd = "Attack" /\ Sits(reply[2])
  \/ Len(reply) = 2 /\ reply[1] = Msg("Judge") /\ reply[2].cmd = "Attack"
AnswersWave(reply) == Len(reply) = 1 /\ reply[1].cmd = "NextWave"

Waits == {"asking", "judging", "arriving"}

\* The client waits for one reply at a time, and knows what may come.
InStep ==
  /\ Len(inbox) = IF screen \in Waits THEN 1 ELSE 0
  /\ screen = "asking" => AnswersTurn(inbox[1])
  /\ screen = "judging" => AnswersJudge(inbox[1])
  /\ screen = "arriving" => AnswersWave(inbox[1])

\* What each screen says about the server.
OnScreen ==
  /\ screen # "wedged"
  /\ screen \in {"ready", "arriving"} => ~battle.turnOpen
  /\ screen # "ready" /\ prefAuto => battle.auto
  /\ screen = "skill" => ~prefAuto /\ DeathsDue(battle) = {}
  /\ screen = "rush" => Due(battle) = {}

InLoop == LoopOnly => InStep /\ OnScreen
Agrees(drawn, b) == drawn = b.alive \cup Owed(b) /\ Owed(b) \cap b.alive = {}
InAccord == LoopOnly /\ ~fight.revives => Agrees(WillStand, battle)

Typed == TypeOK /\ Short /\ SeatTaken /\ WaveAhead
FlowInv == Typed /\ InLoop /\ InAccord

-----------------------------------------------------------------------------
(* Messages.                                                               *)

\* A setting's party is a part of Party.
LEMMA SettingFacts ==
  ASSUME fight \in Fights
  PROVE  fight.party \in SUBSET Party /\ fight.boss \in BOOLEAN
         /\ fight.revives \in BOOLEAN /\ fight.burns \in Nat
BY FlowAssumption DEF FlowAssumption, Setting

\* The messages the handlers build.
LEMMA MsgFacts ==
  /\ \A c \in Cmds : /\ Msg(c) \in Message /\ Msg(c).cmd = c /\ Plain(Msg(c))
                     /\ Msg(c).won = FALSE
  /\ \A dead, raised \in SUBSET Orders :
       /\ Hit(dead, raised) \in Message /\ Hit(dead, raised).cmd = "Attack"
       /\ Hit(dead, raised).die = dead /\ Hit(dead, raised).up = raised
  /\ \A up \in SUBSET Orders :
       LET m == [Msg("NextWave") EXCEPT !.up = up]
       IN m \in Message /\ m.cmd = "NextWave" /\ m.die = {} /\ m.up = up
BY DEF Msg, Hit, Message, Cmds, Pushes, Plain

\* The end of a wave puts nobody down.
LEMMA WaveEndFacts ==
  ASSUME NEW b, fight \in Fights
  PROVE  WaveEnd(b) \in Message /\ WaveEnd(b).cmd = "WaveEnd" /\ Plain(WaveEnd(b))
BY SettingFacts DEF WaveEnd, WaveCleared, Msg, Message, Cmds, Pushes, Plain

-----------------------------------------------------------------------------
(* What the client will draw.                                              *)

\* A reply of one message, and of two.
LEMMA ShownOne ==
  ASSUME NEW m \in Message, NEW drawn \in SUBSET Orders
  PROVE  Shown(drawn, <<m>>) = (drawn \ Lost(m)) \cup m.up
<1> DEFINE r == <<m>>
<1>1. Len(r) = 1 /\ DOMAIN r = {1} /\ r[1] = m
  OBVIOUS
<1>2. LostIn(r) = Lost(m)
  BY <1>1 DEF LostIn
<1>3. UpIn(r) = m.up
  BY <1>1 DEF UpIn
<1> QED BY <1>2, <1>3 DEF Shown

\* Two messages are read one after the other.
LEMMA ShownTwo ==
  ASSUME NEW m \in Message, NEW n \in Message, NEW drawn \in SUBSET Orders
  PROVE  Shown(drawn, <<m, n>>) = (((drawn \ Lost(m)) \cup m.up) \ Lost(n)) \cup n.up
<1> DEFINE r == <<m, n>>
<1>1. Len(r) = 2 /\ DOMAIN r = {1, 2} /\ r[1] = m /\ r[2] = n
  OBVIOUS
<1>2. LostIn(r) = Lost(m) \cup Lost(n)
  BY <1>1 DEF LostIn
<1>3. UpIn(r) = (m.up \ Lost(n)) \cup n.up
  <2>1. 1 + 1 .. Len(r) = {2} /\ 2 + 1 .. Len(r) = {}
    BY <1>1
  <2>2. UNION {Lost(r[j]) : j \in 1 + 1 .. Len(r)} = Lost(n)
    BY <2>1, <1>1
  <2>3. UNION {Lost(r[j]) : j \in 2 + 1 .. Len(r)} = {}
    BY <2>1
  <2> QED BY <2>2, <2>3, <1>1 DEF UpIn
<1> QED BY <1>2, <1>3 DEF Shown

\* What is drawn are units of the fight.
LEMMA WillTyped == WillStand \in SUBSET Orders
BY DEF WillStand

\* A reply puts up units of the fight.
LEMMA UpTyped ==
  ASSUME NEW reply \in Seq(Message)
  PROVE  UpIn(reply) \in SUBSET Orders
<1>1. ASSUME NEW i \in DOMAIN reply
      PROVE  reply[i].up \in SUBSET Orders
  <2>1. reply[i] \in Message
    BY ElementOfSeq, LenProperties
  <2> QED BY <2>1 DEF Message
<1> QED BY <1>1 DEF UpIn

\* Sending a reply does to the field that will be drawn what reading it does
\* to the field that is.
LEMMA WillSend ==
  ASSUME inbox \in Seq(Seq(Message)), NEW reply \in Seq(Message),
         inbox' = Append(inbox, reply), standing' = standing
  PROVE  WillStand' = Shown(WillStand, reply)
<1> DEFINE N == Len(inbox)
<1>1. /\ N \in Nat /\ Len(inbox') = N + 1 /\ inbox'[N + 1] = reply
      /\ \A k \in 1 .. N : inbox'[k] = inbox[k]
  BY AppendProperties, LenProperties
<1>2. ASSUME NEW o, NEW n \in 1 .. N + 1
      PROVE  KeptFrom(o, n)' <=> KeptFrom(o, n) /\ o \notin LostIn(reply)
  <2>1. KeptFrom(o, n)' <=> \A k \in n .. N + 1 : o \notin LostIn(inbox'[k])
    BY <1>1 DEF KeptFrom, LostIn
  <2>2. \A k \in n .. N + 1 : k \in n .. N \/ k = N + 1
    BY <1>1
  <2>3. \A k \in n .. N : k \in 1 .. N /\ k \in n .. N + 1
    BY <1>1
  <2>4. N + 1 \in n .. N + 1
    BY <1>1
  <2> QED BY <2>1, <2>2, <2>3, <2>4, <1>1 DEF KeptFrom
<1>3. ASSUME NEW o, NEW n \in Nat, n > N + 1
      PROVE  KeptFrom(o, n)'
  <2>1. n .. N + 1 = {}
    BY <1>1, <1>3
  <2>2. KeptFrom(o, n)' <=> \A k \in n .. N + 1 : o \notin LostIn(inbox'[k])
    BY <1>1 DEF KeptFrom, LostIn
  <2> QED BY <2>1, <2>2
<1>4. ASSUME NEW o \in Orders
      PROVE  o \in WillStand' <=> o \in Shown(WillStand, reply)
  <2>1. o \in WillStand' <=> \/ o \in standing /\ KeptFrom(o, 1)'
                            \/ \E n \in 1 .. N + 1 : o \in UpIn(inbox'[n]) /\ KeptFrom(o, n + 1)'
    BY <1>1 DEF WillStand, KeptFrom, UpIn
  <2>2. KeptFrom(o, 1)' <=> KeptFrom(o, 1) /\ o \notin LostIn(reply)
    BY <1>1, <1>2
  <2>3. (\E n \in 1 .. N + 1 : o \in UpIn(inbox'[n]) /\ KeptFrom(o, n + 1)')
        <=> \/ \E n \in 1 .. N : o \in UpIn(inbox[n]) /\ KeptFrom(o, n + 1) /\ o \notin LostIn(reply)
            \/ o \in UpIn(reply)
    <3>1. \A n \in 1 .. N : n + 1 \in 1 .. N + 1 /\ n \in 1 .. N + 1
      BY <1>1
    <3>2. \A n \in 1 .. N + 1 : n \in 1 .. N \/ n = N + 1
      BY <1>1
    <3>3. N + 1 \in 1 .. N + 1 /\ (N + 1) + 1 = N + 2
      BY <1>1
    <3>4. \A n \in 1 .. N : KeptFrom(o, n + 1)' <=> KeptFrom(o, n + 1) /\ o \notin LostIn(reply)
      BY <3>1, <1>2
    <3>5. \A n \in 1 .. N : UpIn(inbox'[n]) = UpIn(inbox[n])
      BY <1>1
    <3>6. UpIn(inbox'[N + 1]) = UpIn(reply)
      BY <1>1
    <3>7. ASSUME NEW n \in 1 .. N + 1, n = N + 1
          PROVE  KeptFrom(o, n + 1)'
      BY <3>7, <1>1, <1>3
    <3>8. ASSUME NEW n \in 1 .. N + 1, o \in UpIn(inbox'[n]), KeptFrom(o, n + 1)'
          PROVE  \/ \E k \in 1 .. N : o \in UpIn(inbox[k]) /\ KeptFrom(o, k + 1) /\ o \notin LostIn(reply)
                 \/ o \in UpIn(reply)
      <4>1. CASE n \in 1 .. N
        BY <4>1, <3>4, <3>5, <3>8
      <4>2. CASE n = N + 1
        BY <4>2, <3>6, <3>8
      <4> QED BY <3>2, <4>1, <4>2
    <3>9. ASSUME NEW n \in 1 .. N, o \in UpIn(inbox[n]), KeptFrom(o, n + 1), o \notin LostIn(reply)
          PROVE  \E k \in 1 .. N + 1 : o \in UpIn(inbox'[k]) /\ KeptFrom(o, k + 1)'
      BY <3>1, <3>4, <3>5, <3>9
    <3>10. ASSUME o \in UpIn(reply)
           PROVE  \E k \in 1 .. N + 1 : o \in UpIn(inbox'[k]) /\ KeptFrom(o, k + 1)'
      <4>1. PICK n \in 1 .. N + 1 : n = N + 1
        BY <3>3
      <4> QED BY <4>1, <3>6, <3>7, <3>10
    <3> HIDE DEF N
    <3> QED BY <3>8, <3>9, <3>10
  <2> QED BY <2>1, <2>2, <2>3 DEF WillStand, Shown
<1>5. Shown(WillStand, reply) \in SUBSET Orders
  BY UpTyped DEF Shown, WillStand
<1>6. WillStand' \in SUBSET Orders
  BY DEF WillStand
<1> QED BY <1>4, <1>5, <1>6

\* Reading a reply leaves what will be drawn as it was.
LEMMA WillRead ==
  ASSUME inbox \in Seq(Seq(Message)), inbox # <<>>,
         inbox' = Tail(inbox), standing' = Shown(standing, Head(inbox))
  PROVE  WillStand' = WillStand
<1> DEFINE N == Len(inbox)
<1>1. /\ N \in Nat \ {0} /\ Len(inbox') = N - 1 /\ Head(inbox) = inbox[1]
      /\ \A k \in 1 .. N - 1 : inbox'[k] = inbox[k + 1]
  BY HeadTailProperties, LenProperties, EmptySeq
<1>2. ASSUME NEW o, NEW n \in 1 .. N
      PROVE  KeptFrom(o, n)' <=> KeptFrom(o, n + 1)
  <2>1. KeptFrom(o, n)' <=> \A k \in n .. N - 1 : o \notin LostIn(inbox'[k])
    BY <1>1 DEF KeptFrom, LostIn
  <2>2. \A k \in n .. N - 1 : k \in 1 .. N - 1 /\ k + 1 \in n + 1 .. N
    BY <1>1
  <2>3. \A k \in n + 1 .. N : k - 1 \in n .. N - 1 /\ (k - 1) + 1 = k
    BY <1>1
  <2> QED BY <2>1, <2>2, <2>3, <1>1 DEF KeptFrom
<1>3. ASSUME NEW o
      PROVE  KeptFrom(o, 1) <=> o \notin LostIn(inbox[1]) /\ KeptFrom(o, 2)
  <2>1. \A k \in 1 .. N : k = 1 \/ k \in 2 .. N
    BY <1>1
  <2>2. 1 \in 1 .. N /\ \A k \in 2 .. N : k \in 1 .. N
    BY <1>1
  <2> QED BY <2>1, <2>2 DEF KeptFrom
<1>4. ASSUME NEW o \in Orders
      PROVE  o \in WillStand' <=> o \in WillStand
  <2>1. o \in WillStand' <=> \/ o \in standing' /\ KeptFrom(o, 1)'
                            \/ \E n \in 1 .. N - 1 : o \in UpIn(inbox'[n]) /\ KeptFrom(o, n + 1)'
    BY <1>1 DEF WillStand, KeptFrom, UpIn
  <2>2. KeptFrom(o, 1)' <=> KeptFrom(o, 2)
    BY <1>1, <1>2
  <2>3. (\E n \in 1 .. N - 1 : o \in UpIn(inbox'[n]) /\ KeptFrom(o, n + 1)')
        <=> \E n \in 2 .. N : o \in UpIn(inbox[n]) /\ KeptFrom(o, n + 1)
    <3>1. \A n \in 1 .. N - 1 : n + 1 \in 1 .. N /\ n + 1 \in 2 .. N
      BY <1>1
    <3>2. \A n \in 2 .. N : n - 1 \in 1 .. N - 1 /\ (n - 1) + 1 = n
      BY <1>1
    <3>3. \A n \in 1 .. N - 1 : KeptFrom(o, n + 1)' <=> KeptFrom(o, (n + 1) + 1)
      BY <3>1, <1>2
    <3>4. \A n \in 1 .. N - 1 : UpIn(inbox'[n]) = UpIn(inbox[n + 1])
      BY <1>1
    <3>5. ASSUME NEW n \in 2 .. N, o \in UpIn(inbox[n]), KeptFrom(o, n + 1)
          PROVE  \E k \in 1 .. N - 1 : o \in UpIn(inbox'[k]) /\ KeptFrom(o, k + 1)'
      <4>1. n - 1 \in 1 .. N - 1 /\ (n - 1) + 1 = n
        BY <3>2
      <4>2. o \in UpIn(inbox'[n - 1]) /\ KeptFrom(o, (n - 1) + 1)'
        BY <4>1, <3>3, <3>4, <3>5
      <4> QED BY <4>1, <4>2
    <3> QED BY <3>1, <3>3, <3>4, <3>5
  <2>4. o \in standing' <=> (o \in standing /\ o \notin LostIn(inbox[1])) \/ o \in UpIn(inbox[1])
    BY <1>1 DEF Shown
  <2>5. o \in WillStand <=> \/ o \in standing /\ o \notin LostIn(inbox[1]) /\ KeptFrom(o, 2)
                            \/ o \in UpIn(inbox[1]) /\ KeptFrom(o, 2)
                            \/ \E n \in 2 .. N : o \in UpIn(inbox[n]) /\ KeptFrom(o, n + 1)
    <3>1. \A n \in 1 .. N : n = 1 \/ n \in 2 .. N
      BY <1>1
    <3>2. 1 \in 1 .. N /\ 1 + 1 = 2 /\ \A n \in 2 .. N : n \in 1 .. N
      BY <1>1
    <3>3. o \in WillStand <=> \/ o \in standing /\ KeptFrom(o, 1)
                             \/ \E n \in 1 .. N : o \in UpIn(inbox[n]) /\ KeptFrom(o, n + 1)
      BY DEF WillStand
    <3> QED BY <3>1, <3>2, <3>3, <1>3
  <2> QED BY <2>1, <2>2, <2>3, <2>4, <2>5
<1> QED BY <1>4 DEF WillStand

\* With nothing on its way the field that will be drawn is the field drawn.
LEMMA WillRest ==
  ASSUME inbox = <<>>, standing \in SUBSET Orders
  PROVE  WillStand = standing
BY DEF WillStand, KeptFrom

-----------------------------------------------------------------------------
(* What the handlers leave behind.                                         *)

OnlyPush(reply) ==
  \A i, j \in DOMAIN reply :
    i # j /\ reply[i].cmd \in Pushes /\ reply[j].cmd \in Pushes
      => reply = <<Msg("WaveBegin"), Msg("StartTurn")>>

GoodReply(reply) ==
  reply \in Seq(Message) /\ Len(reply) \in 1 .. 2 /\ OnlyPush(reply)

\* A step sends one reply or none.
Fed == inbox' = inbox \/ \E reply : GoodReply(reply) /\ inbox' = Append(inbox, reply)

Served(b) ==
  /\ battle' \in Battle
  /\ battle'.actor \in Seats(battle'.alive)
  /\ battle'.wave = b.wave
  /\ Fed

\* What a handler sends beside a row: nothing, or one message that pushes
\* nothing and moves nobody.
Quiet(m) == m \in Message /\ m.cmd \notin Pushes /\ Lost(m) = {} /\ m.up = {}
Answer(a) == a = <<>> \/ \E m : Quiet(m) /\ a = <<m>>

\* Sending nothing leaves the inbox, anything else is appended.
LEMMA SendFacts ==
  ASSUME NEW reply, Send(reply)
  PROVE  /\ reply = <<>> => inbox' = inbox
         /\ reply # <<>> => inbox' = Append(inbox, reply)
BY DEF Send

\* Replies of one message, and of two of which one pushes.
LEMMA GoodOne ==
  ASSUME NEW m \in Message
  PROVE  GoodReply(<<m>>) /\ <<m>> # <<>>
BY DEF GoodReply, OnlyPush

\* Two messages of which one pushes nothing make a good reply.
LEMMA GoodTwo ==
  ASSUME NEW m \in Message, NEW n \in Message,
         m.cmd \notin Pushes \/ n.cmd \notin Pushes
  PROVE  GoodReply(<<m, n>>) /\ <<m, n>> # <<>>
BY DEF GoodReply, OnlyPush

\* The messages that may stand beside a row.
LEMMA QuietFacts ==
  /\ \A c \in {"Judge", "AutoSet", "CharInfo", "Retreat"} : Quiet(Msg(c))
  /\ \A b : fight \in Fights => Quiet(WaveEnd(b))
<1>1. ASSUME NEW c \in {"Judge", "AutoSet", "CharInfo", "Retreat"}
      PROVE  Quiet(Msg(c))
  <2>1. c \in Cmds /\ c \notin Pushes /\ c # "NextWave"
    BY DEF Cmds, Pushes
  <2> QED BY <2>1, MsgFacts DEF Quiet, Lost, Plain
<1>2. ASSUME NEW b, fight \in Fights
      PROVE  Quiet(WaveEnd(b))
  BY <1>2, WaveEndFacts DEF Quiet, Lost, Plain, Pushes
<1> QED BY <1>1, <1>2

\* Short sequences written out.
LEMMA PairShapes ==
  ASSUME NEW S, NEW h \in S, NEW m \in S
  PROVE  /\ <<h>> \o <<m>> = <<h, m>> /\ Append(<<h>>, m) = <<h, m>>
         /\ <<h>> \o <<>> = <<h>> /\ Append(<<>>, h) = <<h>>
         /\ <<h, m>> # <<>> /\ <<h>> # <<>>
<1> DEFINE s == <<h>> \o <<m>>
           t == Append(<<h>>, m)
           u == <<h, m>>
<1>1. /\ <<h>> \in Seq(S) /\ Len(<<h>>) = 1 /\ <<h>>[1] = h
      /\ <<m>> \in Seq(S) /\ Len(<<m>>) = 1 /\ <<m>>[1] = m
      /\ u \in Seq(S) /\ Len(u) = 2 /\ u[1] = h /\ u[2] = m
  OBVIOUS
<1>2. s \in Seq(S) /\ Len(s) = 2 /\ s[1] = h /\ s[2] = m
  BY <1>1, ConcatProperties
<1>3. t \in Seq(S) /\ Len(t) = 2 /\ t[1] = h /\ t[2] = m
  BY <1>1, AppendProperties
<1>4. <<h>> \o <<>> = <<h>> /\ Append(<<>>, h) = <<h>> /\ <<h, m>> # <<>> /\ <<h>> # <<>>
  BY EmptySeq
<1> HIDE DEF s, t, u
<1>5. s = u /\ t = u
  <2>1. \A i \in 1 .. Len(u) : s[i] = u[i] /\ t[i] = u[i]
    BY <1>1, <1>2, <1>3
  <2>2. s = u
    BY <1>1, <1>2, <2>1, SeqEqual
  <2>3. t = u
    BY <1>1, <1>3, <2>1, SeqEqual
  <2> QED BY <2>2, <2>3
<1> QED BY <1>4, <1>5 DEF s, t, u

\* Rows name units of the fight and a wave of the stage.
LEMMA RowFacts ==
  ASSUME NEW b \in Battle, NEW r \in Due(b)
  PROVE  r \in Row /\ r \in b.queue /\ r.order \in Orders /\ r.die \in BOOLEAN
BY DEF Due, Battle, Row

\* A drain answers with the next row, then the rest; nothing else changes.
LEMMA DrainSteps ==
  ASSUME NEW b \in Battle, NEW a, Answer(a), Drained(b, a)
  PROVE  \/ /\ Due(b) = {}
            /\ battle' = [b EXCEPT !.queue = {}]
            /\ a = <<>> => inbox' = inbox
            /\ a # <<>> => inbox' = Append(inbox, a)
         \/ \E r \in Due(b) :
              /\ DeathsDue(b) # {} => r \in DeathsDue(b)
              /\ battle' = [b EXCEPT !.queue = @ \ {r}]
              /\ LET h == Hit(IF r.die THEN {r.order} ELSE {}, {})
                 IN /\ a = <<>> => inbox' = Append(inbox, <<h>>)
                    /\ \A m \in Message : a = <<m>> => inbox' = Append(inbox, <<h, m>>)
<1>1. CASE Due(b) = {}
  BY <1>1, SendFacts DEF Drained
<1>2. CASE Due(b) # {}
  <2>1. PICK r \in IF DeathsDue(b) = {} THEN Due(b) ELSE DeathsDue(b) :
          /\ battle' = [b EXCEPT !.queue = @ \ {r}]
          /\ Send(<<Hit(IF r.die THEN {r.order} ELSE {}, {})>> \o a)
    BY <1>2 DEF Drained
  <2>2. r \in Due(b) /\ (DeathsDue(b) # {} => r \in DeathsDue(b))
    BY <2>1 DEF DeathsDue
  <2> DEFINE h == Hit(IF r.die THEN {r.order} ELSE {}, {})
  <2>0. h \in Message
    BY <2>2, RowFacts, MsgFacts
  <2> HIDE DEF h
  <2>3. Send(<<h>> \o a)
    BY <2>1 DEF h
  <2>4. ASSUME a = <<>>
        PROVE  inbox' = Append(inbox, <<h>>)
    <3>1. <<h>> \o <<>> = <<h>> /\ <<h>> # <<>>
      BY <2>0, PairShapes
    <3>2. Send(<<h>>)
      BY <2>3, <2>4, <3>1
    <3> QED BY <3>1, <3>2, SendFacts
  <2>5. ASSUME NEW m \in Message, a = <<m>>
        PROVE  inbox' = Append(inbox, <<h, m>>)
    <3>1. <<h>> \o <<m>> = <<h, m>> /\ <<h, m>> # <<>>
      BY <2>0, PairShapes
    <3>2. Send(<<h, m>>)
      BY <2>3, <2>5, <3>1
    <3> QED BY <3>1, <3>2, SendFacts
  <2> QED BY <2>1, <2>2, <2>4, <2>5 DEF h
<1> QED BY <1>1, <1>2

\* A drain serves the request.
LEMMA DrainServes ==
  ASSUME NEW b \in Battle, NEW a, Answer(a), Drained(b, a), b.actor \in Seats(b.alive)
  PROVE  Served(b)
<1>1. CASE /\ Due(b) = {}
           /\ battle' = [b EXCEPT !.queue = {}]
           /\ a = <<>> => inbox' = inbox
           /\ a # <<>> => inbox' = Append(inbox, a)
  <2>1. battle' \in Battle /\ battle'.actor = b.actor /\ battle'.alive = b.alive
        /\ battle'.wave = b.wave
    BY <1>1 DEF Battle
  <2>2. Fed
    <3>1. CASE a = <<>>
      BY <3>1, <1>1 DEF Fed
    <3>2. CASE a # <<>>
      BY <3>2, <1>1, GoodOne DEF Fed, Answer, Quiet
    <3> QED BY <3>1, <3>2
  <2> QED BY <2>1, <2>2 DEF Served
<1>2. ASSUME NEW r \in Due(b),
             battle' = [b EXCEPT !.queue = @ \ {r}],
             LET h == Hit(IF r.die THEN {r.order} ELSE {}, {})
             IN /\ a = <<>> => inbox' = Append(inbox, <<h>>)
                /\ \A m \in Message : a = <<m>> => inbox' = Append(inbox, <<h, m>>)
      PROVE  Served(b)
  <2>1. battle' \in Battle /\ battle'.actor = b.actor /\ battle'.alive = b.alive
        /\ battle'.wave = b.wave
    BY <1>2 DEF Battle
  <2> DEFINE h == Hit(IF r.die THEN {r.order} ELSE {}, {})
  <2>2. h \in Message
    BY RowFacts, MsgFacts
  <2>3. Fed
    <3>1. CASE a = <<>>
      BY <3>1, <1>2, <2>2, GoodOne DEF Fed
    <3>2. CASE a # <<>>
      <4>1. PICK m : Quiet(m) /\ a = <<m>>
        BY <3>2 DEF Answer
      <4>2. inbox' = Append(inbox, <<h, m>>)
        BY <4>1, <1>2 DEF Quiet
      <4> HIDE DEF h
      <4>3. GoodReply(<<h, m>>)
        BY <4>1, <2>2, GoodTwo DEF Quiet
      <4> QED BY <4>2, <4>3 DEF Fed
    <3> QED BY <3>1, <3>2
  <2> QED BY <2>1, <2>3 DEF Served
<1> QED BY <1>1, <1>2, DrainSteps

\* The start of a turn kills, burns, raises and seats.
LEMMA TurnSteps ==
  ASSUME fight \in Fights, NEW b \in Battle, StartOfTurn(b)
  PROVE  \E dead \in SUBSET b.alive, burnt \in SUBSET b.alive, back \in SUBSET Orders :
           /\ fight.revives = FALSE => back = {}
           /\ \E next \in Seats((b.alive \ dead) \cup back) :
                battle' = [b EXCEPT !.alive = (b.alive \ dead) \cup back,
                                    !.queue = b.queue \cup Rows(b, dead, burnt),
                                    !.actor = next]
<1>1. PICK dead \in SUBSET b.alive :
        \E burnt \in {s \in SUBSET (b.alive \ dead) : Cardinality(s) <= fight.burns},
           back \in IF fight.revives THEN SUBSET (fight.party \ (b.alive \ dead)) ELSE {{}} :
        \E next \in Seats((b.alive \ dead) \cup back) :
          battle' = [b EXCEPT !.alive = (@ \ dead) \cup back,
                              !.queue = @ \cup Rows(b, dead, burnt),
                              !.actor = next]
  BY DEF StartOfTurn
<1>2. PICK burnt \in {s \in SUBSET (b.alive \ dead) : Cardinality(s) <= fight.burns},
           back \in IF fight.revives THEN SUBSET (fight.party \ (b.alive \ dead)) ELSE {{}} :
        \E next \in Seats((b.alive \ dead) \cup back) :
          battle' = [b EXCEPT !.alive = (@ \ dead) \cup back,
                              !.queue = @ \cup Rows(b, dead, burnt),
                              !.actor = next]
  BY <1>1
<1>3. burnt \in SUBSET b.alive /\ back \in SUBSET Orders
      /\ (fight.revives = FALSE => back = {})
  BY <1>2, SettingFacts DEF Orders
<1> QED BY <1>2, <1>3

\* The start of a turn keeps the types and seats one of the living.
LEMMA TurnServes ==
  ASSUME fight \in Fights, NEW b \in Battle, StartOfTurn(b)
  PROVE  /\ battle' \in Battle
         /\ battle'.actor \in Seats(battle'.alive)
         /\ battle'.wave = b.wave
         /\ battle'.turnOpen = b.turnOpen /\ battle'.waveBegun = b.waveBegun
         /\ battle'.auto = b.auto
<1>1. PICK dead \in SUBSET b.alive, burnt \in SUBSET b.alive, back \in SUBSET Orders :
        \E next \in Seats((b.alive \ dead) \cup back) :
          battle' = [b EXCEPT !.alive = (b.alive \ dead) \cup back,
                              !.queue = b.queue \cup Rows(b, dead, burnt),
                              !.actor = next]
  BY TurnSteps
<1>2. PICK next \in Seats((b.alive \ dead) \cup back) :
        battle' = [b EXCEPT !.alive = (b.alive \ dead) \cup back,
                            !.queue = b.queue \cup Rows(b, dead, burnt),
                            !.actor = next]
  BY <1>1
<1>3. b.alive \in SUBSET Orders /\ b.queue \in SUBSET Row /\ b.wave \in 1 .. WaveMax
  BY DEF Battle
<1>4. Rows(b, dead, burnt) \in SUBSET Row
  BY <1>3 DEF Rows, Row
<1>5. next \in Orders \cup {NoOne}
  BY <1>3 DEF Seats
<1> DEFINE up == (b.alive \ dead) \cup back
           rows == b.queue \cup Rows(b, dead, burnt)
<1>6. up \in SUBSET Orders /\ rows \in SUBSET Row /\ next \in Seats(up)
  BY <1>3, <1>4
<1>7. battle' = [b EXCEPT !.alive = up, !.queue = rows, !.actor = next]
  BY <1>2
<1> HIDE DEF up, rows
<1>8. battle' \in Battle
  BY <1>5, <1>6, <1>7 DEF Battle
<1>9. /\ battle'.alive = up /\ battle'.actor = next /\ battle'.wave = b.wave
      /\ battle'.turnOpen = b.turnOpen /\ battle'.waveBegun = b.waveBegun
      /\ battle'.auto = b.auto
  BY <1>7 DEF Battle
<1> QED BY <1>6, <1>8, <1>9

\* A move tells what it did after what the reply already holds, and the
\* housekeeping starts from the field it leaves.
LEMMA MoveSteps ==
  ASSUME fight \in Fights, NEW b \in Battle, NEW before, Answer(before), Move(b, before)
  PROVE  \E dead, raised \in SUBSET Orders :
           LET c == [b EXCEPT !.alive = (b.alive \ dead) \cup raised, !.turnOpen = FALSE]
           IN /\ c \in Battle
              /\ c.alive = (b.alive \ dead) \cup raised
              /\ c.queue = b.queue /\ c.wave = b.wave /\ c.auto = b.auto
              /\ c.turnOpen = FALSE
              /\ StartOfTurn(c)
              /\ before = <<>> => inbox' = Append(inbox, <<Hit(dead, raised)>>)
              /\ \A m \in Message : before = <<m>> => inbox' = Append(inbox, <<m, Hit(dead, raised)>>)
<1>1. PICK dead \in SUBSET b.alive,
           raised \in IF PlayerTurn(b) THEN SUBSET (fight.party \ b.alive) ELSE {{}} :
        /\ EndTurn([b EXCEPT !.alive = (@ \ dead) \cup raised])
        /\ Send(Append(before, Hit(dead, raised)))
  BY DEF Move
<1>2. dead \in SUBSET Orders /\ raised \in SUBSET Orders /\ b.alive \in SUBSET Orders
  BY SettingFacts DEF Battle, Orders
<1> DEFINE c == [b EXCEPT !.alive = (b.alive \ dead) \cup raised, !.turnOpen = FALSE]
           h == Hit(dead, raised)
<1>3. StartOfTurn(c)
  <2> DEFINE x == (b.alive \ dead) \cup raised
  <2>1. [[b EXCEPT !.alive = (@ \ dead) \cup raised] EXCEPT !.turnOpen = FALSE] = c
    <3>1. [b EXCEPT !.alive = (@ \ dead) \cup raised] = [b EXCEPT !.alive = x]
      BY DEF Battle
    <3> HIDE DEF x
    <3>2. [[b EXCEPT !.alive = x] EXCEPT !.turnOpen = FALSE]
          = [b EXCEPT !.alive = x, !.turnOpen = FALSE]
      BY DEF Battle
    <3> QED BY <3>1, <3>2 DEF x
  <2> QED BY <1>1, <2>1 DEF EndTurn
<1>4. /\ c \in Battle
      /\ c.alive = (b.alive \ dead) \cup raised
      /\ c.queue = b.queue /\ c.wave = b.wave /\ c.auto = b.auto /\ c.turnOpen = FALSE
  BY <1>2 DEF Battle
<1>0. h \in Message
  BY <1>2, MsgFacts
<1> HIDE DEF h
<1>5. Send(Append(before, h))
  BY <1>1 DEF h
<1>6. ASSUME before = <<>>
      PROVE  inbox' = Append(inbox, <<h>>)
  <2>1. Append(<<>>, h) = <<h>> /\ <<h>> # <<>>
    BY <1>0, PairShapes
  <2>2. Send(<<h>>)
    BY <1>5, <1>6, <2>1
  <2> QED BY <2>1, <2>2, SendFacts
<1>7. ASSUME NEW m \in Message, before = <<m>>
      PROVE  inbox' = Append(inbox, <<m, h>>)
  <2>1. Append(<<m>>, h) = <<m, h>> /\ <<m, h>> # <<>>
    BY <1>0, PairShapes
  <2>2. Send(<<m, h>>)
    BY <1>5, <1>7, <2>1
  <2> QED BY <2>1, <2>2, SendFacts
<1> QED BY <1>2, <1>3, <1>4, <1>6, <1>7 DEF h

\* A move serves the request.
LEMMA MoveServes ==
  ASSUME fight \in Fights, NEW b \in Battle, NEW before, Answer(before), Move(b, before)
  PROVE  Served(b)
<1>1. PICK dead \in SUBSET Orders, raised \in SUBSET Orders :
           LET c == [b EXCEPT !.alive = (b.alive \ dead) \cup raised, !.turnOpen = FALSE]
           IN /\ c \in Battle
              /\ c.alive = (b.alive \ dead) \cup raised
              /\ c.queue = b.queue /\ c.wave = b.wave /\ c.auto = b.auto
              /\ c.turnOpen = FALSE
              /\ StartOfTurn(c)
              /\ before = <<>> => inbox' = Append(inbox, <<Hit(dead, raised)>>)
              /\ \A m \in Message : before = <<m>> => inbox' = Append(inbox, <<m, Hit(dead, raised)>>)
  BY MoveSteps
<1>2. /\ battle' \in Battle
      /\ battle'.actor \in Seats(battle'.alive)
      /\ battle'.wave = b.wave
  BY <1>1, TurnServes
<1> DEFINE h == Hit(dead, raised)
<1>3. h \in Message
  BY MsgFacts
<1>4. before = <<>> => inbox' = Append(inbox, <<h>>)
  BY <1>1
<1>5. \A m \in Message : before = <<m>> => inbox' = Append(inbox, <<m, h>>)
  BY <1>1
<1> HIDE DEF h
<1>6. CASE before = <<>>
  BY <1>3, <1>4, <1>6, GoodOne, <1>2 DEF Fed, Served
<1>7. CASE before # <<>>
  <2>1. PICK m : Quiet(m) /\ before = <<m>>
    BY <1>7 DEF Answer
  <2>2. inbox' = Append(inbox, <<m, h>>) /\ GoodReply(<<m, h>>)
    BY <2>1, <1>3, <1>5, GoodTwo DEF Quiet
  <2> QED BY <2>2, <1>2 DEF Fed, Served
<1> QED BY <1>6, <1>7

\* Opening a turn: the turn's messages, or the drain of one that is open.
LEMMA OpenSteps ==
  ASSUME NEW b \in Battle, OpenTurn(b)
  PROVE  \/ b.turnOpen /\ Drained(b, <<>>)
         \/ /\ ~b.turnOpen
            /\ battle' = [b EXCEPT !.turnOpen = TRUE, !.waveBegun = TRUE]
            /\ \E reply : AnswersTurn(reply) /\ inbox' = Append(inbox, reply)
<1>1. CASE b.turnOpen
  BY <1>1 DEF OpenTurn
<1>2. CASE ~b.turnOpen
  <2> DEFINE w == Msg("WaveBegin")
             t == Msg("StartTurn")
             reply == (IF b.waveBegun THEN <<>> ELSE <<w>>) \o <<t>>
  <2>1. battle' = [b EXCEPT !.turnOpen = TRUE, !.waveBegun = TRUE] /\ Send(reply)
    BY <1>2 DEF OpenTurn
  <2>2. w \in Message /\ t \in Message
    BY MsgFacts DEF Cmds, Pushes
  <2> HIDE DEF w, t
  <2>3. <<>> \o <<t>> = <<t>> /\ <<w>> \o <<t>> = <<w, t>>
    BY <2>2, PairShapes
  <2>4. reply \in {<<t>>, <<w, t>>} /\ reply # <<>>
    BY <2>2, <2>3, PairShapes DEF Battle
  <2>5. AnswersTurn(reply)
    BY <2>4 DEF AnswersTurn, w, t
  <2> HIDE DEF reply
  <2>6. inbox' = Append(inbox, reply)
    BY <2>1, <2>4, SendFacts
  <2> QED BY <1>2, <2>1, <2>5, <2>6
<1> QED BY <1>1, <1>2

\* The one pair of pushes, and the push alone, are good replies.
LEMMA TurnReplyFacts ==
  ASSUME NEW reply, AnswersTurn(reply)
  PROVE  GoodReply(reply)
<1> DEFINE w == Msg("WaveBegin")
           t == Msg("StartTurn")
<1>1. w \in Message /\ t \in Message
  BY MsgFacts DEF Cmds, Pushes
<1>2. reply = <<t>> \/ reply = <<w, t>>
  BY DEF AnswersTurn
<1>3. CASE reply = <<t>>
  BY <1>1, <1>3, GoodOne
<1>4. CASE reply = <<w, t>>
  <2> HIDE DEF w, t
  <2>1. reply \in Seq(Message) /\ Len(reply) \in 1 .. 2
    BY <1>1, <1>4
  <2>2. OnlyPush(reply)
    BY <1>4 DEF OnlyPush, w, t
  <2> QED BY <2>1, <2>2 DEF GoodReply
<1> QED BY <1>2, <1>3, <1>4

\* Opening a turn serves the request.
LEMMA OpenServes ==
  ASSUME NEW b \in Battle, OpenTurn(b), b.actor \in Seats(b.alive)
  PROVE  Served(b)
<1>1. CASE b.turnOpen /\ Drained(b, <<>>)
  BY <1>1, DrainServes DEF Answer
<1>2. CASE /\ battle' = [b EXCEPT !.turnOpen = TRUE, !.waveBegun = TRUE]
           /\ \E reply : AnswersTurn(reply) /\ inbox' = Append(inbox, reply)
  <2>1. battle' \in Battle /\ battle'.actor = b.actor /\ battle'.alive = b.alive
        /\ battle'.wave = b.wave
    BY <1>2 DEF Battle
  <2>2. Fed
    BY <1>2, TurnReplyFacts DEF Fed
  <2> QED BY <2>1, <2>2 DEF Served
<1> QED BY <1>1, <1>2, OpenSteps

\* An auto or an enemy turn serves the request.
LEMMA PlayServes ==
  ASSUME fight \in Fights, NEW b \in Battle, NEW before, Answer(before),
         PlayTurn(b, before), b.actor \in Seats(b.alive)
  PROVE  Served(b)
BY DrainServes, MoveServes DEF PlayTurn

\* A judge serves the request.
LEMMA JudgeServes ==
  ASSUME fight \in Fights, NEW b \in Battle, Judge(b), b.actor \in Seats(b.alive)
  PROVE  Served(b)
<1>1. Answer(<<>>) /\ Answer(<<Msg("Judge")>>) /\ Answer(<<WaveEnd(b)>>)
  BY QuietFacts DEF Answer
<1>2. \/ Drained(b, <<>>) \/ Drained(b, <<WaveEnd(b)>>) \/ PlayTurn(b, <<>>)
      \/ PlayTurn(b, <<Msg("Judge")>>) \/ Drained(b, <<Msg("Judge")>>)
  BY DEF Judge
<1> QED BY <1>1, <1>2, DrainServes, PlayServes

\* The next wave: the party as it is, new mobs, and nothing queued.
LEMMA NextWaveSteps ==
  ASSUME NEW b \in Battle, b.wave < WaveMax, NextWave(b)
  PROVE  \E foes \in SUBSET Slots :
           LET m == [Msg("NextWave") EXCEPT !.up = foes]
           IN /\ battle' \in Battle
              /\ battle'.alive = (b.alive \cap Party) \cup foes
              /\ battle'.actor \in Seats(battle'.alive)
              /\ battle'.queue = {} /\ battle'.turnOpen = FALSE
              /\ battle'.auto = b.auto
              /\ m \in Message /\ m.cmd = "NextWave" /\ m.up = foes
              /\ inbox' = Append(inbox, <<m>>)
<1>1. PICK foes \in SUBSET Slots \ {{}} :
        \E next \in Seats((b.alive \cap Party) \cup foes) :
          /\ battle' = [b EXCEPT !.wave = @ + 1, !.alive = (@ \cap Party) \cup foes,
                                 !.queue = {}, !.actor = next,
                                 !.turnOpen = FALSE, !.waveBegun = FALSE]
          /\ Send(<<[Msg("NextWave") EXCEPT !.up = foes]>>)
  BY DEF NextWave
<1> DEFINE up == (b.alive \cap Party) \cup foes
           wave == b.wave + 1
           m == [Msg("NextWave") EXCEPT !.up = foes]
<1>2. PICK next \in Seats(up) :
        /\ battle' = [b EXCEPT !.wave = wave, !.alive = up, !.queue = {}, !.actor = next,
                               !.turnOpen = FALSE, !.waveBegun = FALSE]
        /\ Send(<<m>>)
  BY <1>1
<1>3. up \in SUBSET Orders /\ wave \in 1 .. WaveMax /\ foes \in SUBSET Orders
  BY FlowAssumption DEF FlowAssumption, Battle, Orders
<1>4. next \in Orders \cup {NoOne}
  BY <1>2, <1>3 DEF Seats
<1>5. m \in Message /\ m.cmd = "NextWave" /\ m.up = foes
  BY <1>3, MsgFacts
<1> HIDE DEF up, wave, m
<1>6. battle' \in Battle
  BY <1>2, <1>3, <1>4 DEF Battle
<1>7. /\ battle'.alive = up /\ battle'.actor = next /\ battle'.queue = {}
      /\ battle'.turnOpen = FALSE /\ battle'.auto = b.auto
  BY <1>2 DEF Battle
<1>8. inbox' = Append(inbox, <<m>>)
  BY <1>2, <1>5, SendFacts, PairShapes
<1> QED BY <1>1, <1>2, <1>5, <1>6, <1>7, <1>8 DEF up, m

-----------------------------------------------------------------------------
(* Types.                                                                  *)

\* A sent reply keeps the inbox a sequence of short replies.
LEMMA FedTyped ==
  ASSUME inbox \in Seq(Seq(Message)), Short, Fed
  PROVE  inbox' \in Seq(Seq(Message)) /\ Short'
<1>1. CASE inbox' = inbox
  BY <1>1 DEF Short
<1>2. ASSUME NEW reply, GoodReply(reply), inbox' = Append(inbox, reply)
      PROVE  inbox' \in Seq(Seq(Message)) /\ Short'
  <2>1. reply \in Seq(Message) /\ Len(reply) \in 1 .. 2
    BY <1>2 DEF GoodReply
  <2>2. /\ inbox' \in Seq(Seq(Message)) /\ Len(inbox') = Len(inbox) + 1
        /\ Len(inbox) \in Nat /\ inbox'[Len(inbox) + 1] = reply
        /\ \A n \in 1 .. Len(inbox) : inbox'[n] = inbox[n]
    BY <1>2, <2>1, AppendProperties, LenProperties
  <2>3. \A n \in 1 .. Len(inbox') : n \in 1 .. Len(inbox) \/ n = Len(inbox) + 1
    BY <2>2
  <2> QED BY <2>1, <2>2, <2>3 DEF Short
<1> QED BY <1>1, <1>2 DEF Fed

\* Reading a message moves the machine to one of its screens, and to the rush
\* only when the stage has a wave left.
LEMMA EntersFacts ==
  ASSUME fight \in Fights, NEW at \in Screens, NEW m \in Message,
         at = "rush" => battle.wave < WaveMax
  PROVE  /\ Enters(at, m) \in Screens
         /\ Enters(at, m) = "rush" => battle.wave < WaveMax
BY SettingFacts DEF Enters, Screens, Message, Cmds, Pushes

\* Every request the client makes is served: the fight stays in its types, a
\* living unit has the seat, and at most one reply goes out.
LEMMA AskServes ==
  ASSUME fight \in Fights, battle \in Battle, battle.actor \in Seats(battle.alive),
         prefAuto \in BOOLEAN,
         \/ AskTurn \/ AskJudge \/ PerformEnd \/ Tap \/ SetAuto
         \/ ReaskTurn \/ CharInfo \/ ReportError \/ Retreat
  PROVE  Served(battle)
<1> DEFINE b(auto) == [battle EXCEPT !.auto = auto]
<1>1. \A auto \in BOOLEAN : /\ b(auto) \in Battle /\ b(auto).actor = battle.actor
                            /\ b(auto).alive = battle.alive /\ b(auto).wave = battle.wave
  BY DEF Battle
<1>2. \A auto \in BOOLEAN : Served(b(auto)) => Served(battle)
  BY <1>1 DEF Served
<1>3. Answer(<<>>) /\ \A c \in {"AutoSet", "CharInfo", "Retreat"} : Answer(<<Msg(c)>>)
  BY QuietFacts DEF Answer
<1>4. CASE AskTurn
  <2>1. CASE OpenTurn(b(prefAuto))
    BY <2>1, <1>1, <1>2, OpenServes
  <2>2. CASE OpenTurn(battle)
    BY <2>2, OpenServes
  <2> QED BY <1>4, <2>1, <2>2 DEF AskTurn
<1>5. ASSUME NEW cmd \in {"Judge", "StartTurn"}, Ask(cmd)
      PROVE  Served(battle)
  <2>1. Judge(battle) \/ OpenTurn(battle)
    BY <1>5 DEF Ask
  <2> QED BY <2>1, JudgeServes, OpenServes
<1>6. CASE AskJudge
  BY <1>5, <1>6 DEF AskJudge
<1>7. CASE PerformEnd
  <2>1. fight.reasks \subseteq {"Judge", "StartTurn"}
    BY FlowAssumption DEF FlowAssumption, Setting
  <2> QED BY <1>5, <1>7, <2>1 DEF PerformEnd
<1>8. CASE Tap
  BY <1>8, <1>3, MoveServes DEF Tap, Attack
<1>9. CASE SetAuto
  <2> DEFINE c == b(~prefAuto)
  <2>1. PlayTurn(c, <<Msg("AutoSet")>>) \/ Drained(c, <<Msg("AutoSet")>>)
    BY <1>9 DEF SetAuto
  <2>2. c \in Battle /\ c.actor \in Seats(c.alive) /\ (Served(c) => Served(battle))
    BY <1>1, <1>2
  <2> HIDE DEF c
  <2> QED BY <2>1, <2>2, <1>3, PlayServes, DrainServes
<1>10. CASE ReaskTurn
  BY <1>10, OpenServes DEF ReaskTurn
<1>11. CASE CharInfo
  BY <1>11, <1>3, DrainServes DEF CharInfo
<1>12. CASE ReportError
  BY <1>12, <1>3, DrainServes DEF ReportError
<1>13. CASE Retreat
  BY <1>13, <1>3, DrainServes DEF Retreat
<1> QED BY <1>4, <1>6, <1>7, <1>8, <1>9, <1>10, <1>11, <1>12, <1>13

\* What such a request leaves alone.
LEMMA AskKeeps ==
  ASSUME fight \in Fights, screen \in Screens, prefAuto \in BOOLEAN,
         \/ AskTurn \/ AskJudge \/ PerformEnd \/ Tap \/ SetAuto
         \/ ReaskTurn \/ CharInfo \/ ReportError \/ Retreat
  PROVE  /\ fight' = fight /\ standing' = standing /\ prefAuto' \in BOOLEAN
         /\ screen' \in Screens /\ (screen' = "rush" => screen = "rush")
<1>1. fight.reasks \subseteq {"Judge", "StartTurn"}
  BY FlowAssumption DEF FlowAssumption, Setting
<1>2. \A cmd \in {"Judge", "StartTurn"} : Ask(cmd) => screen' \in {"judging", "asking"}
  BY DEF Ask
<1>3. CASE AskJudge
  BY <1>2, <1>3 DEF AskJudge, Screens
<1>4. CASE PerformEnd
  BY <1>1, <1>2, <1>4 DEF PerformEnd, Screens
<1>5. CASE AskTurn
  BY <1>5 DEF AskTurn, Screens
<1>6. CASE Tap
  BY <1>6 DEF Tap, Screens
<1>7. CASE SetAuto
  BY <1>7 DEF SetAuto
<1>8. CASE ReaskTurn \/ CharInfo \/ ReportError \/ Retreat
  BY <1>8 DEF ReaskTurn, CharInfo, ReportError, Retreat
<1> QED BY <1>3, <1>4, <1>5, <1>6, <1>7, <1>8

\* A fight starts in its types.
LEMMA TypedInit == Init => Typed
<1> SUFFICES ASSUME Init PROVE Typed
  OBVIOUS
<1>1. fight \in Fights /\ screen = "ready" /\ standing = battle.alive
      /\ prefAuto \in BOOLEAN /\ inbox = <<>>
  BY DEF Init
<1>2. PICK foes \in SUBSET Slots \ {{}} :
        \E first \in fight.party \cup foes :
          battle = [wave |-> 1, alive |-> fight.party \cup foes, actor |-> first,
                    queue |-> {}, turnOpen |-> FALSE, waveBegun |-> FALSE,
                    auto |-> FALSE]
  BY DEF Init
<1>3. fight.party \cup foes \in SUBSET Orders /\ 1 \in 1 .. WaveMax
  BY <1>1, SettingFacts, FlowAssumption DEF FlowAssumption, Orders
<1>4. battle \in Battle /\ battle.actor \in battle.alive
  BY <1>2, <1>3 DEF Battle
<1>5. battle.alive \in SUBSET Orders
  BY <1>4 DEF Battle
<1>6. SeatTaken
  BY <1>4 DEF SeatTaken, Seats
<1>7. inbox \in Seq(Seq(Message)) /\ Short
  BY <1>1 DEF Short
<1> QED BY <1>1, <1>4, <1>5, <1>6, <1>7 DEF Typed, TypeOK, WaveAhead, Screens

\* Every step keeps the types, for any client.
LEMMA TypedStep == Typed /\ [Next]_vars => Typed'
<1> SUFFICES ASSUME Typed, [Next]_vars PROVE Typed'
  OBVIOUS
<1>1. /\ fight \in Fights /\ battle \in Battle /\ screen \in Screens
      /\ standing \subseteq Orders /\ prefAuto \in BOOLEAN
      /\ inbox \in Seq(Seq(Message)) /\ Short
      /\ battle.actor \in Seats(battle.alive)
      /\ screen = "rush" => battle.wave < WaveMax
  BY DEF Typed, TypeOK, SeatTaken, WaveAhead
<1>2. CASE \/ AskTurn \/ AskJudge \/ PerformEnd \/ Tap \/ SetAuto
           \/ ReaskTurn \/ CharInfo \/ ReportError \/ Retreat
  <2>1. Served(battle)
    BY <1>1, <1>2, AskServes
  <2>2. /\ fight' = fight /\ standing' = standing /\ prefAuto' \in BOOLEAN
        /\ screen' \in Screens /\ (screen' = "rush" => screen = "rush")
    BY <1>1, <1>2, AskKeeps
  <2>3. inbox' \in Seq(Seq(Message)) /\ Short'
    BY <1>1, <2>1, FedTyped DEF Served
  <2> QED BY <1>1, <2>1, <2>2, <2>3 DEF Typed, TypeOK, SeatTaken, WaveAhead, Served
<1>3. CASE AskWave
  <2>1. screen = "rush" /\ NextWave(battle) /\ screen' = "arriving"
        /\ fight' = fight /\ standing' = standing /\ prefAuto' = prefAuto
    BY <1>3 DEF AskWave
  <2>2. PICK foes \in SUBSET Slots :
          LET m == [Msg("NextWave") EXCEPT !.up = foes]
          IN /\ battle' \in Battle /\ battle'.actor \in Seats(battle'.alive)
             /\ m \in Message /\ inbox' = Append(inbox, <<m>>)
    BY <1>1, <2>1, NextWaveSteps
  <2>3. Fed
    BY <2>2, GoodOne DEF Fed
  <2>4. inbox' \in Seq(Seq(Message)) /\ Short'
    BY <1>1, <2>3, FedTyped
  <2> QED BY <1>1, <2>1, <2>2, <2>4 DEF Typed, TypeOK, SeatTaken, WaveAhead, Screens
<1>4. CASE Deliver
  <2> DEFINE reply == Head(inbox)
  <2>1. /\ inbox # <<>> /\ screen' = Lands(screen, reply) /\ standing' = Shown(standing, reply)
        /\ inbox' = Tail(inbox) /\ fight' = fight /\ battle' = battle /\ prefAuto' = prefAuto
    BY <1>4 DEF Deliver
  <2>2. /\ Len(inbox) \in Nat \ {0} /\ reply = inbox[1] /\ reply \in Seq(Message)
        /\ inbox' \in Seq(Seq(Message)) /\ Len(inbox') = Len(inbox) - 1
        /\ \A n \in 1 .. Len(inbox) - 1 : inbox'[n] = inbox[n + 1]
    BY <1>1, <2>1, HeadTailProperties, EmptySeq, LenProperties
  <2>3. Len(reply) \in 1 .. 2
    BY <1>1, <2>2 DEF Short
  <2>4. Short'
    <3>1. \A n \in 1 .. Len(inbox) - 1 : n + 1 \in 1 .. Len(inbox)
      BY <2>2
    <3> QED BY <1>1, <2>2, <3>1 DEF Short
  <2>5. standing' \subseteq Orders
    BY <1>1, <2>1, <2>2, UpTyped DEF Shown
  <2>6. screen' \in Screens /\ (screen' = "rush" => battle.wave < WaveMax)
    <3> HIDE DEF reply
    <3>1. CASE Len(reply) = 1
      <4>1. reply[1] \in Message /\ screen' = Enters(screen, reply[1])
        BY <2>1, <2>2, <3>1, ElementOfSeq DEF Lands
      <4> QED BY <1>1, <4>1, EntersFacts
    <3>2. CASE Len(reply) = 2
      <4>1. reply[1] \in Message /\ reply[2] \in Message
        BY <2>2, <3>2, ElementOfSeq
      <4> DEFINE at == Enters(screen, reply[1])
      <4>2. at \in Screens /\ (at = "rush" => battle.wave < WaveMax)
        BY <1>1, <4>1, EntersFacts
      <4>3. screen' = Enters(at, reply[2])
        BY <2>1, <3>2 DEF Lands
      <4> HIDE DEF at
      <4> QED BY <1>1, <4>1, <4>2, <4>3, EntersFacts
    <3> QED BY <2>3, <3>1, <3>2
  <2> QED BY <1>1, <2>1, <2>2, <2>4, <2>5, <2>6 DEF Typed, TypeOK, SeatTaken, WaveAhead
<1>5. CASE Reconnect
  <2>1. /\ battle' = Restored(battle) /\ standing' = battle.alive /\ screen' = "ready"
        /\ inbox' = <<>> /\ fight' = fight /\ prefAuto' = prefAuto
    BY <1>5 DEF Reconnect
  <2>2. battle' \in Battle /\ battle'.actor = battle.actor /\ battle'.alive = battle.alive
        /\ battle.alive \in SUBSET Orders
    BY <1>1, <2>1 DEF Restored, Battle
  <2>3. inbox' \in Seq(Seq(Message)) /\ Short'
    BY <2>1 DEF Short
  <2> QED BY <1>1, <2>1, <2>2, <2>3 DEF Typed, TypeOK, SeatTaken, WaveAhead, Screens
<1>6. CASE UNCHANGED vars
  BY <1>1, <1>6 DEF vars, Typed, TypeOK, SeatTaken, WaveAhead, Short
<1>7. Finished => UNCHANGED vars
  BY DEF Finished
<1> QED BY <1>2, <1>3, <1>4, <1>5, <1>6, <1>7 DEF Next

-----------------------------------------------------------------------------
(* The conversation of a client that keeps to its turn loop.               *)

\* The first reply to a client with nothing on its way.
LEMMA LoneReply ==
  ASSUME inbox \in Seq(Seq(Message)), Len(inbox) = 0, NEW reply \in Seq(Message),
         inbox' = Append(inbox, reply)
  PROVE  Len(inbox') = 1 /\ inbox'[1] = reply
BY AppendProperties

\* A drain leaves no row it did not find, and no death if there was none.
LEMMA DrainDue ==
  ASSUME NEW b \in Battle, NEW r,
         battle' = [b EXCEPT !.queue = {}] \/ battle' = [b EXCEPT !.queue = @ \ {r}]
  PROVE  /\ Due(battle') \subseteq Due(b) /\ DeathsDue(battle') \subseteq DeathsDue(b)
         /\ battle'.alive = b.alive /\ battle'.auto = b.auto
         /\ battle'.turnOpen = b.turnOpen
         /\ battle' = [b EXCEPT !.queue = {}] => Due(battle') = {}
         /\ battle' = [b EXCEPT !.queue = @ \ {r}] => Due(battle') = Due(b) \ {r}
BY DEF Due, DeathsDue, Battle

\* An undecided fight has somebody to move.
LEMMA SomebodySits ==
  ASSUME NEW b \in Battle, b.actor \in Seats(b.alive), ~Decided(b)
  PROVE  b.actor # NoOne
BY FlowAssumption DEF FlowAssumption, Decided, WaveCleared, PartyWiped, Seats, Battle, Orders

\* A judge asked by a client that waits for nothing else is answered as
\* AnswersJudge says, and never with silence.
LEMMA JudgeAnswers ==
  ASSUME Typed, Judge(battle), Len(inbox) = 0, prefAuto' = prefAuto,
         prefAuto => battle.auto
  PROVE  /\ Len(inbox') = 1 /\ AnswersJudge(inbox[1])'
         /\ battle'.auto = battle.auto
<1>1. /\ fight \in Fights /\ battle \in Battle /\ inbox \in Seq(Seq(Message))
      /\ battle.actor \in Seats(battle.alive)
  BY DEF Typed, TypeOK, SeatTaken
<1> DEFINE b == battle
           j == Msg("Judge")
           e == WaveEnd(b)
<1>2. Quiet(j) /\ Quiet(e) /\ Answer(<<>>) /\ Answer(<<j>>) /\ Answer(<<e>>)
      /\ e.cmd = "WaveEnd" /\ Plain(e) /\ j = Msg("Judge")
  BY <1>1, QuietFacts, WaveEndFacts DEF Answer
<1>3. j \in Message /\ e \in Message
  BY <1>2 DEF Quiet
<1> HIDE DEF j, e
<1>4. ASSUME NEW h \in Message, h.cmd = "Attack", battle'.auto = b.auto,
             \/ inbox' = Append(inbox, <<h>>)
             \/ inbox' = Append(inbox, <<j, h>>)
             \/ inbox' = Append(inbox, <<h, j>>) /\ DeathsDue(battle') = {} /\ ~prefAuto
             \/ inbox' = Append(inbox, <<j>>) /\ DeathsDue(battle') = {} /\ ~prefAuto
             \/ inbox' = Append(inbox, <<e>>) /\ Due(battle') = {}
      PROVE  /\ Len(inbox') = 1 /\ AnswersJudge(inbox[1])'
             /\ battle'.auto = battle.auto
  <2>1. /\ <<h>> \in Seq(Message) /\ <<j, h>> \in Seq(Message) /\ <<h, j>> \in Seq(Message)
        /\ <<j>> \in Seq(Message) /\ <<e>> \in Seq(Message)
    BY <1>3, <1>4
  <2>2. CASE inbox' = Append(inbox, <<h>>)
    <3>1. Len(inbox') = 1 /\ inbox'[1] = <<h>>
      BY <1>1, <2>1, <2>2, LoneReply
    <3> QED BY <1>4, <3>1 DEF AnswersJudge
  <2>3. CASE inbox' = Append(inbox, <<j, h>>)
    <3>1. Len(inbox') = 1 /\ inbox'[1] = <<j, h>>
      BY <1>1, <2>1, <2>3, LoneReply
    <3> QED BY <1>4, <1>2, <3>1 DEF AnswersJudge
  <2>4. CASE inbox' = Append(inbox, <<h, j>>) /\ DeathsDue(battle') = {} /\ ~prefAuto
    <3>1. Len(inbox') = 1 /\ inbox'[1] = <<h, j>>
      BY <1>1, <2>1, <2>4, LoneReply
    <3> QED BY <1>4, <1>2, <2>4, <3>1 DEF AnswersJudge, Sits
  <2>5. CASE inbox' = Append(inbox, <<j>>) /\ DeathsDue(battle') = {} /\ ~prefAuto
    <3>1. Len(inbox') = 1 /\ inbox'[1] = <<j>>
      BY <1>1, <2>1, <2>5, LoneReply
    <3> QED BY <1>4, <1>2, <2>5, <3>1 DEF AnswersJudge, Sits
  <2>6. CASE inbox' = Append(inbox, <<e>>) /\ Due(battle') = {}
    <3>1. Len(inbox') = 1 /\ inbox'[1] = <<e>>
      BY <1>1, <2>1, <2>6, LoneReply
    <3> QED BY <1>4, <1>2, <2>6, <3>1 DEF AnswersJudge, ClosesWave
  <2> QED BY <1>4, <2>2, <2>3, <2>4, <2>5, <2>6
<1>5. ASSUME NEW a, Answer(a), Drained(b, a), Due(b) # {}
      PROVE  \E h \in Message :
               /\ h.cmd = "Attack" /\ battle'.auto = b.auto
               /\ a = <<>> => inbox' = Append(inbox, <<h>>)
               /\ a = <<j>> => inbox' = Append(inbox, <<h, j>>)
               /\ DeathsDue(battle') \subseteq DeathsDue(b)
  <2>1. PICK r \in Due(b) :
          /\ battle' = [b EXCEPT !.queue = @ \ {r}]
          /\ LET h == Hit(IF r.die THEN {r.order} ELSE {}, {})
             IN /\ a = <<>> => inbox' = Append(inbox, <<h>>)
                /\ \A m \in Message : a = <<m>> => inbox' = Append(inbox, <<h, m>>)
    BY <1>1, <1>5, DrainSteps
  <2> DEFINE h == Hit(IF r.die THEN {r.order} ELSE {}, {})
  <2>2. h \in Message /\ h.cmd = "Attack"
    BY <1>1, RowFacts, MsgFacts
  <2>3. battle'.auto = b.auto /\ DeathsDue(battle') \subseteq DeathsDue(b)
    BY <1>1, <2>1, DrainDue
  <2>4. /\ a = <<>> => inbox' = Append(inbox, <<h>>)
        /\ a = <<j>> => inbox' = Append(inbox, <<h, j>>)
    BY <1>3, <2>1
  <2> HIDE DEF h
  <2> QED BY <2>2, <2>3, <2>4
<1>6. ASSUME NEW a, NEW m \in Message, a = <<m>>, Answer(a), Drained(b, a), Due(b) = {}
      PROVE  inbox' = Append(inbox, <<m>>) /\ Due(battle') = {} /\ DeathsDue(battle') = {}
             /\ battle'.auto = b.auto
  <2>1. battle' = [b EXCEPT !.queue = {}] /\ inbox' = Append(inbox, <<m>>)
    BY <1>1, <1>6, DrainSteps, PairShapes
  <2>2. Due(battle') = {} /\ battle'.auto = b.auto
    BY <1>1, <2>1, DrainDue
  <2> QED BY <2>1, <2>2 DEF DeathsDue
<1>7. ASSUME NEW a, Answer(a), Move(b, a)
      PROVE  \E h \in Message :
               /\ h.cmd = "Attack" /\ battle'.auto = b.auto
               /\ a = <<>> => inbox' = Append(inbox, <<h>>)
               /\ a = <<j>> => inbox' = Append(inbox, <<j, h>>)
  <2>1. PICK dead \in SUBSET Orders, raised \in SUBSET Orders :
           LET c == [b EXCEPT !.alive = (b.alive \ dead) \cup raised, !.turnOpen = FALSE]
           IN /\ c \in Battle
              /\ c.alive = (b.alive \ dead) \cup raised
              /\ c.queue = b.queue /\ c.wave = b.wave /\ c.auto = b.auto
              /\ c.turnOpen = FALSE
              /\ StartOfTurn(c)
              /\ a = <<>> => inbox' = Append(inbox, <<Hit(dead, raised)>>)
              /\ \A m \in Message : a = <<m>> => inbox' = Append(inbox, <<m, Hit(dead, raised)>>)
    BY <1>1, <1>7, MoveSteps
  <2>2. battle'.auto = b.auto
    BY <1>1, <2>1, TurnServes
  <2>3. Hit(dead, raised) \in Message /\ Hit(dead, raised).cmd = "Attack"
    BY MsgFacts
  <2> QED BY <1>3, <2>1, <2>2, <2>3
<1> HIDE DEF b
<1>8. CASE DeathsDue(b) # {}
  <2>1. Drained(b, <<>>) /\ Due(b) # {}
    BY <1>8 DEF Judge, DeathsDue, b
  <2> QED BY <1>2, <1>4, <1>5, <2>1
<1>9. CASE DeathsDue(b) = {} /\ Decided(b)
  <2>1. CASE Due(b) = {}
    <3>1. Drained(b, <<e>>)
      BY <1>9, <2>1 DEF Judge, b, e
    <3>2. inbox' = Append(inbox, <<e>>) /\ Due(battle') = {} /\ battle'.auto = b.auto
      BY <1>2, <1>3, <1>6, <2>1, <3>1
    <3>3. Hit({}, {}) \in Message /\ Hit({}, {}).cmd = "Attack"
      BY MsgFacts
    <3> QED BY <1>4, <3>2, <3>3
  <2>2. CASE Due(b) # {}
    <3>1. Drained(b, <<>>)
      BY <1>9, <2>2 DEF Judge, b
    <3> QED BY <1>2, <1>4, <1>5, <2>2, <3>1
  <2> QED BY <2>1, <2>2
<1>10. CASE DeathsDue(b) = {} /\ ~Decided(b) /\ ~PlayerTurn(b)
  <2>1. Move(b, <<>>)
    BY <1>1, <1>10, SomebodySits DEF Judge, PlayTurn, b
  <2> QED BY <1>2, <1>4, <1>7, <2>1
<1>11. CASE DeathsDue(b) = {} /\ ~Decided(b) /\ PlayerTurn(b) /\ b.auto
  <2>1. Move(b, <<j>>)
    BY <1>1, <1>11, SomebodySits DEF Judge, PlayTurn, b, j
  <2> QED BY <1>2, <1>4, <1>7, <2>1
<1>12. CASE DeathsDue(b) = {} /\ ~Decided(b) /\ PlayerTurn(b) /\ ~b.auto
  <2>1. Drained(b, <<j>>)
    BY <1>12 DEF Judge, b, j
  <2>2. ~prefAuto
    BY <1>12 DEF b
  <2>3. CASE Due(b) = {}
    <3>1. inbox' = Append(inbox, <<j>>) /\ DeathsDue(battle') = {} /\ battle'.auto = b.auto
      BY <1>2, <1>3, <1>6, <2>1, <2>3
    <3>2. Hit({}, {}) \in Message /\ Hit({}, {}).cmd = "Attack"
      BY MsgFacts
    <3> QED BY <1>4, <2>2, <3>1, <3>2
  <2>4. CASE Due(b) # {}
    <3>1. PICK h \in Message :
            /\ h.cmd = "Attack" /\ battle'.auto = b.auto
            /\ inbox' = Append(inbox, <<h, j>>)
            /\ DeathsDue(battle') \subseteq DeathsDue(b)
      BY <1>2, <1>5, <2>1, <2>4
    <3> QED BY <1>4, <1>12, <2>2, <3>1
  <2> QED BY <2>3, <2>4
<1> QED BY <1>8, <1>9, <1>10, <1>11, <1>12

\* Reading the reply it waits for moves the client on, with nothing left on
\* its way.
LEMMA LoopReads ==
  ASSUME Typed, LoopOnly, InStep, OnScreen, Deliver
  PROVE  InStep' /\ OnScreen'
<1> DEFINE reply == inbox[1]
           quiet == ~prefAuto /\ DeathsDue(battle) = {}
<1>1. /\ inbox \in Seq(Seq(Message)) /\ inbox # <<>> /\ screen' = Lands(screen, reply)
      /\ inbox' = Tail(inbox) /\ battle' = battle /\ prefAuto' = prefAuto /\ fight' = fight
  BY HeadTailProperties DEF Deliver, Typed, TypeOK
<1>2. screen \in Waits /\ Len(inbox) = 1
  BY <1>1, EmptySeq DEF InStep
<1>3. Len(inbox') = 0
  BY <1>1, <1>2, HeadTailProperties
<1>4. prefAuto => battle.auto
  BY <1>2 DEF OnScreen, Waits
<1>5. CASE screen = "asking"
  <2>1. AnswersTurn(reply)
    BY <1>5 DEF InStep
  <2>2. screen' = "opening"
    <3> DEFINE w == Msg("WaveBegin")
               t == Msg("StartTurn")
    <3>1. w.cmd = "WaveBegin" /\ t.cmd = "StartTurn"
      BY MsgFacts DEF Cmds, Pushes
    <3>2. reply = <<t>> \/ reply = <<w, t>>
      BY <2>1 DEF AnswersTurn
    <3> HIDE DEF w, t, reply
    <3>3. Enters("asking", t) = "opening" /\ Enters("asking", w) = "asking"
      BY <3>1 DEF Enters
    <3>4. screen' = Lands("asking", reply)
      BY <1>1, <1>5
    <3>5. CASE reply = <<t>>
      <4>1. Len(reply) = 1 /\ reply[1] = t
        BY <3>5
      <4> QED BY <3>3, <3>4, <4>1 DEF Lands
    <3>6. CASE reply = <<w, t>>
      <4>1. Len(reply) = 2 /\ reply[1] = w /\ reply[2] = t
        BY <3>6
      <4> QED BY <3>3, <3>4, <4>1 DEF Lands
    <3> QED BY <3>2, <3>5, <3>6
  <2> QED BY <1>1, <1>3, <1>4, <2>2 DEF InStep, OnScreen, Waits
<1>6. CASE screen = "arriving"
  <2>1. screen' = "ready"
    BY <1>1, <1>6 DEF InStep, AnswersWave, Lands, Enters
  <2>2. ~battle.turnOpen
    BY <1>6 DEF OnScreen
  <2> QED BY <1>1, <1>3, <1>4, <2>1, <2>2 DEF InStep, OnScreen, Waits
<1>7. CASE screen = "judging"
  <2>1. AnswersJudge(reply)
    BY <1>7 DEF InStep
  <2>2. Msg("Judge").cmd = "Judge"
    BY MsgFacts DEF Cmds
  <2>3. \/ screen' = "perform"
        \/ screen' = "skill" /\ quiet
        \/ screen' \in {"rush", "over"} /\ Due(battle) = {}
    <3> HIDE DEF reply
    <3>1. CASE Len(reply) = 1
      <4>1. screen' = Enters("judging", reply[1])
        BY <1>1, <1>7, <3>1 DEF Lands
      <4>2. reply[1].cmd = "Attack" \/ Sits(reply[1]) \/ ClosesWave(reply[1])
        BY <2>1, <3>1 DEF AnswersJudge
      <4> QED BY <2>2, <4>1, <4>2 DEF Enters, Sits, ClosesWave
    <3>2. CASE Len(reply) = 2
      <4>1. screen' = Enters(Enters("judging", reply[1]), reply[2])
        BY <1>1, <1>7, <3>2 DEF Lands
      <4>2. CASE reply[1].cmd = "Attack" /\ Sits(reply[2])
        <5>1. Enters("judging", reply[1]) = "perform"
          BY <4>2 DEF Enters
        <5> QED BY <2>2, <4>1, <4>2, <5>1 DEF Enters, Sits
      <4>3. CASE reply[1] = Msg("Judge") /\ reply[2].cmd = "Attack"
        <5>1. Enters("judging", reply[1]) = "skill"
          BY <2>2, <4>3 DEF Enters
        <5> QED BY <4>1, <4>3, <5>1 DEF Enters
      <4> QED BY <2>1, <3>2, <4>2, <4>3 DEF AnswersJudge
    <3> QED BY <2>1, <3>1, <3>2 DEF AnswersJudge
  <2> HIDE DEF reply
  <2> QED BY <1>1, <1>3, <1>4, <2>3 DEF InStep, OnScreen, Waits
<1> QED BY <1>2, <1>5, <1>6, <1>7 DEF Waits

\* Asking for a turn: the loop asks only when none is open, so it is opened.
LEMMA TurnAnswers ==
  ASSUME NEW b \in Battle, OpenTurn(b), ~b.turnOpen,
         inbox \in Seq(Seq(Message)), Len(inbox) = 0
  PROVE  /\ Len(inbox') = 1 /\ AnswersTurn(inbox[1])'
         /\ battle'.auto = b.auto
<1>1. PICK reply : AnswersTurn(reply) /\ inbox' = Append(inbox, reply)
  BY OpenSteps
<1>2. Len(inbox') = 1 /\ inbox'[1] = reply
  BY <1>1, TurnReplyFacts, LoneReply DEF GoodReply
<1>3. battle' = [b EXCEPT !.turnOpen = TRUE, !.waveBegun = TRUE]
  BY OpenSteps
<1>4. battle'.auto = b.auto
  BY <1>3 DEF Battle
<1> QED BY <1>1, <1>2, <1>4 DEF AnswersTurn

\* Every step keeps a client that asks nothing aside in step with the server.
LEMMA LoopStep ==
  ASSUME Typed, InLoop, [Next]_vars
  PROVE  InLoop'
<1>1. fight' = fight
  BY DEF Next, vars, AskTurn, AskJudge, PerformEnd, Tap, AskWave, Deliver, SetAuto,
         ReaskTurn, CharInfo, ReportError, Retreat, Reconnect, Finished
<1> SUFFICES ASSUME LoopOnly PROVE InStep' /\ OnScreen'
  BY <1>1 DEF InLoop, LoopOnly
<1>2. InStep /\ OnScreen
  BY DEF InLoop
<1>3. /\ fight \in Fights /\ battle \in Battle /\ screen \in Screens
      /\ prefAuto \in BOOLEAN /\ inbox \in Seq(Seq(Message))
      /\ battle.actor \in Seats(battle.alive)
      /\ screen = "rush" => battle.wave < WaveMax
  BY DEF Typed, TypeOK, SeatTaken, WaveAhead
<1>4. screen \notin Waits => Len(inbox) = 0
  BY <1>2 DEF InStep
<1>5. CASE AskTurn
  <2> DEFINE c == [battle EXCEPT !.auto = prefAuto]
  <2>1. /\ screen = "ready" /\ screen' = "asking" /\ prefAuto' = prefAuto
        /\ OpenTurn(c) \/ (~prefAuto /\ OpenTurn(battle))
    BY <1>5 DEF AskTurn
  <2>2. c \in Battle /\ c.auto = prefAuto /\ c.turnOpen = battle.turnOpen
    BY <1>3 DEF Battle
  <2>3. ~battle.turnOpen /\ Len(inbox) = 0
    BY <1>2, <1>4, <2>1 DEF OnScreen, Waits
  <2> HIDE DEF c
  <2>4. Len(inbox') = 1 /\ AnswersTurn(inbox[1])' /\ (prefAuto => battle'.auto)
    BY <1>3, <2>1, <2>2, <2>3, TurnAnswers
  <2> QED BY <2>1, <2>4 DEF InStep, OnScreen, Waits
<1>6. ASSUME Ask("Judge"), prefAuto' = prefAuto, screen \in {"opening", "perform"}
      PROVE  InStep' /\ OnScreen'
  <2>1. Judge(battle) /\ screen' = "judging"
    BY <1>6 DEF Ask
  <2>2. Len(inbox) = 0 /\ (prefAuto => battle.auto)
    BY <1>2, <1>4, <1>6 DEF OnScreen, Waits
  <2>3. Len(inbox') = 1 /\ AnswersJudge(inbox[1])' /\ battle'.auto = battle.auto
    BY <1>6, <2>1, <2>2, JudgeAnswers
  <2> QED BY <1>6, <2>1, <2>2, <2>3 DEF InStep, OnScreen, Waits
<1>7. CASE AskJudge
  BY <1>6, <1>7 DEF AskJudge
<1>8. CASE PerformEnd
  <2>1. PICK cmd \in fight.reasks : (cmd = "StartTurn" => ~battle.turnOpen) /\ Ask(cmd)
    BY <1>8 DEF PerformEnd
  <2>2. cmd \in {"Judge", "StartTurn"} /\ screen = "perform" /\ prefAuto' = prefAuto
    BY <1>3, <1>8, <2>1, FlowAssumption DEF FlowAssumption, Setting, PerformEnd
  <2>3. CASE cmd = "Judge"
    BY <1>6, <2>1, <2>2, <2>3
  <2>4. CASE cmd = "StartTurn"
    <3>1. OpenTurn(battle) /\ screen' = "asking" /\ ~battle.turnOpen
      BY <2>1, <2>4 DEF Ask
    <3>2. Len(inbox) = 0 /\ (prefAuto => battle.auto)
      BY <1>2, <1>4, <2>2 DEF OnScreen, Waits
    <3>3. Len(inbox') = 1 /\ AnswersTurn(inbox[1])' /\ battle'.auto = battle.auto
      BY <1>3, <3>1, <3>2, TurnAnswers
    <3> QED BY <2>2, <3>1, <3>2, <3>3 DEF InStep, OnScreen, Waits
  <2> QED BY <2>2, <2>3, <2>4
<1>9. CASE Tap
  <2>1. Move(battle, <<>>) /\ screen = "skill" /\ screen' = "judging"
        /\ prefAuto' = prefAuto /\ ~prefAuto
    BY <1>9 DEF Tap, Attack
  <2>2. PICK dead \in SUBSET Orders, raised \in SUBSET Orders :
          inbox' = Append(inbox, <<Hit(dead, raised)>>)
    BY <1>3, <2>1, MoveSteps DEF Answer
  <2> DEFINE h == Hit(dead, raised)
  <2>3. h \in Message /\ h.cmd = "Attack"
    BY MsgFacts
  <2> HIDE DEF h
  <2>4. Len(inbox') = 1 /\ inbox'[1] = <<h>>
    BY <1>3, <1>4, <2>1, <2>2, <2>3, LoneReply DEF Waits, h
  <2>5. AnswersJudge(inbox[1])'
    BY <2>3, <2>4 DEF AnswersJudge
  <2> QED BY <2>1, <2>4, <2>5 DEF InStep, OnScreen, Waits
<1>10. CASE AskWave
  <2>1. /\ screen = "rush" /\ NextWave(battle) /\ screen' = "arriving"
        /\ prefAuto' = prefAuto
    BY <1>10 DEF AskWave
  <2>2. PICK foes \in SUBSET Slots :
          LET m == [Msg("NextWave") EXCEPT !.up = foes]
          IN /\ battle'.turnOpen = FALSE /\ battle'.auto = battle.auto
             /\ m \in Message /\ m.cmd = "NextWave"
             /\ inbox' = Append(inbox, <<m>>)
    BY <1>3, <2>1, NextWaveSteps
  <2> DEFINE m == [Msg("NextWave") EXCEPT !.up = foes]
  <2>3. m \in Message /\ m.cmd = "NextWave" /\ inbox' = Append(inbox, <<m>>)
    BY <2>2
  <2> HIDE DEF m
  <2>4. Len(inbox') = 1 /\ inbox'[1] = <<m>>
    BY <1>3, <1>4, <2>1, <2>3, LoneReply DEF Waits
  <2>5. AnswersWave(inbox[1])'
    BY <2>3, <2>4 DEF AnswersWave
  <2> QED BY <1>2, <2>1, <2>2, <2>4, <2>5 DEF InStep, OnScreen, Waits
<1>11. CASE Deliver
  BY <1>2, <1>11, LoopReads
<1>12. CASE Reconnect
  <2>1. /\ battle' = Restored(battle) /\ screen' = "ready" /\ inbox' = <<>>
    BY <1>12 DEF Reconnect
  <2>2. battle'.turnOpen = FALSE
    BY <1>3, <2>1 DEF Restored, Battle
  <2> QED BY <2>1, <2>2 DEF InStep, OnScreen, Waits
<1>13. ~(SetAuto \/ ReaskTurn \/ CharInfo \/ ReportError \/ Retreat)
  <2>1. \A cmd \in {"Auto", "StartTurn", "CharInfo", "ReportError", "Retreat"} : ~Aside(cmd)
    BY DEF Aside, LoopOnly
  <2> QED BY <2>1 DEF SetAuto, ReaskTurn, CharInfo, ReportError, Retreat
<1>14. CASE UNCHANGED vars
  BY <1>2, <1>14 DEF vars, InStep, OnScreen, AnswersTurn, AnswersJudge, AnswersWave, Sits, ClosesWave
<1>15. Finished => UNCHANGED vars
  BY DEF Finished
<1> QED BY <1>5, <1>7, <1>8, <1>9, <1>10, <1>11, <1>12, <1>13, <1>14, <1>15 DEF Next

\* It starts in step: nothing is on its way and no turn is open.
LEMMA LoopInit == Init => InLoop
BY DEF Init, InLoop, InStep, OnScreen, Waits

-----------------------------------------------------------------------------
(* The two sides agree on who is standing.                                 *)

\* What is sent beside a row moves nobody.
LEMMA ShownQuiet ==
  ASSUME NEW m \in Message, Quiet(m), NEW h \in Message, h.cmd = "Attack",
         NEW drawn \in SUBSET Orders
  PROVE  /\ Shown(drawn, <<m>>) = drawn
         /\ Shown(drawn, <<h, m>>) = (drawn \ h.die) \cup h.up
         /\ Shown(drawn, <<m, h>>) = (drawn \ h.die) \cup h.up
<1>1. Lost(m) = {} /\ m.up = {}
  BY DEF Quiet
<1>2. Lost(h) = h.die
  BY DEF Lost
<1>3. Shown(drawn, <<m>>) = (drawn \ {}) \cup {}
  BY <1>1, ShownOne
<1>4. Shown(drawn, <<h, m>>) = (((drawn \ h.die) \cup h.up) \ {}) \cup {}
  BY <1>1, <1>2, ShownTwo
<1>5. Shown(drawn, <<m, h>>) = (((drawn \ {}) \cup {}) \ h.die) \cup h.up
  BY <1>1, <1>2, ShownTwo
<1> QED BY <1>3, <1>4, <1>5

\* A reply of a row, alone or beside a quiet message.
LEMMA WillHit ==
  ASSUME inbox \in Seq(Seq(Message)), standing' = standing, NEW h \in Message,
         h.cmd = "Attack", NEW a, Answer(a),
         \/ a = <<>> /\ inbox' = Append(inbox, <<h>>)
         \/ \E m \in Message : a = <<m>> /\ inbox' \in {Append(inbox, <<h, m>>),
                                                       Append(inbox, <<m, h>>)}
  PROVE  WillStand' = (WillStand \ h.die) \cup h.up
<1>1. CASE a = <<>> /\ inbox' = Append(inbox, <<h>>)
  <2>0. <<h>> \in Seq(Message)
    OBVIOUS
  <2>1. WillStand' = Shown(WillStand, <<h>>)
    BY <1>1, <2>0, WillSend
  <2>2. Lost(h) = h.die
    BY DEF Lost
  <2> QED BY <2>1, <2>2, ShownOne, WillTyped
<1>2. ASSUME NEW m \in Message, a = <<m>>,
             inbox' \in {Append(inbox, <<h, m>>), Append(inbox, <<m, h>>)}
      PROVE  WillStand' = (WillStand \ h.die) \cup h.up
  <2>1. Quiet(m)
    <3>1. PICK n : Quiet(n) /\ a = <<n>>
      BY <1>2, PairShapes DEF Answer
    <3>2. <<m>>[1] = m /\ <<n>>[1] = n /\ <<m>> = <<n>>
      BY <1>2, <3>1
    <3> QED BY <3>1, <3>2
  <2>2. <<h, m>> \in Seq(Message) /\ <<m, h>> \in Seq(Message)
    OBVIOUS
  <2>3. CASE inbox' = Append(inbox, <<h, m>>)
    <3>1. WillStand' = Shown(WillStand, <<h, m>>)
      BY <2>2, <2>3, WillSend
    <3> QED BY <2>1, <3>1, ShownQuiet, WillTyped
  <2>4. CASE inbox' = Append(inbox, <<m, h>>)
    <3>1. WillStand' = Shown(WillStand, <<m, h>>)
      BY <2>2, <2>4, WillSend
    <3> QED BY <2>1, <3>1, ShownQuiet, WillTyped
  <2> QED BY <1>2, <2>3, <2>4
<1> QED BY <1>1, <1>2

\* A drained death leaves the queue as it reaches the client; a tick tells of
\* nobody.
LEMMA DrainAgrees ==
  ASSUME NEW b \in Battle, NEW a, Answer(a), Drained(b, a), standing' = standing,
         inbox \in Seq(Seq(Message)), Agrees(WillStand, b)
  PROVE  Agrees(WillStand', battle')
<1>1. CASE /\ Due(b) = {}
           /\ battle' = [b EXCEPT !.queue = {}]
           /\ a = <<>> => inbox' = inbox
           /\ a # <<>> => inbox' = Append(inbox, a)
  <2>1. battle'.alive = b.alive /\ Due(battle') = {}
    BY <1>1, DrainDue
  <2>2. Owed(b) = {} /\ Owed(battle') = {}
    BY <1>1, <2>1 DEF Owed, DeathsDue
  <2>3. WillStand' = WillStand
    <3>1. CASE a = <<>>
      BY <1>1, <3>1 DEF WillStand, KeptFrom
    <3>2. CASE a # <<>>
      <4>1. PICK m : Quiet(m) /\ a = <<m>>
        BY <3>2 DEF Answer
      <4>2. m \in Message /\ <<m>> \in Seq(Message) /\ inbox' = Append(inbox, <<m>>)
        BY <1>1, <3>2, <4>1 DEF Quiet
      <4>3. Shown(WillStand, <<m>>) = WillStand
        <5>1. Hit({}, {}) \in Message /\ Hit({}, {}).cmd = "Attack"
          BY MsgFacts
        <5> QED BY <4>1, <4>2, <5>1, ShownQuiet, WillTyped
      <4> QED BY <4>2, <4>3, WillSend
    <3> QED BY <3>1, <3>2
  <2> QED BY <2>1, <2>2, <2>3 DEF Agrees
<1>2. ASSUME NEW r \in Due(b),
             DeathsDue(b) # {} => r \in DeathsDue(b),
             battle' = [b EXCEPT !.queue = @ \ {r}],
             LET h == Hit(IF r.die THEN {r.order} ELSE {}, {})
             IN /\ a = <<>> => inbox' = Append(inbox, <<h>>)
                /\ \A m \in Message : a = <<m>> => inbox' = Append(inbox, <<h, m>>)
      PROVE  Agrees(WillStand', battle')
  <2> DEFINE dead == IF r.die THEN {r.order} ELSE {}
             h == Hit(dead, {})
  <2>1. /\ r \in Row /\ r.order \in Orders /\ r.die \in BOOLEAN /\ r.wave = b.wave
        /\ \A q \in Due(b) : q \in Row /\ q.wave = b.wave
    BY <1>2, RowFacts DEF Due
  <2>2. h \in Message /\ h.cmd = "Attack" /\ h.die = dead /\ h.up = {}
    BY <2>1, MsgFacts
  <2>3. /\ a = <<>> => inbox' = Append(inbox, <<h>>)
        /\ \A m \in Message : a = <<m>> => inbox' = Append(inbox, <<h, m>>)
    BY <1>2
  <2> HIDE DEF h
  <2>4. WillStand' = WillStand \ dead
    <3>1. CASE a = <<>>
      <4>1. WillStand' = (WillStand \ h.die) \cup h.up
        BY <2>2, <2>3, <3>1, WillHit
      <4> QED BY <2>2, <4>1
    <3>2. CASE a # <<>>
      <4>1. PICK m \in Message : a = <<m>>
        BY <3>2 DEF Answer, Quiet
      <4>2. WillStand' = (WillStand \ h.die) \cup h.up
        BY <2>2, <2>3, <4>1, WillHit
      <4> QED BY <2>2, <4>2
    <3> QED BY <3>1, <3>2
  <2>5. battle'.alive = b.alive /\ Due(battle') = Due(b) \ {r}
    BY <1>2, DrainDue
  <2>6. Owed(battle') = Owed(b) \ dead
    <3>1. \A q \in DeathsDue(b) : q.order = r.order /\ r.die => q = r
      BY <2>1 DEF DeathsDue, Row
    <3>2. DeathsDue(battle') = DeathsDue(b) \ {r}
      BY <2>5 DEF DeathsDue
    <3>3. ~r.die => r \notin DeathsDue(b)
      BY DEF DeathsDue
    <3>4. CASE r.die
      <4>1. Owed(battle') = {q.order : q \in DeathsDue(b) \ {r}}
        BY <3>2 DEF Owed
      <4> QED BY <3>1, <3>4, <4>1 DEF Owed
    <3>5. CASE ~r.die
      BY <3>2, <3>3, <3>5 DEF Owed
    <3> QED BY <3>4, <3>5
  <2>7. dead \subseteq Owed(b)
    BY <1>2 DEF Owed, DeathsDue
  <2> QED BY <2>4, <2>5, <2>6, <2>7 DEF Agrees
<1> QED BY <1>1, <1>2, DrainSteps

\* The housekeeping queues a death row for everyone it fells.
LEMMA TurnAgrees ==
  ASSUME fight \in Fights, ~fight.revives, NEW b \in Battle, DeathsDue(b) = {},
         StartOfTurn(b)
  PROVE  Agrees(b.alive, battle')
<1>0. fight.revives = FALSE
  BY SettingFacts
<1>1. PICK dead \in SUBSET b.alive, burnt \in SUBSET b.alive, back \in SUBSET Orders :
        /\ fight.revives = FALSE => back = {}
        /\ \E next \in Seats((b.alive \ dead) \cup back) :
             battle' = [b EXCEPT !.alive = (b.alive \ dead) \cup back,
                                 !.queue = b.queue \cup Rows(b, dead, burnt),
                                 !.actor = next]
  BY TurnSteps
<1>2. /\ battle'.alive = b.alive \ dead /\ battle'.queue = b.queue \cup Rows(b, dead, burnt)
      /\ battle'.wave = b.wave
  BY <1>0, <1>1 DEF Battle
<1>3. Owed(battle') = dead
  <2>1. \A o \in dead : \E r \in Rows(b, dead, burnt) : r.order = o /\ r.die /\ r.wave = b.wave
    <3>1. ASSUME NEW o \in dead
          PROVE  \E r \in Rows(b, dead, burnt) : r.order = o /\ r.die /\ r.wave = b.wave
      <4> DEFINE r == [order |-> o, die |-> TRUE, wave |-> b.wave]
      <4>1. r \in Rows(b, dead, burnt) /\ r.order = o /\ r.die /\ r.wave = b.wave
        BY DEF Rows
      <4> QED BY <4>1
    <3> QED BY <3>1
  <2>2. \A r \in Rows(b, dead, burnt) : r.die => r.order \in dead
    BY DEF Rows
  <2>3. \A r \in b.queue : r.wave = b.wave => ~r.die
    BY DEF DeathsDue, Due
  <2>4. Owed(battle') \subseteq dead
    BY <1>2, <2>2, <2>3 DEF Owed, DeathsDue, Due
  <2>5. dead \subseteq Owed(battle')
    BY <1>2, <2>1 DEF Owed, DeathsDue, Due
  <2> QED BY <2>4, <2>5
<1> QED BY <1>2, <1>3 DEF Agrees

\* A move tells its own kills and revivals; nothing may be owed before it.
LEMMA MoveAgrees ==
  ASSUME fight \in Fights, ~fight.revives, NEW b \in Battle, NEW a, Answer(a),
         Move(b, a), DeathsDue(b) = {}, standing' = standing,
         inbox \in Seq(Seq(Message)), Agrees(WillStand, b)
  PROVE  Agrees(WillStand', battle')
<1>1. PICK dead \in SUBSET Orders, raised \in SUBSET Orders :
           LET c == [b EXCEPT !.alive = (b.alive \ dead) \cup raised, !.turnOpen = FALSE]
           IN /\ c \in Battle
              /\ c.alive = (b.alive \ dead) \cup raised
              /\ c.queue = b.queue /\ c.wave = b.wave /\ c.auto = b.auto
              /\ c.turnOpen = FALSE
              /\ StartOfTurn(c)
              /\ a = <<>> => inbox' = Append(inbox, <<Hit(dead, raised)>>)
              /\ \A m \in Message : a = <<m>> => inbox' = Append(inbox, <<m, Hit(dead, raised)>>)
  BY MoveSteps
<1> DEFINE c == [b EXCEPT !.alive = (b.alive \ dead) \cup raised, !.turnOpen = FALSE]
           h == Hit(dead, raised)
<1>2. h \in Message /\ h.cmd = "Attack" /\ h.die = dead /\ h.up = raised
  BY MsgFacts
<1>3. /\ c \in Battle /\ c.alive = (b.alive \ dead) \cup raised
      /\ c.queue = b.queue /\ c.wave = b.wave /\ StartOfTurn(c)
      /\ a = <<>> => inbox' = Append(inbox, <<h>>)
      /\ \A m \in Message : a = <<m>> => inbox' = Append(inbox, <<m, h>>)
  BY <1>1
<1> HIDE DEF c, h
<1>4. WillStand' = (WillStand \ dead) \cup raised
  <2>1. CASE a = <<>>
    <3>1. WillStand' = (WillStand \ h.die) \cup h.up
      BY <1>2, <1>3, <2>1, WillHit
    <3> QED BY <1>2, <3>1
  <2>2. CASE a # <<>>
    <3>1. PICK m \in Message : a = <<m>>
      BY <2>2 DEF Answer, Quiet
    <3>2. WillStand' = (WillStand \ h.die) \cup h.up
      BY <1>2, <1>3, <3>1, WillHit
    <3> QED BY <1>2, <3>2
  <2> QED BY <2>1, <2>2
<1>5. WillStand = b.alive
  BY DEF Agrees, Owed
<1>6. DeathsDue(c) = {}
  BY <1>3 DEF DeathsDue, Due
<1>7. Agrees(c.alive, battle')
  BY <1>3, <1>6, TurnAgrees
<1> QED BY <1>3, <1>4, <1>5, <1>7

\* Opening a turn tells of nobody.
LEMMA OpenAgrees ==
  ASSUME NEW b \in Battle, OpenTurn(b), standing' = standing,
         inbox \in Seq(Seq(Message)), Agrees(WillStand, b)
  PROVE  Agrees(WillStand', battle')
<1>1. CASE b.turnOpen /\ Drained(b, <<>>)
  BY <1>1, DrainAgrees DEF Answer
<1>2. CASE /\ battle' = [b EXCEPT !.turnOpen = TRUE, !.waveBegun = TRUE]
           /\ \E reply : AnswersTurn(reply) /\ inbox' = Append(inbox, reply)
  <2>1. battle'.alive = b.alive /\ Owed(battle') = Owed(b)
    BY <1>2 DEF Battle, Owed, DeathsDue, Due
  <2>2. PICK reply : AnswersTurn(reply) /\ inbox' = Append(inbox, reply)
    BY <1>2
  <2>3. reply \in Seq(Message)
    BY <2>2, TurnReplyFacts DEF GoodReply
  <2>4. WillStand' = Shown(WillStand, reply)
    BY <2>2, <2>3, WillSend
  <2>5. Shown(WillStand, reply) = WillStand
    <3> DEFINE w == Msg("WaveBegin")
               t == Msg("StartTurn")
    <3>0. {"WaveBegin", "StartTurn"} \subseteq Cmds
      BY DEF Cmds, Pushes
    <3>1. /\ Lost(w) = {} /\ Lost(t) = {} /\ w.up = {} /\ t.up = {}
          /\ w \in Message /\ t \in Message
      BY <3>0, MsgFacts DEF Lost, Plain
    <3>2. reply = <<t>> \/ reply = <<w, t>>
      BY <2>2 DEF AnswersTurn
    <3> HIDE DEF w, t
    <3>3. Shown(WillStand, <<t>>) = (WillStand \ {}) \cup {}
      BY <3>1, ShownOne, WillTyped
    <3>4. Shown(WillStand, <<w, t>>)
          = (((WillStand \ Lost(w)) \cup w.up) \ Lost(t)) \cup t.up
      BY <3>1, ShownTwo, WillTyped
    <3> QED BY <3>1, <3>2, <3>3, <3>4
  <2> QED BY <2>1, <2>4, <2>5 DEF Agrees
<1> QED BY <1>1, <1>2, OpenSteps

\* A judge plays a move only when no death is owed.
LEMMA JudgeAgrees ==
  ASSUME fight \in Fights, ~fight.revives, NEW b \in Battle, Judge(b),
         standing' = standing, inbox \in Seq(Seq(Message)), Agrees(WillStand, b)
  PROVE  Agrees(WillStand', battle')
<1>1. Answer(<<>>) /\ Answer(<<Msg("Judge")>>) /\ Answer(<<WaveEnd(b)>>)
  BY QuietFacts DEF Answer
<1>2. CASE \E a : Answer(a) /\ Drained(b, a)
  BY <1>2, DrainAgrees
<1>3. CASE \E a : Answer(a) /\ Move(b, a) /\ DeathsDue(b) = {}
  BY <1>3, MoveAgrees
<1>4. \/ Drained(b, <<>>) \/ Drained(b, <<WaveEnd(b)>>) \/ Drained(b, <<Msg("Judge")>>)
      \/ DeathsDue(b) = {} /\ (PlayTurn(b, <<>>) \/ PlayTurn(b, <<Msg("Judge")>>))
  BY DEF Judge
<1> QED BY <1>1, <1>2, <1>3, <1>4 DEF PlayTurn

\* Every step keeps the two fields in accord: one step per action.
LEMMA AccordStep ==
  ASSUME Typed, InLoop, InAccord, [Next]_vars
  PROVE  InAccord'
<1>1. fight' = fight
  BY DEF Next, vars, AskTurn, AskJudge, PerformEnd, Tap, AskWave, Deliver, SetAuto,
         ReaskTurn, CharInfo, ReportError, Retreat, Reconnect, Finished
<1> SUFFICES ASSUME LoopOnly, ~fight.revives PROVE Agrees(WillStand', battle')
  BY <1>1 DEF InAccord, LoopOnly
<1>2. InStep /\ OnScreen /\ Agrees(WillStand, battle)
  BY DEF InLoop, InAccord
<1>3. /\ fight \in Fights /\ battle \in Battle /\ screen \in Screens
      /\ prefAuto \in BOOLEAN /\ inbox \in Seq(Seq(Message))
      /\ battle.actor \in Seats(battle.alive)
      /\ screen = "rush" => battle.wave < WaveMax
      /\ battle.alive \in SUBSET Orders
  BY DEF Typed, TypeOK, SeatTaken, WaveAhead, Battle
<1>4. CASE AskTurn
  <2> DEFINE c == [battle EXCEPT !.auto = prefAuto]
  <2>1. standing' = standing /\ (OpenTurn(c) \/ OpenTurn(battle))
    BY <1>4 DEF AskTurn
  <2>2. c \in Battle /\ c.alive = battle.alive /\ c.queue = battle.queue
        /\ c.wave = battle.wave
    BY <1>3 DEF Battle
  <2> HIDE DEF c
  <2>3. Agrees(WillStand, c)
    BY <1>2, <2>2 DEF Agrees, Owed, DeathsDue, Due
  <2> QED BY <1>2, <1>3, <2>1, <2>2, <2>3, OpenAgrees
<1>5. ASSUME NEW cmd \in {"Judge", "StartTurn"}, Ask(cmd), standing' = standing
      PROVE  Agrees(WillStand', battle')
  <2>1. Judge(battle) \/ OpenTurn(battle)
    BY <1>5 DEF Ask
  <2> QED BY <1>2, <1>3, <1>5, <2>1, OpenAgrees, JudgeAgrees
<1>6. CASE AskJudge
  BY <1>5, <1>6 DEF AskJudge
<1>7. CASE PerformEnd
  <2>1. fight.reasks \subseteq {"Judge", "StartTurn"}
    BY <1>3, FlowAssumption DEF FlowAssumption, Setting
  <2> QED BY <1>5, <1>7, <2>1 DEF PerformEnd
<1>8. CASE Tap
  <2>1. Move(battle, <<>>) /\ screen = "skill" /\ standing' = standing
    BY <1>8 DEF Tap, Attack
  <2>2. DeathsDue(battle) = {}
    BY <1>2, <2>1 DEF OnScreen
  <2>3. Answer(<<>>)
    BY DEF Answer
  <2> QED BY <1>2, <1>3, <2>1, <2>2, <2>3, MoveAgrees
<1>9. CASE AskWave
  <2>1. screen = "rush" /\ NextWave(battle) /\ standing' = standing
    BY <1>9 DEF AskWave
  <2>2. PICK foes \in SUBSET Slots :
          LET m == [Msg("NextWave") EXCEPT !.up = foes]
          IN /\ battle'.alive = (battle.alive \cap Party) \cup foes
             /\ battle'.queue = {}
             /\ m \in Message /\ m.cmd = "NextWave" /\ m.up = foes
             /\ inbox' = Append(inbox, <<m>>)
    BY <1>3, <2>1, NextWaveSteps
  <2> DEFINE m == [Msg("NextWave") EXCEPT !.up = foes]
  <2>3. m \in Message /\ m.cmd = "NextWave" /\ m.up = foes /\ inbox' = Append(inbox, <<m>>)
    BY <2>2
  <2> HIDE DEF m
  <2>4. <<m>> \in Seq(Message) /\ Lost(m) = Slots
    BY <2>3 DEF Lost
  <2>5. WillStand' = (WillStand \ Slots) \cup foes
    <3>1. WillStand' = Shown(WillStand, <<m>>)
      BY <1>3, <2>1, <2>3, <2>4, WillSend
    <3> QED BY <2>3, <2>4, <3>1, ShownOne, WillTyped
  <2>6. WillStand = battle.alive
    BY <1>2, <2>1 DEF OnScreen, Agrees, Owed, DeathsDue
  <2>7. battle.alive \ Slots = battle.alive \cap Party
    BY <1>3, FlowAssumption DEF FlowAssumption, Orders
  <2>8. Owed(battle') = {}
    BY <2>2 DEF Owed, DeathsDue, Due
  <2> QED BY <2>2, <2>5, <2>6, <2>7, <2>8 DEF Agrees
<1>10. CASE Deliver
  <2>1. inbox # <<>> /\ inbox' = Tail(inbox) /\ standing' = Shown(standing, Head(inbox))
        /\ battle' = battle
    BY <1>10 DEF Deliver
  <2>2. WillStand' = WillStand
    BY <1>3, <2>1, WillRead
  <2> QED BY <1>2, <2>1, <2>2
<1>11. CASE Reconnect
  <2>1. battle' = Restored(battle) /\ standing' = battle.alive /\ inbox' = <<>>
    BY <1>11 DEF Reconnect
  <2>2. battle'.alive = battle.alive /\ battle'.queue = {}
    BY <1>3, <2>1 DEF Restored, Battle
  <2>3. WillStand' = standing'
    <3>1. Len(inbox') = 0
      BY <2>1
    <3>2. standing' \subseteq Orders
      BY <1>3, <2>1
    <3> QED BY <3>1, <3>2 DEF WillStand, KeptFrom
  <2>4. Owed(battle') = {}
    BY <2>2 DEF Owed, DeathsDue, Due
  <2> QED BY <2>1, <2>2, <2>3, <2>4 DEF Agrees
<1>12. ~(SetAuto \/ ReaskTurn \/ CharInfo \/ ReportError \/ Retreat)
  <2>1. \A cmd \in {"Auto", "StartTurn", "CharInfo", "ReportError", "Retreat"} : ~Aside(cmd)
    BY DEF Aside, LoopOnly
  <2> QED BY <2>1 DEF SetAuto, ReaskTurn, CharInfo, ReportError, Retreat
<1>13. CASE UNCHANGED vars
  BY <1>2, <1>13 DEF vars, WillStand, KeptFrom
<1>14. Finished => UNCHANGED vars
  BY DEF Finished
<1> QED BY <1>4, <1>6, <1>7, <1>8, <1>9, <1>10, <1>11, <1>12, <1>13, <1>14 DEF Next

\* They start in accord: the client draws the field it was given.
LEMMA AccordInit == Init => InAccord
<1> SUFFICES ASSUME Init PROVE Agrees(WillStand, battle)
  BY DEF InAccord
<1>1. inbox = <<>> /\ standing = battle.alive /\ standing \in SUBSET Orders
  BY TypedInit DEF Init, Typed, TypeOK
<1>2. battle.queue = {}
  BY DEF Init
<1>3. WillStand = battle.alive
  BY <1>1, WillRest
<1>4. Owed(battle) = {}
  BY <1>2 DEF Owed, DeathsDue, Due
<1> QED BY <1>3, <1>4 DEF Agrees

-----------------------------------------------------------------------------
(* The results.                                                            *)

\* The invariant is inductive.
LEMMA FlowStep == FlowInv /\ [Next]_vars => FlowInv'
BY TypedStep, LoopStep, AccordStep DEF FlowInv

\* The invariant holds of every behaviour.
LEMMA FlowSafe == Spec => []FlowInv
<1>1. Init => FlowInv
  BY TypedInit, LoopInit, AccordInit DEF FlowInv
<1> QED BY <1>1, FlowStep, PTL DEF Spec

\* However attacks, out-of-band deaths, waves and reconnections interleave,
\* what the client will draw is who the server has alive plus the deaths
\* still queued for it.
THEOREM AgreementSafe == Spec => []AgreeOnStanding
<1>1. FlowInv => AgreeOnStanding
  BY DEF FlowInv, InAccord, Agrees, Owed, AgreeOnStanding
<1> QED BY <1>1, FlowSafe, PTL

\* A client that keeps to its turn loop is never wedged in a perform, never
\* waits for a reply that is not coming and never hides a bar it needs.
THEOREM StuckSafe == Spec => []NeverStuck
<1>1. FlowInv => NeverStuck
  <2>1. FlowInv => TypeOK
    BY DEF FlowInv, Typed
  <2>2. FlowInv => NeverWedged
    BY DEF FlowInv, InLoop, OnScreen, NeverWedged
  <2>3. FlowInv => NeverParked
    <3> SUFFICES ASSUME FlowInv, LoopOnly, screen \in Waits \/ (screen = "skill" /\ prefAuto)
                 PROVE  inbox # <<>>
      BY DEF NeverParked, Waits
    <3>1. InStep /\ OnScreen
      BY DEF FlowInv, InLoop
    <3>2. screen \in Waits
      BY <3>1 DEF OnScreen
    <3>3. Len(inbox) = 1
      BY <3>1, <3>2 DEF InStep
    <3> QED BY <3>3
  <2> QED BY <2>1, <2>2, <2>3 DEF NeverStuck
<1> QED BY <1>1, FlowSafe, PTL

\* Every step sends one reply, or none.
LEMMA StepFeeds ==
  ASSUME Typed, [Next]_vars
  PROVE  Fed \/ Len(inbox') <= Len(inbox)
<1>1. /\ fight \in Fights /\ battle \in Battle /\ prefAuto \in BOOLEAN
      /\ battle.actor \in Seats(battle.alive) /\ inbox \in Seq(Seq(Message))
      /\ screen = "rush" => battle.wave < WaveMax
  BY DEF Typed, TypeOK, SeatTaken, WaveAhead
<1>2. CASE \/ AskTurn \/ AskJudge \/ PerformEnd \/ Tap \/ SetAuto
           \/ ReaskTurn \/ CharInfo \/ ReportError \/ Retreat
  BY <1>1, <1>2, AskServes DEF Served
<1>3. CASE AskWave
  <2>1. NextWave(battle) /\ battle.wave < WaveMax
    BY <1>1, <1>3 DEF AskWave
  <2> QED BY <1>1, <2>1, NextWaveSteps, GoodOne DEF Fed
<1>4. CASE Deliver
  <2>1. inbox # <<>> /\ inbox' = Tail(inbox)
    BY <1>4 DEF Deliver
  <2> QED BY <1>1, <2>1, HeadTailProperties, EmptySeq, LenProperties
<1>5. CASE Reconnect
  <2>1. Len(inbox') = 0 /\ Len(inbox) \in Nat
    BY <1>1, <1>5, LenProperties DEF Reconnect
  <2> QED BY <2>1
<1>6. CASE UNCHANGED vars
  BY <1>6 DEF vars, Fed
<1>7. Finished => UNCHANGED vars
  BY DEF Finished
<1> QED BY <1>2, <1>3, <1>4, <1>5, <1>6, <1>7 DEF Next

\* No reply of any handler, to any request, makes two pushes into the
\* client's one command field, the opening of a wave's first turn aside.
THEOREM OnePushSafe == Spec => OnePush
<1>1. FlowInv /\ [Next]_vars =>
        [ Len(inbox') > Len(inbox) =>
            LET reply == Last(inbox')
            IN \A i, j \in DOMAIN reply :
                 i # j /\ reply[i].cmd \in Pushes /\ reply[j].cmd \in Pushes
                   => reply = <<Msg("WaveBegin"), Msg("StartTurn")>> ]_vars
  <2> SUFFICES ASSUME FlowInv, [Next]_vars, Len(inbox') > Len(inbox)
               PROVE  OnlyPush(Last(inbox'))
    BY DEF OnlyPush
  <2>1. Typed /\ inbox \in Seq(Seq(Message))
    BY DEF FlowInv, Typed, TypeOK
  <2>2. Len(inbox) \in Nat
    BY <2>1, LenProperties
  <2>3. CASE Len(inbox') <= Len(inbox)
    <3>1. Typed'
      BY <2>1, TypedStep
    <3>2. Len(inbox') \in Nat
      BY <3>1, LenProperties DEF Typed, TypeOK
    <3> QED BY <2>2, <2>3, <3>2
  <2>4. CASE inbox' = inbox
    BY <2>2, <2>4
  <2>5. ASSUME NEW reply, GoodReply(reply), inbox' = Append(inbox, reply)
        PROVE  OnlyPush(Last(inbox'))
    <3>1. reply \in Seq(Message) /\ OnlyPush(reply)
      BY <2>5 DEF GoodReply
    <3>2. Len(inbox') = Len(inbox) + 1 /\ inbox'[Len(inbox) + 1] = reply
      BY <2>1, <2>5, <3>1, AppendProperties
    <3> QED BY <3>1, <3>2 DEF Last
  <2> QED BY <2>1, <2>3, <2>4, <2>5, StepFeeds DEF Fed
<1> QED BY <1>1, FlowSafe, PTL DEF Spec, OnePush

\* A judge asked while a death is queued is answered with a death, whatever
\* else is queued and whoever is to act.
THEOREM JudgePaysSafe == Spec => JudgePays
<1>1. FlowInv /\ [Next]_vars =>
        [ (screen \in {"opening", "perform"} /\ screen' = "judging"
           /\ DeathsDue(battle) # {}) =>
            \E r \in DeathsDue(battle) :
              \E i \in DOMAIN Last(inbox') : r.order \in Last(inbox')[i].die ]_vars
  <2> SUFFICES ASSUME FlowInv, [Next]_vars, screen \in {"opening", "perform"},
                      screen' = "judging", DeathsDue(battle) # {}
               PROVE  \E r \in DeathsDue(battle) :
                        \E i \in DOMAIN Last(inbox') : r.order \in Last(inbox')[i].die
    OBVIOUS
  <2>1. /\ fight \in Fights /\ battle \in Battle /\ inbox \in Seq(Seq(Message)) /\ Short
    BY DEF FlowInv, Typed, TypeOK
  <2>2. Judge(battle)
    <3>1. CASE AskJudge
      BY <3>1 DEF AskJudge, Ask
    <3>2. CASE PerformEnd
      <4>1. \A cmd \in fight.reasks : cmd \in {"Judge", "StartTurn"}
        BY <2>1, FlowAssumption DEF FlowAssumption, Setting
      <4> QED BY <3>2, <4>1 DEF PerformEnd, Ask
    <3>3. ~Deliver
      <4>1. \A at, m : Enters(at, m) = "judging" => at = "judging"
        BY DEF Enters
      <4> QED BY <4>1 DEF Deliver, Lands
    <3> QED BY <3>1, <3>2, <3>3 DEF Next, vars, AskTurn, Tap, AskWave, SetAuto, ReaskTurn,
              CharInfo, ReportError, Retreat, Reconnect, Finished
  <2>3. Drained(battle, <<>>)
    BY <2>2 DEF Judge
  <2>4. PICK r \in DeathsDue(battle) :
          inbox' = Append(inbox, <<Hit(IF r.die THEN {r.order} ELSE {}, {})>>)
    BY <2>1, <2>3, DrainSteps DEF Answer, DeathsDue
  <2> DEFINE h == Hit({r.order}, {})
  <2>5. inbox' = Append(inbox, <<h>>)
    BY <2>4 DEF DeathsDue
  <2>6. h \in Message /\ h.die = {r.order}
    BY <2>1, RowFacts, MsgFacts DEF DeathsDue
  <2> HIDE DEF h
  <2>7. Last(inbox') = <<h>>
    <3>1. <<h>> \in Seq(Message)
      BY <2>6
    <3>2. Len(inbox') = Len(inbox) + 1 /\ inbox'[Len(inbox) + 1] = <<h>>
      BY <2>1, <2>5, <3>1, AppendProperties
    <3> QED BY <3>2 DEF Last
  <2>8. 1 \in DOMAIN Last(inbox') /\ Last(inbox')[1] = h
    BY <2>7
  <2> QED BY <2>6, <2>8
<1> QED BY <1>1, FlowSafe, PTL DEF Spec, JudgePays

=============================================================================
