------------------------------- MODULE Updater -------------------------------
(***************************************************************************)
(* Hot updates of the server on the phone: UpdateManager.java fetches a    *)
(* snapshot of the code, main.py puts it ahead of the copy the APK shipped *)
(* with, and a process runs what it has imported until it dies.            *)
(*                                                                         *)
(* A snapshot directory is what each file of it is: absent, half written   *)
(* or whole.  A build is its hash; Shipped is the code in the APK.  Every  *)
(* tap of the button starts a thread, a press, and nothing keeps a second  *)
(* one out: presses share the directories, the downloaded zip and the file *)
(* that becomes active.txt.  What a shared zip or a shared active.txt.tmp  *)
(* does to a press is a choice over all it may do.  "lone" marks a press   *)
(* that no other has overlapped, and "tangled" is history: presses have    *)
(* overlapped, and no lone one has named a snapshot since.                 *)
(***************************************************************************)
EXTENDS Integers, SequencesExt

CONSTANTS
  Files,       \* the files of a snapshot, in the order of the zip
  Marker,      \* titan_server.py
  Settings,    \* settings.py
  Builds,      \* hashes of the channel's releases, in order of release
  Shipped, None,
  Presses,     \* update threads: numbers, so that the first free one is used
  MaxTaps,     \* bound on presses that find news
  MaxDeaths    \* bound on processes that die

UpdaterAssumption ==
  /\ Files \in Seq(Range(Files)) /\ IsInjective(Files)
  /\ {Marker, Settings} \subseteq Range(Files)
  /\ Builds \in Seq(Range(Builds)) /\ IsInjective(Builds) /\ Shipped \notin Range(Builds)
  /\ None \notin Range(Builds) \cup {Shipped}
  /\ Presses \subseteq Nat /\ MaxTaps \in Nat /\ MaxDeaths \in Nat
ASSUME UpdaterAssumption

VARIABLES
  channel,  \* releases published so far
  pointer,  \* active.txt: a hash or None
  dirs,     \* [hash -> [file -> absent, half or whole]]
  job,      \* the update threads
  tangled,
  process,  \* the interpreter: search path and imported modules
  taps,     \* presses that found news so far
  deaths

updateVars == <<channel, pointer, dirs, job, tangled, process, taps, deaths>>

Names == Range(Files)
Hashes == Range(Builds)
Empty == [f \in Names |-> "absent"]
Idle == [at |-> "idle", hash |-> None, next |-> 0, lone |-> TRUE]
Cold == [path |-> <<>>, mods |-> [f \in Names |-> None], server |-> "off"]

IsFile(h, f) == dirs[h][f] # "absent"

-----------------------------------------------------------------------------
(* Presses of "Check for updates" (checkAndApply).                         *)

Publish ==
  /\ channel < Len(Builds)
  /\ channel' = channel + 1
  /\ UNCHANGED <<pointer, dirs, job, tangled, process, taps, deaths>>

Goes(p, at) == job' = [job EXCEPT ![p].at = at]
Advances(p, at) ==
  job' = [job EXCEPT ![p] = [@ EXCEPT !.at = at, !.next = job[p].next + 1]]
Ends(p) == job' = [job EXCEPT ![p] = Idle]
Fails(p) == Ends(p) /\ UNCHANGED <<pointer, dirs, tangled>>

Busy == {p \in Presses : job[p].at # "idle"}

\* The manifest names the latest release, and active.txt alone decides whether
\* it is news; if it is not, the press is over.
Check(p) ==
  /\ job[p].at = "idle" /\ \A q \in Presses \ Busy : p <= q
  /\ channel > 0 /\ pointer # Builds[channel]
  /\ taps < MaxTaps /\ taps' = taps + 1
  /\ job' = [q \in Presses |->
               IF q = p THEN [at |-> "look", hash |-> Builds[channel], next |-> 1,
                              lone |-> Busy = {}]
               ELSE IF q \in Busy THEN [job[q] EXCEPT !.lone = FALSE] ELSE job[q]]
  /\ tangled' = (tangled \/ Busy # {})
  /\ UNCHANGED <<pointer, dirs>>

\* A directory with the marker in it is taken for the snapshot.
Look(p) ==
  /\ job[p].at = "look"
  /\ Goes(p, IF IsFile(job[p].hash, Marker) THEN "switch" ELSE "download")
  /\ UNCHANGED <<pointer, dirs, tangled>>

\* Download and checksum: the zip is whole or the press has failed.
Download(p) ==
  /\ job[p].at = "download"
  /\ Goes(p, "clear") /\ UNCHANGED <<pointer, dirs, tangled>>

\* deleteRecursive, file by file; what another press writes meanwhile may stay.
Sweep(p, hs, then) ==
  /\ \/ \E h \in hs, f \in Names :
          IsFile(h, f) /\ dirs' = [dirs EXCEPT ![h][f] = "absent"] /\ UNCHANGED job
     \/ /\ job[p].lone => \A h \in hs : dirs[h] = Empty
        /\ then /\ UNCHANGED dirs
  /\ UNCHANGED <<pointer, tangled>>

\* What is left of an earlier extraction under this name goes first.
Clear(p) == job[p].at = "clear" /\ Sweep(p, {job[p].hash}, Goes(p, "extract"))

\* A file is created, or cut to nothing if it is there.  A zip that another
\* press is writing again may seem to end early.
Extract(p) ==
  /\ job[p].at = "extract"
  /\ \/ /\ dirs' = [dirs EXCEPT ![job[p].hash][Files[job[p].next]] = "half"]
        /\ Goes(p, "write")
     \/ ~job[p].lone /\ Goes(p, "verify") /\ UNCHANGED dirs
  /\ UNCHANGED <<pointer, tangled>>

\* Then it is written.  If another press has deleted it, or cut it again, what
\* is written is not seen under the name, or not as a whole.
Write(p) ==
  LET f == Files[job[p].next]
  IN /\ job[p].at = "write"
     /\ \/ /\ IsFile(job[p].hash, f)
           /\ dirs' = [dirs EXCEPT ![job[p].hash][f] = "whole"]
        \/ ~job[p].lone /\ UNCHANGED dirs
     /\ Advances(p, IF job[p].next = Len(Files) THEN "verify" ELSE "extract")
     /\ UNCHANGED <<pointer, tangled>>

Verify(p) ==
  /\ job[p].at = "verify"
  /\ Goes(p, IF IsFile(job[p].hash, Marker) THEN "switch" ELSE "scrap")
  /\ UNCHANGED <<pointer, dirs, tangled>>

Scrap(p) == job[p].at = "scrap" /\ Sweep(p, {job[p].hash}, Ends(p))

\* active.txt is written aside and renamed into place.  The file aside is the
\* same for all presses: it may hold what another one has written, or nothing.
Switch(p) ==
  /\ job[p].at = "switch"
  /\ pointer' \in {job[p].hash} \cup
        IF job[p].lone THEN {} ELSE {None} \cup {job[q].hash : q \in Busy}
  /\ Goes(p, "prune")
  /\ tangled' = (tangled /\ ~job[p].lone)
  /\ UNCHANGED dirs

\* Variant: the snapshot that was active before is kept, not the new one.
PruneNew(p) == job[p].at = "prune" /\ Sweep(p, {job[p].hash}, Ends(p))

\* Every other snapshot goes, the one the server runs from included.
Prune(p) == job[p].at = "prune" /\ Sweep(p, Hashes \ {job[p].hash}, Ends(p))

\* A connection, the checksum, a full disk or the rename may fail.
Failed(p) ==
  job[p].at \in {"look", "download", "extract", "write", "switch"} /\ Fails(p)

\* The long press: back to the shipped code at the next start.
Reset ==
  /\ pointer # None /\ pointer' = None
  /\ UNCHANGED <<channel, dirs, job, tangled, process, taps, deaths>>

-----------------------------------------------------------------------------
(* The process (main.py).                                                  *)

\* Variant: any snapshot on disk will do when nothing is named.
ActiveDirFound ==
  LET there == {h \in Hashes : IsFile(h, Marker)}
  IN IF pointer # None /\ IsFile(pointer, Marker) THEN pointer
     ELSE IF there = {} THEN None ELSE CHOOSE h \in there : TRUE

\* active_update_dir
ActiveDir == IF pointer # None /\ IsFile(pointer, Marker) THEN pointer ELSE None

\* Import resolution: the first place on the path that has the module.
Source(path, f) ==
  LET found == {i \in DOMAIN path : path[i] = Shipped \/ IsFile(path[i], f)}
  IN IF found = {} THEN None ELSE path[Min(found)]

Broken(path, f) == Source(path, f) \in Hashes /\ dirs[Source(path, f)][f] = "half"

Imported(mods, path, fs) ==
  [f \in Names |-> IF f \in fs /\ mods[f] = None THEN Source(path, f) ELSE mods[f]]

OnPath(path, h) == IF h = None \/ Contains(path, h) THEN path ELSE <<h>> \o path

\* The rates screen imports settings by itself, from the shipped code unless
\* the server has put an update on the path before.
OpenRates ==
  LET path == OnPath(process.path, Shipped)
  IN /\ ~Broken(path, Settings)
     /\ process' = [process EXCEPT !.path = path,
                                   !.mods = Imported(@, path, {Settings})]
     /\ UNCHANGED <<channel, pointer, dirs, job, tangled, taps, deaths>>

\* start_server: the update goes in front, and every module is imported that
\* this process has not imported yet; what was imported before a bad one stays.
StartServer ==
  LET path == OnPath(OnPath(process.path, Shipped), ActiveDir)
      fresh == {f \in Names : process.mods[f] = None}
      bad == {f \in fresh : Broken(path, f)}
  IN /\ process.server # "on"
     /\ process' \in
          IF bad = {}
          THEN {[path |-> path, mods |-> Imported(process.mods, path, Names),
                 server |-> "on"]}
          ELSE {[path |-> path, mods |-> Imported(process.mods, path, done),
                 server |-> "failed"] : done \in SUBSET (fresh \ bad)}
     /\ UNCHANGED <<channel, pointer, dirs, job, tangled, taps, deaths>>

StopServer ==
  /\ process.server = "on"
  /\ process' = [process EXCEPT !.server = "off"]
  /\ UNCHANGED <<channel, pointer, dirs, job, tangled, taps, deaths>>

\* "Restart now", or Android: the update threads go with the process.
Die ==
  /\ deaths < MaxDeaths
  /\ deaths' = deaths + 1
  /\ process' = Cold /\ job' = [p \in Presses |-> Idle]
  /\ UNCHANGED <<channel, pointer, dirs, tangled, taps>>

-----------------------------------------------------------------------------
UpdateInit ==
  /\ channel = 0 /\ pointer = None
  /\ dirs = [h \in Hashes |-> Empty]
  /\ job = [p \in Presses |-> Idle] /\ tangled = FALSE
  /\ process = Cold /\ taps = 0 /\ deaths = 0

UpdateStep(p) ==
  /\ \/ Check(p)
     \/ /\ \/ Look(p) \/ Download(p) \/ Clear(p) \/ Extract(p) \/ Write(p)
           \/ Verify(p) \/ Scrap(p) \/ Switch(p) \/ Prune(p) \/ Failed(p)
        /\ UNCHANGED taps
  /\ UNCHANGED <<channel, process, deaths>>

UpdateNext ==
  \/ Publish \/ Reset \/ \E p \in Presses : UpdateStep(p)
  \/ OpenRates \/ StartServer \/ StopServer \/ Die

UpdateSpec == UpdateInit /\ [][UpdateNext]_updateVars

-----------------------------------------------------------------------------
(* Properties.                                                             *)

\* "Already up to date" can never drift from what the next start loads: the
\* snapshot that active.txt names is there for active_update_dir to take,
\* after failed presses, resets, deaths and whatever was deleted, and again
\* after presses that overlapped as soon as one alone has named a snapshot.
PointerIsThere == pointer # None /\ ~tangled => IsFile(pointer, Marker)

\* The way back from a bad update: after a reset, a process that has not put
\* an update on its path starts, and runs the shipped code only.
ResetRecovers ==
  [][(pointer = None /\ Range(process.path) \subseteq {Shipped}
        /\ process'.server # process.server /\ process'.server # "off") =>
       /\ process'.server = "on"
       /\ \A f \in Names : process'.mods[f] = Shipped]_updateVars

=============================================================================
