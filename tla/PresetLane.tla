------------------------------ MODULE PresetLane ------------------------------
(***************************************************************************)
(* Presets: whole configurations HQPTuner keeps in a directory of its own,   *)
(* with a pointer at the active one, and drives onto the daemon through      *)
(* POST /restore.  The daemon restarts on every restore, keeps a mirror of   *)
(* each preset under data/cfgs, and boots its live settings from its file.   *)
(*                                                                          *)
(* A load moves the pointer, a save and an auto-save write the store, and    *)
(* between a request's reading of one and its writing of the other the       *)
(* daemon restarts, fails, or adopts an archive and does not say so; the     *)
(* application itself can die and start again with the disk as it was.       *)
(***************************************************************************)
EXTENDS Naturals, FiniteSets

CONSTANTS
    Routes,    \* requests under way at once
    Names,     \* preset names
    Values,    \* values of a persistent setting, and of a live one
    First,     \* the value of both in the configuration first found
    None,
    MaxCalls, MaxLost, MaxFailed, MaxExpired, MaxDeaths, MaxStale \* bounds on the environment

ASSUME FirstAssumption == First \in Values
ASSUME BoundsAssumption == {MaxCalls, MaxLost, MaxFailed, MaxExpired, MaxDeaths, MaxStale} \subseteq Nat

\* A configuration: a persistent setting, the boot value of a live one, and whose it
\* is, which no file says: the preset it was loaded from or saved as.
Config == [tone : Values, live : Values, of : Names \cup {None}]
Archives == Config \cup {None}

ASSUME NoneAssumption == None \notin Names \cup Values \cup Config

VARIABLES
    daemon,  \* the working file and the name it runs under, what the engine plays, the mirrors, its phase
    disk,    \* the store, the active pointer, auto-save, auto-pilot and who carries it
    memory,  \* of the process: what State last said, the import, and flips of the switch under way
    route,   \* per request, where it awaits and what it holds there
    kept,    \* history: per preset, where the user left auto-pilot with it, if that was said
    deleted, \* history: per preset, whether the user deleted it, and whether its mirror went too
    spent    \* environment steps against their bounds

vars == <<daemon, disk, memory, route, kept, deleted, spent>>

Bounded == {"calls", "lost", "failed", "expired", "deaths", "stale"}
Budget == [calls |-> MaxCalls, lost |-> MaxLost, failed |-> MaxFailed, expired |-> MaxExpired,
           deaths |-> MaxDeaths, stale |-> MaxStale]
Spend(k) == spent[k] < Budget[k] /\ spent' = [spent EXCEPT ![k] = @ + 1]

Nothing == [n \in Names |-> None]
Idle == [at |-> "idle", verb |-> "none", name |-> None, value |-> None, xml |-> None, cfgs |-> Nothing]

\* What HQPTuner finds: the unnamed configuration, or a profile of the daemon's own.
Found(h) == [tone |-> First, live |-> First, of |-> h]

Init ==
    /\ daemon \in {[file |-> Found(h), named |-> h, plays |-> First, phase |-> "serving",
                    cfgs |-> [n \in Names |-> IF n = h THEN Found(h) ELSE None]] : h \in Names \cup {None}}
    /\ disk \in [store : {[n \in Names |-> None]}, active : {None}, autosave : BOOLEAN,
                 pilot : BOOLEAN, carried : {[n \in Names |-> FALSE]}]
    /\ memory = [live |-> First, import |-> "asked", hint |-> daemon.named, snapshots |-> Nothing, flips |-> 0]
    /\ route = [t \in Routes |-> Idle]
    /\ kept = [n \in Names |-> {}] /\ deleted = [n \in Names |-> "no"] /\ spent = [k \in Bounded |-> 0]

-----------------------------------------------------------------------------
At(t, place) == route[t].at = place
Goes(t, rec) == route' = [route EXCEPT ![t] = rec]
Answers == daemon.phase # "down"

\* live_overrides: the file with what State says the engine plays, where it says so.
Heard(xml) == [xml EXCEPT !.live = IF memory.live = None THEN @ ELSE memory.live]

\* What a restore carries for a setting no live write ever put in the file: State,
\* else the active preset's stored value.
Carried(xml) ==
    LET n == disk.active
        base == IF n = None \/ disk.store[n] = None THEN xml ELSE [xml EXCEPT !.live = disk.store[n].live]
    IN  Heard(base)

\* history: the switch stands at p with preset n; what was said before, if otherwise,
\* says nothing any more.
Moved(n, p) == IF n = None THEN kept ELSE [kept EXCEPT ![n] = @ \cap {p}]

\* The store commits: the preset, and auto-pilot as the preset's.
Stored(d, n, xml) == [d EXCEPT !.store[n] = xml, !.carried[n] = d.pilot]

\* autosave: the name is read now, the backup an await later.
Folding(d) == IF d.autosave /\ d.active # None
              THEN [Idle EXCEPT !.at = "backup", !.verb = "fold", !.name = d.active] ELSE Idle

-----------------------------------------------------------------------------
(* What starts a request.                                                   *)

\* Loading reads the preset before anything is asked of the daemon.  `switch` is a
\* load as the first step of an apply, which an auto-save follows.
Load(t, n, verb) ==
    /\ At(t, "idle") /\ verb \in {"load", "switch"} /\ disk.store[n] # None /\ Spend("calls")
    /\ Goes(t, [Idle EXCEPT !.at = "backup", !.verb = verb, !.name = n, !.xml = disk.store[n]])
    /\ UNCHANGED <<daemon, disk, memory, kept, deleted>>

Save(t, n) ==
    /\ At(t, "idle") /\ Spend("calls")
    /\ Goes(t, [Idle EXCEPT !.at = "backup", !.verb = "save", !.name = n])
    /\ UNCHANGED <<daemon, disk, memory, kept, deleted>>

\* A staged apply of the persistent setting.
Apply(t, v) ==
    /\ At(t, "idle") /\ Spend("calls")
    /\ Goes(t, [Idle EXCEPT !.at = "backup", !.verb = "apply", !.value = v])
    /\ UNCHANGED <<daemon, disk, memory, kept, deleted>>

\* A live write, verified and read back, and the auto-save behind it.  It leaves
\* auto-pilot's switch at p: the high-frequency filter written by hand stands auto-pilot
\* down, and a live snapshot brings a switch of its own.  Neither marks the preset.
LiveWrite(t, v, p) ==
    /\ At(t, "idle") /\ Answers /\ Spend("calls")
    /\ daemon' = [daemon EXCEPT !.plays = v] /\ memory' = [memory EXCEPT !.live = v]
    /\ disk' = [disk EXCEPT !.pilot = p] /\ kept' = Moved(disk.active, p)
    /\ Goes(t, Folding(disk')) /\ UNCHANGED deleted

\* Auto-pilot is stood down ahead of the write, and the write refused.
StandsDown(t) ==
    /\ At(t, "idle") /\ Spend("calls")
    /\ disk' = [disk EXCEPT !.pilot = FALSE] /\ kept' = Moved(disk.active, FALSE)
    /\ UNCHANGED <<daemon, memory, route, deleted>>

\* Mutant: the pointer is left at the preset that is gone.
DeleteKeepsPointer(t, n) ==
    /\ At(t, "idle") /\ disk.store[n] # None /\ Spend("calls")
    /\ disk' = [disk EXCEPT !.store[n] = None]
    /\ deleted' = [deleted EXCEPT ![n] = "deleted"]
    /\ Goes(t, [Idle EXCEPT !.at = "unmirror", !.name = n])
    /\ UNCHANGED <<daemon, memory, kept>>

\* The store first, then the pointer at it, then the daemon's mirror.
Delete(t, n) ==
    /\ At(t, "idle") /\ disk.store[n] # None /\ Spend("calls")
    /\ disk' = [disk EXCEPT !.store[n] = None, !.active = IF @ = n THEN None ELSE @]
    /\ deleted' = [deleted EXCEPT ![n] = "deleted"]
    /\ Goes(t, [Idle EXCEPT !.at = "unmirror", !.name = n])
    /\ UNCHANGED <<daemon, memory, kept>>

Unload(t) ==
    /\ At(t, "idle") /\ disk.active # None /\ Spend("calls")
    /\ disk' = [disk EXCEPT !.active = None]
    /\ UNCHANGED <<daemon, memory, route, kept, deleted>>

SetAutosave ==
    /\ Spend("calls") /\ disk' = [disk EXCEPT !.autosave = ~@]
    /\ UNCHANGED <<daemon, memory, route, kept, deleted>>

\* The route that flips the switch runs in a thread of its own: the switch first,
SwitchPilot(p) ==
    /\ Spend("calls") /\ disk' = [disk EXCEPT !.pilot = p] /\ kept' = Moved(disk.active, p)
    /\ memory' = [memory EXCEPT !.flips = @ + 1]
    /\ UNCHANGED <<daemon, route, deleted>>

Armed == disk.autosave /\ disk.active # None

\* Mutant: the active preset's copy is left as it was.
StampNothing ==
    /\ memory.flips > 0 /\ memory' = [memory EXCEPT !.flips = @ - 1]
    /\ kept' = IF Armed THEN [kept EXCEPT ![disk.active] = {disk.pilot}] ELSE kept
    /\ UNCHANGED <<daemon, disk, route, deleted, spent>>

\* then the active preset's copy of it as it stands by now, when auto-save is armed.  The
\* answer says the switch as it stands.
StampPilot ==
    /\ memory.flips > 0 /\ memory' = [memory EXCEPT !.flips = @ - 1]
    /\ disk' = IF Armed THEN [disk EXCEPT !.carried[disk.active] = disk.pilot] ELSE disk
    /\ kept' = IF Armed THEN [kept EXCEPT ![disk.active] = {disk.pilot}] ELSE kept
    /\ UNCHANGED <<daemon, route, deleted, spent>>

-----------------------------------------------------------------------------
(* A request goes on.                                                       *)

\* Mutant: a preset saved off the file alone.
BackupUnheard(t) ==
    /\ At(t, "backup") /\ Answers
    /\ LET rec == [route[t] EXCEPT !.at = "post", !.cfgs = daemon.cfgs]
       IN  /\ disk' = IF rec.verb \in {"save", "fold"} THEN Stored(disk, rec.name, daemon.file) ELSE disk
           /\ Goes(t, IF rec.verb = "fold" THEN Idle ELSE rec)
    /\ UNCHANGED <<daemon, memory, kept, deleted, spent>>

\* The archive posted is the one read, with a configuration of its own and a mirror of
\* that under one name, or under none.
Builds(t, xml, n) ==
    Goes(t, [route[t] EXCEPT !.at = "post", !.xml = xml,
                             !.cfgs = IF n = None THEN daemon.cfgs ELSE [daemon.cfgs EXCEPT ![n] = xml]])

BuildsLoad(t) ==
    /\ route[t].verb \in {"load", "switch"} /\ Builds(t, route[t].xml, route[t].name)
    /\ UNCHANGED <<daemon, disk, kept, deleted>>

\* An apply mirrors the active preset when auto-save is armed.
BuildsApply(t) ==
    /\ route[t].verb = "apply"
    /\ Builds(t, [Carried(daemon.file) EXCEPT !.tone = route[t].value],
              IF disk.autosave /\ disk.active # None /\ disk.store[disk.active] # None THEN disk.active ELSE None)
    /\ UNCHANGED <<daemon, disk, kept, deleted>>

\* A save commits what is heard, moves the pointer and mirrors.
Saves(t) ==
    /\ route[t].verb = "save"
    /\ LET n == route[t].name
           own == [Heard(daemon.file) EXCEPT !.of = n]
       IN  /\ disk' = [Stored(disk, n, own) EXCEPT !.active = n]
           /\ daemon' = [daemon EXCEPT !.file.of = n]
           /\ kept' = [kept EXCEPT ![n] = {disk.pilot}] /\ deleted' = [deleted EXCEPT ![n] = "no"]
           /\ Builds(t, own, n)

\* An auto-save only commits, under the name it read before.
Folds(t) ==
    /\ route[t].verb = "fold"
    /\ disk' = Stored(disk, route[t].name, Heard(daemon.file))
    /\ kept' = [kept EXCEPT ![route[t].name] = IF @ = {} THEN {disk.pilot} ELSE @]
    /\ Goes(t, Idle) /\ UNCHANGED <<daemon, deleted>>

\* The daemon's archive arrives.
Backup(t) ==
    /\ At(t, "backup") /\ Answers
    /\ BuildsLoad(t) \/ BuildsApply(t) \/ Saves(t) \/ Folds(t)
    /\ UNCHANGED <<memory, spent>>

BackupFails(t) ==
    /\ At(t, "backup") /\ ~Answers /\ Goes(t, Idle)
    /\ UNCHANGED <<daemon, disk, memory, kept, deleted, spent>>

\* The archive is adopted whole and runs unnamed, and mirrors it does not hold stay.
\* The engine goes on with what it plays until the restart the archive brings about.
Adopted(rec) ==
    [daemon EXCEPT !.file = rec.xml, !.named = None, !.phase = "doomed",
                   !.cfgs = [n \in Names |-> IF rec.cfgs[n] # None THEN rec.cfgs[n] ELSE @[n]]]

\* Mutant: the pointer moves only with the end of the load.
PostPointsLater(t) ==
    /\ At(t, "post") /\ Answers
    /\ daemon' = Adopted(route[t])
    /\ Goes(t, [route[t] EXCEPT !.at = "wait"])
    /\ UNCHANGED <<disk, memory, kept, deleted, spent>>

\* The pointer moves once the daemon answered, ahead of its restart.
Post(t) ==
    /\ At(t, "post") /\ Answers
    /\ daemon' = Adopted(route[t])
    /\ disk' = IF route[t].verb \in {"load", "switch"} THEN [disk EXCEPT !.active = route[t].name] ELSE disk
    /\ Goes(t, [route[t] EXCEPT !.at = "wait"])
    /\ UNCHANGED <<memory, kept, deleted, spent>>

\* Adopted, and the answer lost, or the application killed before it came: a load and
\* an apply end there, a mirror is posted again.
PostLost(t) ==
    /\ At(t, "post") /\ Answers /\ Spend("lost")
    /\ daemon' = Adopted(route[t])
    /\ Goes(t, IF route[t].verb = "save" THEN route[t] ELSE Idle)
    /\ UNCHANGED <<disk, memory, kept, deleted>>

\* Nothing answers: a load and an apply are refused, a mirror is retried to its
\* deadline and the save stands without it.
PostGivesUp(t) ==
    /\ At(t, "post") /\ ~Answers /\ Goes(t, Idle)
    /\ UNCHANGED <<daemon, disk, memory, kept, deleted, spent>>

\* await_ready: on the daemon the restart brought back, or at the deadline on what
\* there is.  The mirror of a save reads nothing again.
Waited(t) == Goes(t, IF route[t].verb = "save" THEN Idle ELSE [route[t] EXCEPT !.at = "resync"])
AwaitReady(t) ==
    /\ At(t, "wait") /\ daemon.phase = "serving" /\ Waited(t)
    /\ UNCHANGED <<daemon, disk, memory, kept, deleted, spent>>

\* The deadline passes with the daemon still to go down, or not back.
WaitExpires(t) ==
    /\ At(t, "wait") /\ daemon.phase # "serving" /\ Spend("expired") /\ Waited(t)
    /\ UNCHANGED <<daemon, disk, memory, kept, deleted>>

\* What a request does once the engine was read again: a load puts auto-pilot back.
Settles(t) ==
    /\ disk' = IF route[t].verb = "apply" THEN disk ELSE [disk EXCEPT !.pilot = disk.carried[route[t].name]]
    /\ Goes(t, IF route[t].verb = "load" THEN Idle ELSE [Folding(disk') EXCEPT !.xml = IF route[t].verb = "switch" THEN route[t].xml ELSE None])

\* Mutant: the readings of the engine before the restart stand.
ResyncSkipped(t) == At(t, "resync") /\ Settles(t) /\ UNCHANGED <<daemon, memory, kept, deleted, spent>>

Resync(t) ==
    /\ At(t, "resync") /\ Settles(t)
    /\ memory' = [memory EXCEPT !.live = IF Answers THEN daemon.plays ELSE None]
    /\ UNCHANGED <<daemon, kept, deleted, spent>>

\* The file cannot be read again, and the request fails with the pointer moved and
\* auto-pilot not put back.
ReadBackFails(t) ==
    /\ At(t, "resync") /\ ~Answers /\ Goes(t, Idle)
    /\ memory' = [memory EXCEPT !.live = None]
    /\ UNCHANGED <<daemon, disk, kept, deleted, spent>>

\* profile/delete: a restore adds and replaces mirrors and cannot take one away.  The
\* preset is gone then, unless the import holds a snapshot of it by now.
Unmirror(t) ==
    /\ At(t, "unmirror") /\ Answers
    /\ LET n == route[t].name
       IN  /\ daemon' = [daemon EXCEPT !.cfgs[n] = None]
           /\ deleted' = [deleted EXCEPT ![n] = IF disk.store[n] # None THEN @
                                               ELSE IF memory.snapshots[n] # None THEN "overtaken" ELSE "gone"]
    /\ Goes(t, Idle)
    /\ UNCHANGED <<disk, memory, kept, spent>>

\* A mirror that could not be removed is not reported.
UnmirrorFails(t) ==
    /\ At(t, "unmirror") /\ Spend("failed") /\ Goes(t, Idle)
    /\ UNCHANGED <<daemon, disk, memory, kept, deleted>>

-----------------------------------------------------------------------------
(* The loop, the daemon, and the process.                                   *)

Poll ==
    /\ Answers /\ memory' = [memory EXCEPT !.live = daemon.plays]
    /\ UNCHANGED <<daemon, disk, route, kept, deleted, spent>>

\* The first connect of a process: the name the daemon runs under, and State,
Handshake ==
    /\ Answers /\ memory.import = "no"
    /\ memory' = [memory EXCEPT !.live = daemon.plays, !.import = "asked", !.hint = daemon.named]
    /\ UNCHANGED <<daemon, disk, route, kept, deleted, spent>>

\* later, over HTTP, the archive with the daemon's own snapshots,
MigrateReads ==
    /\ Answers /\ memory.import = "asked"
    /\ memory' = [memory EXCEPT !.import = "read", !.snapshots = daemon.cfgs]
    /\ UNCHANGED <<daemon, disk, route, kept, deleted, spent>>

\* and once it is here they are imported, where the store has none of that name, and the
\* name heard at the handshake is taken as active when none is, whether or not the
\* daemon still runs under it.
Migrate ==
    /\ memory.import = "read"
    /\ memory' = [memory EXCEPT !.import = "done", !.snapshots = Nothing]
    /\ LET store == [n \in Names |-> IF disk.store[n] = None THEN memory.snapshots[n] ELSE disk.store[n]]
           hint == memory.hint
           points == disk.active = None /\ hint # None /\ store[hint] # None
       IN  /\ disk' = [disk EXCEPT !.store = store, !.active = IF points THEN hint ELSE @]
           /\ kept' = IF points THEN Moved(hint, disk.pilot) ELSE kept
           /\ IF points /\ daemon.named # hint THEN Spend("stale") ELSE spent' = spent
    /\ UNCHANGED <<daemon, route, deleted>>

\* It is marked as done before it is awaited, and does not come again.
MigrateFails ==
    /\ memory.import = "asked" /\ Spend("failed")
    /\ memory' = [memory EXCEPT !.import = "done"]
    /\ UNCHANGED <<daemon, disk, route, kept, deleted>>

GoesDown ==
    /\ daemon.phase = "doomed" \/ (daemon.phase = "serving" /\ Spend("deaths"))
    /\ daemon.phase = "doomed" => spent' = spent
    /\ daemon' = [daemon EXCEPT !.phase = "down"]
    /\ UNCHANGED <<disk, memory, route, kept, deleted>>

ComesUp ==
    /\ ~Answers /\ daemon' = [daemon EXCEPT !.phase = "serving", !.plays = daemon.file.live]
    /\ UNCHANGED <<disk, memory, route, kept, deleted, spent>>

\* The application dies and starts again: the requests and the readings are gone, the
\* disk is as it was.
Reborn ==
    /\ Spend("deaths")
    /\ memory' = [live |-> None, import |-> "no", hint |-> None, snapshots |-> Nothing, flips |-> 0]
    /\ route' = [t \in Routes |-> Idle]
    /\ UNCHANGED <<daemon, disk, kept, deleted>>

-----------------------------------------------------------------------------
Proceeds(t) == Backup(t) \/ BackupFails(t) \/ Post(t) \/ PostGivesUp(t) \/ AwaitReady(t) \/ Resync(t) \/ ReadBackFails(t)
    \/ Unmirror(t)
Next ==
    \/ \E t \in Routes :
         \/ \E n \in Names : (\E verb \in {"load", "switch"} : Load(t, n, verb)) \/ Save(t, n) \/ Delete(t, n)
         \/ \E v \in Values : Apply(t, v) \/ \E p \in BOOLEAN : LiveWrite(t, v, p)
         \/ StandsDown(t) \/ Unload(t) \/ Proceeds(t) \/ PostLost(t) \/ WaitExpires(t) \/ UnmirrorFails(t)
    \/ SetAutosave \/ (\E p \in BOOLEAN : SwitchPilot(p)) \/ StampPilot
    \/ Poll \/ Handshake \/ MigrateReads \/ Migrate \/ MigrateFails \/ GoesDown \/ ComesUp \/ Reborn

Spec == Init /\ [][Next]_vars

-----------------------------------------------------------------------------
(* Properties.                                                              *)

DaemonType ==
    daemon \in [file : Config, named : Names \cup {None}, plays : Values,
                phase : {"serving", "doomed", "down"}, cfgs : [Names -> Archives]]
DiskType ==
    disk \in [store : [Names -> Archives], active : Names \cup {None}, autosave : BOOLEAN,
              pilot : BOOLEAN, carried : [Names -> BOOLEAN]]
MemoryType ==
    /\ memory \in [live : Values \cup {None}, import : {"no", "asked", "read", "done"}, hint : Names \cup {None},
                   snapshots : [Names -> Archives], flips : Nat]
    /\ memory.import # "read" => memory.snapshots = Nothing
Request ==
    [at : {"idle", "backup", "post", "wait", "resync", "unmirror"},
     verb : {"none", "load", "switch", "save", "apply", "fold"},
     name : Names \cup {None}, value : Values \cup {None}, xml : Archives, cfgs : [Names -> Archives]]

\* What a request awaits with: a name, a value, a configuration to post.
Equipped(q) ==
    /\ q.at = "backup" => q.verb # "none"
    /\ q.at = "unmirror" => q.name \in Names
    /\ q.at # "idle" /\ q.verb \in {"load", "switch", "save", "fold"} => q.name \in Names
    /\ q.at # "idle" /\ q.verb \in {"load", "switch"} => q.xml \in Config
    /\ q.at = "backup" /\ q.verb = "apply" => q.value \in Values
    /\ q.at = "post" => q.xml \in Config
    /\ q.at \in {"post", "wait", "resync"} => q.verb \in {"load", "switch", "save", "apply"}
    /\ q.at = "resync" => q.verb # "save"

\* Every file holds a configuration, and a request awaits what it can await, with what
\* it needs there.
TypeOK ==
    /\ DaemonType /\ DiskType /\ MemoryType
    /\ route \in [Routes -> Request] /\ \A t \in Routes : Equipped(route[t])
    /\ kept \in [Names -> SUBSET BOOLEAN] /\ deleted \in [Names -> {"no", "deleted", "overtaken", "gone"}]
    /\ spent \in [Bounded -> Nat] /\ \A k \in Bounded : spent[k] <= Budget[k]

\* No restore whose answer was lost, no wait given up, no death of either process.
Undisturbed == spent.lost = 0 /\ spent.expired = 0 /\ spent.deaths = 0

\* A preset holds its own configuration and never that of another one: what an
\* auto-save folds into the active preset was loaded from it or saved as it.  Three
\* exceptions: a load whose answer is lost leaves the daemon on one preset under the
\* pointer at another; a process that starts while the daemon still runs under a name
\* of its own points at that name, even if the user had unloaded it; and an import that
\* awaited its archive while the daemon was taken off the name heard before does too.
PresetsKeepTheirOwn ==
    spent.lost = 0 /\ spent.deaths = 0 /\ spent.stale = 0 =>
        \A n \in Names : disk.store[n] # None => disk.store[n].of = n

\* The same without the exception for the import.
KeepThroughImport ==
    spent.lost = 0 /\ spent.deaths = 0 => \A n \in Names : disk.store[n] # None => disk.store[n].of = n

\* The pointer is at a preset that exists, whatever dies in between.
ActiveExists == disk.active # None => disk.store[disk.active] # None

\* What a save or an auto-save stores of a live setting is what the listener hears,
\* not what the file or the engine before a restart said.
SavedIsHeard ==
    [][\A t \in Routes : Undisturbed /\ Backup(t) /\ route[t].verb \in {"save", "fold"}
          => disk'.store[route[t].name].live = daemon.plays]_vars

\* The auto-save that rides a load leaves the preset just loaded as it was.
RideLeavesPreset ==
    [][\A t \in Routes : Undisturbed /\ Backup(t) /\ route[t].verb = "fold" /\ route[t].xml # None
          => disk'.store[route[t].name] = route[t].xml]_vars

\* A load puts auto-pilot back where the user left it with that preset: where a flip of
\* the switch that was answered with the preset active and auto-save armed left it, or a
\* save, or the first auto-save after it moved otherwise; whatever other presets were
\* loaded, and auto-saves folded, since.  It says nothing while the switch was moved since
\* with that preset active and nothing recorded it, or an import put the pointer there.
PilotComesBack ==
    [][\A t \in Routes : Undisturbed /\ Resync(t) /\ route[t].verb \in {"load", "switch"}
          => kept[route[t].name] \subseteq {disk'.pilot}]_vars

\* With auto-save armed the active preset carries the switch (autopilot.set_autopilot),
\* between loads and flips.
ArmedCarries ==
    Armed /\ memory.flips = 0 /\ (\A t \in Routes : At(t, "idle")) => disk.carried[disk.active] = disk.pilot

\* A preset gone from the store, the daemon and the import does not come back but by a
\* save: no pointer left at it, no archive built before and no import brings it.
GoneStaysGone == \A n \in Names : deleted[n] = "gone" => disk.store[n] = None

\* The same of one that the import had read before its mirror went.
OvertakenStaysGone == \A n \in Names : deleted[n] \in {"overtaken", "gone"} => disk.store[n] = None

\* A deleted preset stays deleted, the import of the daemon's snapshots being
\* one-time (presetlane.migrate, PresetOps.migrate_once).
DeletedStaysDeleted == \A n \in Names : deleted[n] # "no" => disk.store[n] = None
=============================================================================
