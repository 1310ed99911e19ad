--------------------------- MODULE PresetLaneProofs ---------------------------
(* Proofs about the presets: types for any number of requests at once, and   *)
(* for one at a time that the pointer is at a preset, what is gone stays     *)
(* gone, every preset keeps its own configuration, what is stored is what is *)
(* heard, and auto-pilot comes back with its preset.                         *)
EXTENDS PresetLane, TLAPS

USE FirstAssumption, NoneAssumption, BoundsAssumption

\* One request at a time.
Alone == \A s, t \in Routes : s = t

\* A load has a preset to come back to, an auto-save the one it is for.
Present(t) ==
    /\ route[t].at \in {"backup", "post"} /\ route[t].verb \in {"load", "switch"} => disk.store[route[t].name] # None
    /\ At(t, "backup") /\ route[t].verb = "fold" => disk.active = route[t].name

Existing == ActiveExists /\ \A t \in Routes : Present(t)

\* Nothing holds a preset that is gone: not the store, the daemon, the import or an archive.
Vanished ==
    \A n \in Names : deleted[n] = "gone" =>
        /\ disk.store[n] = None /\ daemon.cfgs[n] = None /\ memory.snapshots[n] = None
        /\ \A t \in Routes : At(t, "post") => route[t].cfgs[n] = None

Calm == spent.lost = 0 /\ spent.deaths = 0 /\ spent.stale = 0

\* What lies under a name is that preset's.
Owned(cfgs) == \A n \in Names : cfgs[n] # None => cfgs[n].of = n

\* What a request is about to post is that of the preset it names, or of none it knows.
OwnPost(t) ==
    /\ At(t, "post") => Owned(route[t].cfgs)
    /\ route[t].at \in {"backup", "post"} /\ route[t].verb \in {"load", "switch"} => route[t].xml.of = route[t].name
    /\ At(t, "post") /\ route[t].verb = "apply" => route[t].xml.of = daemon.file.of
    /\ At(t, "post") /\ route[t].verb = "save" => route[t].xml.of = route[t].name /\ disk.active = route[t].name

\* The daemon runs the preset the pointer is at; under a name of its own, that one's,
\* unless a save is about to take the name away.
OwnFile ==
    /\ disk.active # None => daemon.file.of = disk.active
    /\ daemon.phase # "serving" => daemon.named = None
    /\ \/ daemon.named \in {None, daemon.file.of}
       \/ \E t \in Routes : At(t, "post") /\ route[t].verb = "save"

OwnAll ==
    /\ Owned(disk.store) /\ Owned(daemon.cfgs) /\ Owned(memory.snapshots)
    /\ OwnFile /\ \A t \in Routes : OwnPost(t)

\* What the requests that await a restart, or the auto-save behind one, have heard.
Restarting(t) == route[t].at \in {"wait", "resync"} /\ route[t].verb # "save"
Hearing(t) ==
    /\ At(t, "wait") /\ daemon.phase = "serving" => daemon.plays = daemon.file.live
    /\ At(t, "wait") /\ route[t].verb = "save" => daemon.plays = daemon.file.live
    /\ At(t, "resync") => daemon.phase = "serving" /\ daemon.plays = daemon.file.live
    /\ At(t, "post") /\ route[t].verb = "save" => route[t].xml.live = daemon.plays
    /\ route[t].at \in {"wait", "resync"} /\ route[t].verb = "switch" => daemon.file = route[t].xml
    /\ At(t, "backup") /\ route[t].verb = "fold" /\ route[t].xml # None =>
          daemon.file = route[t].xml /\ daemon.plays = daemon.file.live

HeardAll ==
    /\ daemon.phase # "serving" => \E t \in Routes : At(t, "wait")
    /\ memory.live = daemon.plays \/ \E t \in Routes : Restarting(t)
    /\ \A t \in Routes : Hearing(t)

\* A load between its post and its end, with the pointer at its preset.
Landing(t) == route[t].at \in {"wait", "resync"} /\ route[t].verb \in {"load", "switch"}

\* Where the user left auto-pilot with a preset is what the preset carries, and with the
\* active one, once its load is over, where the switch stands.
PilotAll ==
    /\ \A n \in Names : kept[n] \subseteq {disk.carried[n]}
    /\ \A t \in Routes : Landing(t) => disk.active = route[t].name
    /\ disk.active # None /\ (\A t \in Routes : ~Landing(t)) => kept[disk.active] \subseteq {disk.pilot}

CalmOwn == Calm => OwnAll
UndisturbedHeard == Undisturbed => HeardAll
UndisturbedPilot == Undisturbed => PilotAll

-----------------------------------------------------------------------------
(* Types.                                                                    *)

\* A configuration found, heard, carried or renamed is a configuration.
LEMMA FoundIsConfig == ASSUME NEW h \in Names \cup {None} PROVE Found(h) \in Config
  BY DEF Found, Config

LEMMA HeardIsConfig ==
    ASSUME MemoryType, NEW c \in Config
    PROVE  /\ Heard(c) \in Config /\ Heard(c).of = c.of
           /\ memory.live # None => Heard(c).live = memory.live
  BY DEF Heard, Config, MemoryType

LEMMA CarriedIsConfig ==
    ASSUME MemoryType, DiskType, NEW c \in Config
    PROVE  Carried(c) \in Config /\ Carried(c).of = c.of
  <1> DEFINE n == disk.active
             base == IF n = None \/ disk.store[n] = None THEN c ELSE [c EXCEPT !.live = disk.store[n].live]
  <1>1. base \in Config /\ base.of = c.of
    BY DEF DiskType, Archives, Config
  <1>2. Heard(base) \in Config /\ Heard(base).of = base.of
    <2> HIDE DEF base
    <2>1. QED
      BY <1>1, HeardIsConfig
  <1>3. QED
    BY <1>1, <1>2 DEF Carried

\* A request that goes on is a request where it goes, and no other moves.
LEMMA GoesTyped ==
    ASSUME route \in [Routes -> Request], \A s \in Routes : Equipped(route[s]),
           NEW t \in Routes, NEW rec \in Request, Equipped(rec), Goes(t, rec)
    PROVE  /\ route' \in [Routes -> Request] /\ \A s \in Routes : Equipped(route'[s])
           /\ route'[t] = rec /\ \A s \in Routes : s # t => route'[s] = route[s]
  BY DEF Goes

\* Nothing is nothing for every name.
LEMMA NothingIsArchives == Nothing \in [Names -> Archives] /\ \A n \in Names : Nothing[n] = None
  BY DEF Nothing, Archives

\* A request begins and ends with nothing in hand.
LEMMA IdleIsRequest == Idle \in Request /\ Equipped(Idle)
  BY NothingIsArchives DEF Idle, Request, Archives, Equipped

LEMMA FoldingIsRequest ==
    ASSUME NEW d, d.active \in Names \cup {None}
    PROVE  Folding(d) \in Request /\ Equipped(Folding(d)) /\ Folding(d).at \in {"idle", "backup"}
           /\ Folding(d).xml = None /\ (Folding(d).at = "backup" => Folding(d).verb = "fold" /\ Folding(d).name = d.active)
  BY NothingIsArchives DEF Folding, Idle, Request, Archives, Equipped

\* What was said of a preset says less after the switch moved.
LEMMA MovedIsKept ==
    ASSUME kept \in [Names -> SUBSET BOOLEAN], NEW n \in Names \cup {None}, NEW p \in BOOLEAN
    PROVE  /\ Moved(n, p) \in [Names -> SUBSET BOOLEAN]
           /\ \A m \in Names : Moved(n, p)[m] \subseteq kept[m]
           /\ n # None => Moved(n, p)[n] \subseteq {p}
  BY DEF Moved

\* A step within its bound keeps the account.
LEMMA SpendIsBounded ==
    ASSUME spent \in [Bounded -> Nat], \A k \in Bounded : spent[k] <= Budget[k], NEW j \in Bounded, Spend(j)
    PROVE  /\ spent' \in [Bounded -> Nat] /\ \A k \in Bounded : spent'[k] <= Budget[k]
           /\ spent'[j] = spent[j] + 1 /\ \A k \in Bounded : k # j => spent'[k] = spent[k]
  <1>1. \A k \in Bounded : Budget[k] \in Nat
    BY DEF Budget, Bounded
  <1>2. spent[j] + 1 \in Nat /\ spent[j] + 1 <= Budget[j]
    BY <1>1 DEF Spend
  <1>3. QED
    BY <1>1, <1>2 DEF Spend

\* The store after a save or an auto-save.
LEMMA StoredIsDisk ==
    ASSUME DiskType, NEW n \in Names, NEW xml \in Config
    PROVE  /\ Stored(disk, n, xml) \in [store : [Names -> Archives], active : Names \cup {None}, autosave : BOOLEAN,
                                        pilot : BOOLEAN, carried : [Names -> BOOLEAN]]
           /\ Stored(disk, n, xml).store = [disk.store EXCEPT ![n] = xml]
           /\ Stored(disk, n, xml).carried = [disk.carried EXCEPT ![n] = disk.pilot]
           /\ Stored(disk, n, xml).active = disk.active /\ Stored(disk, n, xml).autosave = disk.autosave
           /\ Stored(disk, n, xml).pilot = disk.pilot
  BY DEF DiskType, Stored, Archives

\* The archive a request builds, of a configuration and a mirror of it.
LEMMA BuildsTyped ==
    ASSUME DaemonType, route \in [Routes -> Request], NEW t \in Routes, NEW xml \in Config, NEW n \in Names \cup {None},
           At(t, "backup"), Equipped(route[t]), route[t].verb \in {"load", "switch", "save", "apply"},
           \A s \in Routes : Equipped(route[s]), Builds(t, xml, n)
    PROVE  /\ route' \in [Routes -> Request] /\ \A s \in Routes : Equipped(route'[s])
           /\ \A s \in Routes : s # t => route'[s] = route[s]
           /\ route'[t].at = "post" /\ route'[t].xml = xml
           /\ route'[t].verb = route[t].verb /\ route'[t].name = route[t].name
           /\ \A m \in Names : route'[t].cfgs[m] = IF m = n THEN xml ELSE daemon.cfgs[m]
  <1> DEFINE cfgs == IF n = None THEN daemon.cfgs ELSE [daemon.cfgs EXCEPT ![n] = xml]
             rec == [route[t] EXCEPT !.at = "post", !.xml = xml, !.cfgs = cfgs]
  <1>1. cfgs \in [Names -> Archives] /\ \A m \in Names : cfgs[m] = IF m = n THEN xml ELSE daemon.cfgs[m]
    BY DEF DaemonType, Archives
  <1> HIDE DEF cfgs
  <1>2. rec \in Request /\ rec.at = "post" /\ rec.xml = xml /\ rec.cfgs = cfgs /\ rec.verb = route[t].verb /\ rec.name = route[t].name
    BY <1>1, ZenonT(60) DEF Request, Archives
  <1>3. Equipped(rec)
    BY <1>2 DEF Equipped, At
  <1>4. Goes(t, rec)
    BY DEF Builds, cfgs
  <1> HIDE DEF rec
  <1>5. QED
    BY <1>1, <1>2, <1>3, <1>4, GoesTyped

\* What the requests keep of their types.
RoutesTyped == route \in [Routes -> Request] /\ \A t \in Routes : Equipped(route[t])
HistoryTyped ==
    /\ kept \in [Names -> SUBSET BOOLEAN] /\ deleted \in [Names -> {"no", "deleted", "overtaken", "gone"}]
    /\ spent \in [Bounded -> Nat] /\ \A k \in Bounded : spent[k] <= Budget[k]

\* What begins a request, or asks something of it at once.
Beginning(t) ==
    \/ \E n \in Names : (\E verb \in {"load", "switch"} : Load(t, n, verb)) \/ Save(t, n) \/ Delete(t, n)
    \/ \E v \in Values : Apply(t, v) \/ \E p \in BOOLEAN : LiveWrite(t, v, p)
    \/ StandsDown(t) \/ Unload(t)

\* The beginning of a request: a load, a save, an apply, a delete, a live write.
LEMMA CallsTyped ==
    ASSUME TypeOK, NEW t \in Routes, Beginning(t)
    PROVE  TypeOK'
  <1> USE DEF TypeOK
  <1>1. spent' \in [Bounded -> Nat] /\ \A k \in Bounded : spent'[k] <= Budget[k]
    BY SpendIsBounded DEF Beginning, Bounded, Load, Save, Apply, LiveWrite, StandsDown, Delete, Unload
  <1>2. ASSUME NEW n \in Names, NEW verb \in {"load", "switch"}, Load(t, n, verb) PROVE TypeOK'
    <2> DEFINE rec == [Idle EXCEPT !.at = "backup", !.verb = verb, !.name = n, !.xml = disk.store[n]]
    <2>1. disk.store[n] \in Config
      BY <1>2 DEF Load, DiskType, Archives
    <2>2. rec \in Request /\ Equipped(rec)
      BY <2>1, NothingIsArchives DEF Idle, Request, Archives, Equipped
    <2>3. Goes(t, rec)
      BY <1>2 DEF Load
    <2> HIDE DEF rec
    <2>4. RoutesTyped'
      BY <2>2, <2>3, GoesTyped DEF RoutesTyped
    <2>5. QED
      BY <1>1, <1>2, <2>4 DEF Load, RoutesTyped, DaemonType, DiskType, MemoryType
  <1>3. ASSUME (\E n \in Names : Save(t, n)) \/ \E v \in Values : Apply(t, v) PROVE TypeOK'
    <2>1. PICK rec : rec \in Request /\ Equipped(rec) /\ Goes(t, rec)
      <3>1. ASSUME NEW n \in Names, Save(t, n) PROVE \E rec : rec \in Request /\ Equipped(rec) /\ Goes(t, rec)
        <4> DEFINE rec == [Idle EXCEPT !.at = "backup", !.verb = "save", !.name = n]
        <4>1. rec \in Request /\ Equipped(rec)
          BY NothingIsArchives DEF Idle, Request, Archives, Equipped
        <4>2. QED
          BY <3>1, <4>1 DEF Save
      <3>2. ASSUME NEW v \in Values, Apply(t, v) PROVE \E rec : rec \in Request /\ Equipped(rec) /\ Goes(t, rec)
        <4> DEFINE rec == [Idle EXCEPT !.at = "backup", !.verb = "apply", !.value = v]
        <4>1. rec \in Request /\ Equipped(rec)
          BY NothingIsArchives DEF Idle, Request, Archives, Equipped
        <4>2. QED
          BY <3>2, <4>1 DEF Apply
      <3>3. QED
        BY <1>3, <3>1, <3>2
    <2>2. RoutesTyped'
      BY <2>1, GoesTyped DEF RoutesTyped
    <2>3. QED
      BY <1>1, <1>3, <2>2 DEF Save, Apply, RoutesTyped, DaemonType, DiskType, MemoryType
  <1>4. ASSUME NEW v \in Values, NEW p \in BOOLEAN, LiveWrite(t, v, p) PROVE TypeOK'
    <2>1. DiskType' /\ disk'.active = disk.active
      BY <1>4 DEF LiveWrite, DiskType
    <2>2. Folding(disk') \in Request /\ Equipped(Folding(disk')) /\ Goes(t, Folding(disk'))
      BY <1>4, <2>1, FoldingIsRequest DEF LiveWrite, DiskType
    <2>3. RoutesTyped'
      BY <2>2, GoesTyped DEF RoutesTyped
    <2>4. DaemonType' /\ MemoryType'
      BY <1>4 DEF LiveWrite, DaemonType, MemoryType
    <2>5. kept' \in [Names -> SUBSET BOOLEAN]
      BY <1>4, MovedIsKept DEF LiveWrite, DiskType
    <2>6. QED
      BY <1>1, <1>4, <2>1, <2>3, <2>4, <2>5 DEF LiveWrite, RoutesTyped
  <1>5. ASSUME NEW n \in Names, Delete(t, n) PROVE TypeOK'
    <2> DEFINE rec == [Idle EXCEPT !.at = "unmirror", !.name = n]
    <2>1. rec \in Request /\ Equipped(rec) /\ Goes(t, rec)
      BY <1>5, NothingIsArchives DEF Delete, Idle, Request, Archives, Equipped
    <2> HIDE DEF rec
    <2>2. RoutesTyped'
      BY <2>1, GoesTyped DEF RoutesTyped
    <2>3. DiskType'
      BY <1>5 DEF Delete, DiskType, Archives
    <2>4. QED
      BY <1>1, <1>5, <2>2, <2>3 DEF Delete, RoutesTyped, DaemonType, MemoryType
  <1>6. CASE Unload(t)
    BY <1>1, <1>6 DEF Unload, DaemonType, DiskType, MemoryType
  <1>7. CASE StandsDown(t)
    <2>1. DiskType' /\ kept' \in [Names -> SUBSET BOOLEAN]
      BY <1>7, MovedIsKept DEF StandsDown, DiskType
    <2>2. QED
      BY <1>1, <1>7, <2>1 DEF StandsDown, DaemonType, MemoryType
  <1>8. QED
    BY <1>2, <1>3, <1>4, <1>5, <1>6, <1>7 DEF Beginning

\* The archive has arrived.
LEMMA BackupTyped == ASSUME TypeOK, NEW t \in Routes, Backup(t) PROVE TypeOK'
  <1> USE DEF TypeOK
  <1>1. At(t, "backup") /\ Equipped(route[t]) /\ UNCHANGED <<memory, spent>> /\ daemon.file \in Config
    BY DEF Backup, DaemonType
  <1>2. CASE BuildsLoad(t)
    <2>1. route[t].name \in Names /\ route[t].xml \in Config
      BY <1>1, <1>2 DEF BuildsLoad, Equipped, At
    <2>2. RoutesTyped'
      BY <1>1, <1>2, <2>1, BuildsTyped DEF BuildsLoad, RoutesTyped
    <2>3. QED
      BY <1>1, <1>2, <2>2 DEF BuildsLoad, RoutesTyped, DaemonType, DiskType, MemoryType
  <1>3. CASE BuildsApply(t)
    <2> DEFINE xml == [Carried(daemon.file) EXCEPT !.tone = route[t].value]
               n == IF disk.autosave /\ disk.active # None /\ disk.store[disk.active] # None THEN disk.active ELSE None
    <2>1. xml \in Config
      BY <1>1, <1>3, CarriedIsConfig DEF BuildsApply, Equipped, At, Config
    <2>2. n \in Names \cup {None} /\ Builds(t, xml, n)
      BY <1>3 DEF BuildsApply, DiskType
    <2> HIDE DEF xml, n
    <2>3. RoutesTyped'
      BY <1>1, <1>3, <2>1, <2>2, BuildsTyped DEF BuildsApply, RoutesTyped
    <2>4. QED
      BY <1>1, <1>3, <2>3 DEF BuildsApply, RoutesTyped, DaemonType, DiskType, MemoryType
  <1>4. CASE Saves(t)
    <2> DEFINE n == route[t].name
               own == [Heard(daemon.file) EXCEPT !.of = n]
    <2>1. n \in Names /\ own \in Config
      BY <1>1, <1>4, HeardIsConfig DEF Saves, Equipped, At, Config
    <2>2. /\ disk' = [Stored(disk, n, own) EXCEPT !.active = n] /\ daemon' = [daemon EXCEPT !.file.of = n]
          /\ kept' = [kept EXCEPT ![n] = {disk.pilot}] /\ deleted' = [deleted EXCEPT ![n] = "no"] /\ Builds(t, own, n)
      BY <1>4 DEF Saves
    <2> HIDE DEF n, own
    <2>3. RoutesTyped'
      BY <1>1, <1>4, <2>1, <2>2, BuildsTyped DEF Saves, RoutesTyped
    <2>4. DiskType'
      <3> DEFINE d == Stored(disk, n, own)
      <3>1. d \in [store : [Names -> Archives], active : Names \cup {None}, autosave : BOOLEAN,
                   pilot : BOOLEAN, carried : [Names -> BOOLEAN]]
        BY <2>1, StoredIsDisk
      <3>2. disk' = [d EXCEPT !.active = n]
        BY <2>2
      <3> HIDE DEF d
      <3>3. QED
        BY <2>1, <3>1, <3>2 DEF DiskType
    <2>5. DaemonType'
      BY <2>1, <2>2 DEF DaemonType, Config
    <2>6. HistoryTyped'
      BY <1>1, <2>1, <2>2 DEF HistoryTyped, DiskType
    <2>7. QED
      BY <1>1, <2>3, <2>4, <2>5, <2>6 DEF RoutesTyped, HistoryTyped, MemoryType
  <1>5. CASE Folds(t)
    <2>1. route[t].name \in Names /\ Heard(daemon.file) \in Config
      BY <1>1, <1>5, HeardIsConfig DEF Folds, Equipped, At
    <2>2. DiskType'
      BY <1>5, <2>1, StoredIsDisk DEF Folds, DiskType
    <2>3. RoutesTyped'
      BY <1>5, IdleIsRequest, GoesTyped DEF Folds, RoutesTyped
    <2>4. HistoryTyped'
      BY <1>1, <1>5, <2>1 DEF Folds, HistoryTyped, DiskType
    <2>5. QED
      BY <1>1, <1>5, <2>2, <2>3, <2>4 DEF Folds, RoutesTyped, HistoryTyped, DaemonType, MemoryType
  <1>6. QED
    BY <1>2, <1>3, <1>4, <1>5 DEF Backup

\* An archive adopted.
LEMMA AdoptedIsDaemon ==
    ASSUME DaemonType, NEW rec \in Request, rec.xml \in Config
    PROVE  /\ Adopted(rec) \in [file : Config, named : Names \cup {None}, plays : Values,
                                phase : {"serving", "doomed", "down"}, cfgs : [Names -> Archives]]
           /\ Adopted(rec).file = rec.xml /\ Adopted(rec).named = None /\ Adopted(rec).phase = "doomed"
           /\ Adopted(rec).plays = daemon.plays
           /\ \A n \in Names : Adopted(rec).cfgs[n] = IF rec.cfgs[n] # None THEN rec.cfgs[n] ELSE daemon.cfgs[n]
  BY DEF Adopted, DaemonType, Request, Archives

\* A request in hand that moves on, or is over.
LEMMA MovesOn ==
    ASSUME TypeOK, NEW t \in Routes, NEW place \in {"wait", "resync"}, route[t].at \in {"post", "wait"},
           place = "resync" => route[t].verb # "save"
    PROVE  /\ [route[t] EXCEPT !.at = place] \in Request /\ Equipped([route[t] EXCEPT !.at = place])
           /\ [route[t] EXCEPT !.at = place].at = place
           /\ [route[t] EXCEPT !.at = place].verb = route[t].verb /\ [route[t] EXCEPT !.at = place].name = route[t].name
           /\ [route[t] EXCEPT !.at = place].xml = route[t].xml
  <1>1. route[t] \in Request /\ Equipped(route[t])
    BY DEF TypeOK
  <1>2. QED
    BY <1>1 DEF Request, Equipped

\* The archive is posted, the restart waited for, the engine read again.
LEMMA PostingTyped ==
    ASSUME TypeOK, NEW t \in Routes,
           BackupFails(t) \/ Post(t) \/ PostLost(t) \/ PostGivesUp(t) \/ AwaitReady(t) \/ WaitExpires(t)
    PROVE  TypeOK'
  <1> USE DEF TypeOK
  <1>1. route[t] \in Request /\ Equipped(route[t])
    OBVIOUS
  <1>2. At(t, "post") => DaemonType /\ Adopted(route[t]) \in
            [file : Config, named : Names \cup {None}, plays : Values, phase : {"serving", "doomed", "down"},
             cfgs : [Names -> Archives]]
    BY <1>1, AdoptedIsDaemon DEF At, Equipped
  <1>3. CASE BackupFails(t) \/ PostGivesUp(t)
    <2>1. RoutesTyped'
      BY <1>3, IdleIsRequest, GoesTyped DEF BackupFails, PostGivesUp, RoutesTyped
    <2>2. QED
      BY <1>3, <2>1 DEF BackupFails, PostGivesUp, RoutesTyped, DaemonType, DiskType, MemoryType
  <1>4. CASE Post(t)
    <2>1. At(t, "post") /\ Goes(t, [route[t] EXCEPT !.at = "wait"]) /\ daemon' = Adopted(route[t])
      BY <1>4 DEF Post
    <2>2. RoutesTyped'
      BY <2>1, MovesOn, GoesTyped DEF RoutesTyped, At
    <2>3. DiskType'
      <3>1. route[t].verb \in {"load", "switch"} => route[t].name \in Names
        BY <1>1, <2>1 DEF Equipped, At
      <3>2. QED
        BY <1>4, <3>1 DEF Post, DiskType
    <2>4. DaemonType'
      BY <1>2, <2>1 DEF DaemonType
    <2>5. QED
      BY <1>4, <2>2, <2>3, <2>4 DEF Post, RoutesTyped, MemoryType
  <1>5. CASE PostLost(t)
    <2>1. At(t, "post") /\ daemon' = Adopted(route[t])
      BY <1>5 DEF PostLost
    <2>2. RoutesTyped'
      BY <1>1, <1>5, IdleIsRequest, GoesTyped DEF PostLost, RoutesTyped
    <2>3. DaemonType'
      BY <1>2, <2>1 DEF DaemonType
    <2>4. HistoryTyped'
      BY <1>5, SpendIsBounded DEF PostLost, Bounded, HistoryTyped
    <2>5. QED
      BY <1>5, <2>2, <2>3, <2>4 DEF PostLost, RoutesTyped, HistoryTyped, DiskType, MemoryType
  <1>6. CASE AwaitReady(t) \/ WaitExpires(t)
    <2>1. At(t, "wait") /\ Waited(t) /\ UNCHANGED <<daemon, disk, memory, kept, deleted>>
      BY <1>6 DEF AwaitReady, WaitExpires
    <2>2. RoutesTyped'
      <3>1. CASE route[t].verb = "save"
        BY <2>1, <3>1, IdleIsRequest, GoesTyped DEF Waited, RoutesTyped
      <3>2. CASE route[t].verb # "save"
        BY <2>1, <3>2, MovesOn, GoesTyped DEF Waited, RoutesTyped, At
      <3>3. QED
        BY <3>1, <3>2
    <2>3. HistoryTyped'
      BY <1>6, <2>1, SpendIsBounded DEF AwaitReady, WaitExpires, Bounded, HistoryTyped
    <2>4. QED
      BY <2>1, <2>2, <2>3 DEF RoutesTyped, HistoryTyped, DaemonType, DiskType, MemoryType
  <1>7. QED
    BY <1>3, <1>4, <1>5, <1>6

\* A request that settles leaves the disk a disk, and goes where an auto-save starts.
LEMMA SettlesTyped ==
    ASSUME TypeOK, NEW t \in Routes, At(t, "resync"), Settles(t)
    PROVE  DiskType' /\ RoutesTyped'
  <1> USE DEF TypeOK
  <1>1. route[t] \in Request /\ Equipped(route[t])
    OBVIOUS
  <1>2. route[t].verb # "apply" => route[t].name \in Names /\ route[t].xml \in Archives
    BY <1>1 DEF Equipped, At, Request
  <1>3. DiskType' /\ disk'.active = disk.active
    BY <1>2 DEF Settles, DiskType
  <1>4. RoutesTyped'
    <2>1. CASE route[t].verb = "load"
      BY <2>1, IdleIsRequest, GoesTyped DEF Settles, RoutesTyped
    <2>2. CASE route[t].verb # "load"
      <3> DEFINE xml == IF route[t].verb = "switch" THEN route[t].xml ELSE None
                 rec == [Folding(disk') EXCEPT !.xml = xml]
      <3>1. Folding(disk') \in Request /\ Equipped(Folding(disk')) /\ Folding(disk').at \in {"idle", "backup"}
            /\ (Folding(disk').at = "backup" => Folding(disk').verb = "fold")
        BY <1>3, FoldingIsRequest DEF DiskType
      <3>2. xml \in Archives
        BY <1>1 DEF Request, Archives
      <3>3. Goes(t, rec)
        BY <2>2 DEF Settles
      <3> HIDE DEF xml
      <3>4. rec \in Request /\ Equipped(rec)
        BY <3>1, <3>2 DEF Request, Equipped
      <3> HIDE DEF rec
      <3>5. QED
        BY <3>3, <3>4, GoesTyped DEF RoutesTyped
    <2>3. QED
      BY <2>1, <2>2
  <1>5. QED
    BY <1>3, <1>4

\* The engine is read again, or a mirror taken away.
LEMMA EndingTyped ==
    ASSUME TypeOK, NEW t \in Routes, Resync(t) \/ ReadBackFails(t) \/ Unmirror(t) \/ UnmirrorFails(t)
    PROVE  TypeOK'
  <1> USE DEF TypeOK
  <1>1. CASE Resync(t)
    <2>1. DiskType' /\ RoutesTyped'
      BY <1>1, SettlesTyped DEF Resync
    <2>2. MemoryType'
      BY <1>1 DEF Resync, MemoryType, DaemonType
    <2>3. QED
      BY <1>1, <2>1, <2>2 DEF Resync, RoutesTyped, DaemonType
  <1>2. CASE Unmirror(t)
    <2>1. route[t].name \in Names
      BY <1>2 DEF Unmirror, At, Equipped
    <2>2. RoutesTyped'
      BY <1>2, IdleIsRequest, GoesTyped DEF Unmirror, RoutesTyped
    <2>3. DaemonType'
      BY <1>2, <2>1 DEF Unmirror, DaemonType, Archives
    <2>4. deleted' \in [Names -> {"no", "deleted", "overtaken", "gone"}]
      BY <1>2, <2>1 DEF Unmirror
    <2>5. QED
      BY <1>2, <2>2, <2>3, <2>4 DEF Unmirror, RoutesTyped, DiskType, MemoryType
  <1>3. CASE UnmirrorFails(t)
    <2>1. RoutesTyped'
      BY <1>3, IdleIsRequest, GoesTyped DEF UnmirrorFails, RoutesTyped
    <2>2. HistoryTyped'
      BY <1>3, SpendIsBounded DEF UnmirrorFails, Bounded, HistoryTyped
    <2>3. QED
      BY <1>3, <2>1, <2>2 DEF UnmirrorFails, RoutesTyped, HistoryTyped, DaemonType, DiskType, MemoryType
  <1>4. CASE ReadBackFails(t)
    <2>1. RoutesTyped' /\ MemoryType'
      BY <1>4, IdleIsRequest, GoesTyped DEF ReadBackFails, RoutesTyped, MemoryType
    <2>2. QED
      BY <1>4, <2>1 DEF ReadBackFails, RoutesTyped, DaemonType, DiskType
  <1>5. QED
    BY <1>1, <1>2, <1>3, <1>4

\* The switches, the loop, the daemon and the process.
Flipping == (\E p \in BOOLEAN : SwitchPilot(p)) \/ StampPilot
Importing == Handshake \/ MigrateReads \/ Migrate \/ MigrateFails
Around == SetAutosave \/ Flipping \/ Poll \/ Importing \/ GoesDown \/ ComesUp \/ Reborn

\* What the import leaves on disk: presets it found none of, and a pointer where there was none.
LEMMA MigrateLeaves ==
    ASSUME TypeOK, Migrate
    PROVE  /\ DiskType' /\ disk'.carried = disk.carried /\ disk'.pilot = disk.pilot
           /\ \A n \in Names : disk'.store[n] = IF disk.store[n] = None THEN memory.snapshots[n] ELSE disk.store[n]
           /\ disk'.active = disk.active => kept' = kept
           /\ disk'.active # disk.active =>
                 /\ disk.active = None /\ disk'.active = memory.hint /\ disk'.store[disk'.active] # None
                 /\ memory.hint \in Names /\ kept' = Moved(memory.hint, disk.pilot)
                 /\ memory.hint = daemon.named \/ Spend("stale")
           /\ spent' = spent \/ Spend("stale")
  <1> DEFINE store == [n \in Names |-> IF disk.store[n] = None THEN memory.snapshots[n] ELSE disk.store[n]]
             hint == memory.hint
             points == disk.active = None /\ hint # None /\ store[hint] # None
  <1>1. store \in [Names -> Archives] /\ hint \in Names \cup {None}
    BY DEF TypeOK, MemoryType, DiskType
  <1>2. /\ disk' = [disk EXCEPT !.store = store, !.active = IF points THEN hint ELSE @]
        /\ kept' = IF points THEN Moved(hint, disk.pilot) ELSE kept
        /\ IF points /\ daemon.named # hint THEN Spend("stale") ELSE spent' = spent
    BY DEF Migrate
  <1>3. \A n \in Names : store[n] = IF disk.store[n] = None THEN memory.snapshots[n] ELSE disk.store[n]
    OBVIOUS
  <1> HIDE DEF store
  <1>4. /\ DiskType' /\ disk'.carried = disk.carried /\ disk'.pilot = disk.pilot /\ disk'.store = store
        /\ disk'.active = IF points THEN hint ELSE disk.active
    BY <1>1, <1>2 DEF TypeOK, DiskType
  <1>5. points => disk.active = None /\ hint \in Names /\ store[hint] # None
    BY <1>1
  <1> HIDE DEF points
  <1>6. QED
    BY <1>2, <1>3, <1>4, <1>5

\* The switch flipped, and what the active preset carries after it.
LEMMA FlippingDoes ==
    ASSUME TypeOK, Flipping
    PROVE  /\ DiskType' /\ MemoryType' /\ disk'.store = disk.store /\ disk'.active = disk.active
           /\ memory'.live = memory.live /\ memory'.snapshots = memory.snapshots /\ UNCHANGED <<daemon, route, deleted>>
           /\ \/ /\ \E p \in BOOLEAN : disk'.pilot = p /\ kept' = Moved(disk.active, p)
                 /\ disk'.carried = disk.carried /\ Spend("calls")
              \/ /\ disk'.pilot = disk.pilot /\ spent' = spent
                 /\ \/ disk'.carried = disk.carried /\ kept' = kept
                    \/ /\ disk.active # None /\ disk'.carried = [disk.carried EXCEPT ![disk.active] = disk.pilot]
                       /\ kept' = [kept EXCEPT ![disk.active] = {disk.pilot}]
  <1>1. ASSUME NEW p \in BOOLEAN, SwitchPilot(p)
        PROVE  /\ DiskType' /\ disk'.store = disk.store /\ disk'.active = disk.active /\ disk'.pilot = p
               /\ disk'.carried = disk.carried
    BY <1>1 DEF SwitchPilot, TypeOK, DiskType
  <1>2. CASE \E p \in BOOLEAN : SwitchPilot(p)
    <2>1. memory.flips + 1 \in Nat
      BY DEF TypeOK, MemoryType
    <2>2. MemoryType' /\ memory'.live = memory.live /\ memory'.snapshots = memory.snapshots
      BY <1>2, <2>1 DEF SwitchPilot, TypeOK, MemoryType
    <2>3. QED
      BY <1>1, <1>2, <2>2, ZenonT(60) DEF SwitchPilot
  <1>3. CASE StampPilot
    <2>1. memory.flips - 1 \in Nat
      BY <1>3 DEF StampPilot, TypeOK, MemoryType
    <2>2. MemoryType' /\ memory'.live = memory.live /\ memory'.snapshots = memory.snapshots
      BY <1>3, <2>1 DEF StampPilot, TypeOK, MemoryType
    <2>3. CASE Armed
      <3>1. disk' = [disk EXCEPT !.carried[disk.active] = disk.pilot] /\ disk.active \in Names
        BY <1>3, <2>3 DEF StampPilot, Armed, TypeOK, DiskType
      <3>2. /\ DiskType' /\ disk'.store = disk.store /\ disk'.active = disk.active /\ disk'.pilot = disk.pilot
            /\ disk'.carried = [disk.carried EXCEPT ![disk.active] = disk.pilot]
        BY <3>1 DEF TypeOK, DiskType
      <3>3. QED
        BY <1>3, <2>2, <2>3, <3>1, <3>2 DEF StampPilot
    <2>4. CASE ~Armed
      BY <1>3, <2>2, <2>4 DEF StampPilot, TypeOK, DiskType
    <2>5. QED
      BY <2>3, <2>4
  <1>4. QED
    BY <1>2, <1>3 DEF Flipping

\* What the import reads and leaves in memory.
LEMMA ImportingDoes ==
    ASSUME TypeOK, Importing
    PROVE  /\ MemoryType' /\ UNCHANGED <<daemon, route, deleted>>
           /\ \A n \in Names : memory'.snapshots[n] \in {None, memory.snapshots[n], daemon.cfgs[n]}
           /\ memory'.live = memory.live \/ (memory'.live = daemon.plays /\ Answers)
           /\ ~Migrate => UNCHANGED <<disk, kept>> /\ (spent' = spent \/ Spend("failed"))
  <1>1. CASE Handshake
    BY <1>1 DEF Handshake, Migrate, TypeOK, MemoryType, DaemonType
  <1>2. CASE MigrateReads
    BY <1>2 DEF MigrateReads, Migrate, TypeOK, MemoryType, DaemonType
  <1>3. CASE Migrate
    BY <1>3, NothingIsArchives DEF Migrate, TypeOK, MemoryType
  <1>4. CASE MigrateFails
    BY <1>4 DEF MigrateFails, Migrate, TypeOK, MemoryType
  <1>5. QED
    BY <1>1, <1>2, <1>3, <1>4 DEF Importing

LEMMA AroundTyped == ASSUME TypeOK, Around \/ UNCHANGED vars PROVE TypeOK'
  <1> USE DEF TypeOK
  <1>1. CASE SetAutosave
    <2>1. HistoryTyped' /\ DiskType'
      BY <1>1, SpendIsBounded DEF SetAutosave, Bounded, HistoryTyped, DiskType
    <2>2. QED
      BY <1>1, <2>1 DEF SetAutosave, HistoryTyped, DaemonType, MemoryType
  <1>2. CASE Flipping
    <2>1. DiskType' /\ MemoryType' /\ UNCHANGED <<daemon, route, deleted>> /\ disk.active \in Names \cup {None} /\ disk.pilot \in BOOLEAN
      BY <1>2, FlippingDoes DEF DiskType
    <2>2. kept' \in [Names -> SUBSET BOOLEAN]
      <3>1. kept' = kept \/ (\E p \in BOOLEAN : kept' = Moved(disk.active, p))
            \/ kept' = [kept EXCEPT ![disk.active] = {disk.pilot}]
        BY <1>2, FlippingDoes
      <3>2. QED
        BY <2>1, <3>1, MovedIsKept
    <2>3. spent' = spent \/ Spend("calls")
      BY <1>2, FlippingDoes
    <2>4. HistoryTyped'
      BY <2>1, <2>2, <2>3, SpendIsBounded DEF Bounded, HistoryTyped
    <2>5. QED
      BY <2>1, <2>4 DEF HistoryTyped, DaemonType
  <1>3. CASE Poll
    BY <1>3 DEF Poll, DaemonType, DiskType, MemoryType
  <1>4. CASE Importing
    <2>1. MemoryType' /\ UNCHANGED <<daemon, route, deleted>>
      BY <1>4, ImportingDoes
    <2>2. DiskType' /\ kept' \in [Names -> SUBSET BOOLEAN] /\ (spent' = spent \/ Spend("failed") \/ Spend("stale"))
      <3>1. CASE Migrate
        <4>1. disk.pilot \in BOOLEAN
          BY DEF DiskType
        <4>2. QED
          BY <3>1, <4>1, MigrateLeaves, MovedIsKept
      <3>2. CASE ~Migrate
        BY <1>4, <3>2, ImportingDoes DEF DiskType
      <3>3. QED
        BY <3>1, <3>2
    <2>3. HistoryTyped'
      BY <2>1, <2>2, SpendIsBounded DEF Bounded, HistoryTyped
    <2>4. QED
      BY <2>1, <2>2, <2>3 DEF HistoryTyped, DaemonType
  <1>5. CASE GoesDown
    <2>1. HistoryTyped'
      BY <1>5, SpendIsBounded DEF GoesDown, Bounded, HistoryTyped
    <2>2. QED
      BY <1>5, <2>1 DEF GoesDown, HistoryTyped, DaemonType, DiskType, MemoryType
  <1>6. CASE ComesUp
    BY <1>6 DEF ComesUp, DaemonType, DiskType, MemoryType, Config
  <1>7. CASE Reborn
    <2>1. HistoryTyped'
      BY <1>7, SpendIsBounded DEF Reborn, Bounded, HistoryTyped
    <2>2. RoutesTyped' /\ MemoryType'
      BY <1>7, IdleIsRequest, NothingIsArchives DEF Reborn, RoutesTyped, MemoryType
    <2>3. QED
      BY <1>7, <2>1, <2>2 DEF Reborn, HistoryTyped, RoutesTyped, DaemonType, DiskType
  <1>8. CASE UNCHANGED vars
    BY <1>8 DEF vars, DaemonType, DiskType, MemoryType
  <1>9. QED
    BY <1>1, <1>2, <1>3, <1>4, <1>5, <1>6, <1>7, <1>8 DEF Around

\* What goes on with one.
Going(t) ==
    Backup(t) \/ BackupFails(t) \/ Post(t) \/ PostLost(t) \/ PostGivesUp(t) \/ AwaitReady(t) \/ WaitExpires(t)
    \/ Resync(t) \/ ReadBackFails(t) \/ Unmirror(t) \/ UnmirrorFails(t)

LEMMA NextIs == [Next]_vars <=> (\E t \in Routes : Beginning(t) \/ Going(t)) \/ Around \/ UNCHANGED vars
  BY DEF Next, Proceeds, Beginning, Going, Around, Flipping, Importing

\* Types, of the presets, the daemon's mirrors and every request, however many at once.
THEOREM TypeCorrect == Spec => []TypeOK
  <1>1. Init => TypeOK
    <2> SUFFICES ASSUME Init PROVE TypeOK
      OBVIOUS
    <2>1. DaemonType
      BY FoundIsConfig DEF Init, DaemonType, Archives
    <2>2. DiskType /\ MemoryType
      <3>1. daemon.named \in Names \cup {None}
        BY <2>1 DEF DaemonType
      <3>2. MemoryType
        BY <3>1, NothingIsArchives DEF Init, MemoryType
      <3>3. DiskType
        BY DEF Init, DiskType, Archives
      <3>4. QED
        BY <3>2, <3>3
    <2>3. HistoryTyped
      <3>1. \A k \in Bounded : Budget[k] \in Nat
        BY DEF Budget, Bounded
      <3>2. QED
        BY <3>1 DEF Init, HistoryTyped
    <2>4. RoutesTyped
      BY IdleIsRequest DEF Init, RoutesTyped
    <2>5. QED
      BY <2>1, <2>2, <2>3, <2>4 DEF TypeOK, HistoryTyped, RoutesTyped
  <1>2. TypeOK /\ [Next]_vars => TypeOK'
    <2> SUFFICES ASSUME TypeOK, [Next]_vars PROVE TypeOK'
      OBVIOUS
    <2>1. ASSUME NEW t \in Routes, Beginning(t) PROVE TypeOK'
      BY <2>1, CallsTyped
    <2>2. ASSUME NEW t \in Routes, Going(t) PROVE TypeOK'
      BY <2>2, BackupTyped, PostingTyped, EndingTyped DEF Going
    <2>3. QED
      BY <2>1, <2>2, AroundTyped, NextIs
  <1>3. QED
    BY <1>1, <1>2, PTL DEF Spec

-----------------------------------------------------------------------------
(* What each step does, as the invariants below speak of it.                *)

\* The beginning of a request says what it will be about.
LEMMA LoadDoes ==
    ASSUME TypeOK, NEW t \in Routes, NEW n \in Names, NEW verb \in {"load", "switch"}, Load(t, n, verb)
    PROVE  /\ route'[t].at = "backup" /\ route'[t].verb = verb /\ route'[t].name = n /\ route'[t].xml = disk.store[n]
           /\ disk.store[n] # None /\ UNCHANGED <<daemon, disk, memory, kept, deleted>>
  BY DEF TypeOK, Load, Goes, Idle

LEMMA AskDoes ==
    ASSUME TypeOK, NEW t \in Routes, (\E n \in Names : Save(t, n)) \/ \E v \in Values : Apply(t, v)
    PROVE  /\ route'[t].at = "backup" /\ route'[t].verb \in {"save", "apply"} /\ UNCHANGED <<daemon, disk, memory, kept, deleted>>
  <1>1. ASSUME NEW n \in Names, Save(t, n) PROVE route'[t].at = "backup" /\ route'[t].verb = "save"
    BY <1>1 DEF TypeOK, Save, Goes, Idle
  <1>2. ASSUME NEW v \in Values, Apply(t, v) PROVE route'[t].at = "backup" /\ route'[t].verb = "apply"
    BY <1>2 DEF TypeOK, Apply, Goes, Idle
  <1>3. QED
    BY <1>1, <1>2 DEF Save, Apply

LEMMA LiveWriteDoes ==
    ASSUME TypeOK, NEW t \in Routes, NEW v \in Values, NEW p \in BOOLEAN, LiveWrite(t, v, p)
    PROVE  /\ daemon' = [daemon EXCEPT !.plays = v] /\ memory'.live = v /\ UNCHANGED deleted
           /\ disk'.store = disk.store /\ disk'.active = disk.active /\ disk'.carried = disk.carried
           /\ disk'.pilot = p /\ kept' = Moved(disk.active, p)
           /\ At(t, "idle") /\ route'[t].at \in {"idle", "backup"} /\ route'[t].xml = None
           /\ route'[t].at = "backup" => route'[t].verb = "fold" /\ route'[t].name = disk.active /\ disk.active # None
  <1>1. disk'.store = disk.store /\ disk'.active = disk.active /\ disk'.carried = disk.carried /\ disk'.pilot = p
    BY DEF TypeOK, LiveWrite, DiskType
  <1>2. daemon' = [daemon EXCEPT !.plays = v] /\ memory'.live = v /\ UNCHANGED deleted /\ At(t, "idle") /\ kept' = Moved(disk.active, p)
    BY DEF TypeOK, LiveWrite, MemoryType
  <1>3. route'[t] = Folding(disk')
    BY DEF TypeOK, LiveWrite, Goes
  <1>4. QED
    BY <1>1, <1>2, <1>3 DEF Folding, Idle

LEMMA StandsDownDoes ==
    ASSUME TypeOK, NEW t \in Routes, StandsDown(t)
    PROVE  /\ disk'.store = disk.store /\ disk'.active = disk.active /\ disk'.carried = disk.carried
           /\ disk'.pilot = FALSE /\ kept' = Moved(disk.active, FALSE)
           /\ At(t, "idle") /\ UNCHANGED <<daemon, memory, route, deleted>>
  BY DEF TypeOK, StandsDown, DiskType

LEMMA DeleteDoes ==
    ASSUME TypeOK, NEW t \in Routes, NEW n \in Names, Delete(t, n)
    PROVE  /\ disk'.store = [disk.store EXCEPT ![n] = None] /\ disk'.active = IF disk.active = n THEN None ELSE disk.active
           /\ disk'.carried = disk.carried /\ deleted' = [deleted EXCEPT ![n] = "deleted"]
           /\ At(t, "idle") /\ route'[t].at = "unmirror" /\ UNCHANGED <<daemon, memory, kept>>
  BY DEF TypeOK, Delete, Goes, DiskType, Idle

LEMMA UnloadDoes ==
    ASSUME TypeOK, NEW t \in Routes, Unload(t)
    PROVE  /\ disk'.store = disk.store /\ disk'.active = None /\ disk'.carried = disk.carried
           /\ At(t, "idle") /\ UNCHANGED <<daemon, memory, route, kept, deleted>>
  BY DEF TypeOK, Unload, DiskType

\* The archive arrives.
LEMMA BuildsLoadDoes ==
    ASSUME TypeOK, NEW t \in Routes, At(t, "backup"), BuildsLoad(t)
    PROVE  /\ route[t].name \in Names /\ route'[t].at = "post" /\ route'[t].xml = route[t].xml
           /\ route[t].verb \in {"load", "switch"}
           /\ route'[t].verb = route[t].verb /\ route'[t].name = route[t].name
           /\ \A m \in Names : route'[t].cfgs[m] = IF m = route[t].name THEN route[t].xml ELSE daemon.cfgs[m]
           /\ UNCHANGED <<daemon, disk, kept, deleted>>
  <1>1. route[t].name \in Names /\ route[t].xml \in Config /\ route[t].verb \in {"load", "switch"} /\ Equipped(route[t])
    BY DEF TypeOK, BuildsLoad, At, Equipped
  <1>2. Builds(t, route[t].xml, route[t].name)
    BY DEF BuildsLoad
  <1>3. QED
    BY <1>1, <1>2, BuildsTyped DEF TypeOK, BuildsLoad

LEMMA BuildsApplyDoes ==
    ASSUME TypeOK, NEW t \in Routes, At(t, "backup"), BuildsApply(t)
    PROVE  /\ route'[t].at = "post" /\ route'[t].xml \in Config /\ route'[t].xml.of = daemon.file.of
           /\ route'[t].verb = "apply"
           /\ \A m \in Names : route'[t].cfgs[m] # daemon.cfgs[m] =>
                 route'[t].cfgs[m] = route'[t].xml /\ m = disk.active /\ disk.store[m] # None
           /\ UNCHANGED <<daemon, disk, kept, deleted>>
  <1> DEFINE xml == [Carried(daemon.file) EXCEPT !.tone = route[t].value]
             n == IF disk.autosave /\ disk.active # None /\ disk.store[disk.active] # None THEN disk.active ELSE None
  <1>1. xml \in Config /\ xml.of = daemon.file.of
    <2>1. route[t].value \in Values
      BY DEF TypeOK, BuildsApply, At, Equipped
    <2>2. QED
      BY <2>1, CarriedIsConfig DEF TypeOK, DaemonType, Config
  <1>2. n \in Names \cup {None} /\ (n # None => n = disk.active /\ disk.store[n] # None)
    BY DEF TypeOK, DiskType
  <1>3. Builds(t, xml, n)
    BY DEF BuildsApply
  <1> HIDE DEF xml, n
  <1>4. route[t].verb = "apply" /\ UNCHANGED <<daemon, disk, kept, deleted>>
    BY DEF BuildsApply
  <1>5. /\ route'[t].at = "post" /\ route'[t].xml = xml /\ route'[t].verb = route[t].verb
        /\ \A m \in Names : route'[t].cfgs[m] = IF m = n THEN xml ELSE daemon.cfgs[m]
    BY <1>1, <1>2, <1>3, <1>4, BuildsTyped DEF TypeOK
  <1>6. QED
    BY <1>1, <1>2, <1>4, <1>5

LEMMA SavesDoes ==
    ASSUME TypeOK, NEW t \in Routes, At(t, "backup"), Saves(t)
    PROVE  LET n == route[t].name
               own == route'[t].xml
           IN  /\ n \in Names /\ own \in Config /\ own.of = n /\ (memory.live # None => own.live = memory.live)
               /\ disk'.store = [disk.store EXCEPT ![n] = own] /\ disk'.active = n
               /\ disk'.carried = [disk.carried EXCEPT ![n] = disk.pilot] /\ disk'.pilot = disk.pilot
               /\ kept' = [kept EXCEPT ![n] = {disk.pilot}] /\ deleted' = [deleted EXCEPT ![n] = "no"]
               /\ daemon'.file.of = n /\ daemon'.file.live = daemon.file.live
               /\ daemon'.named = daemon.named /\ daemon'.plays = daemon.plays /\ daemon'.phase = daemon.phase
               /\ daemon'.cfgs = daemon.cfgs
               /\ route'[t].at = "post" /\ route'[t].verb = "save" /\ route'[t].name = n
               /\ \A m \in Names : route'[t].cfgs[m] = IF m = n THEN own ELSE daemon.cfgs[m]
  <1> DEFINE n == route[t].name
             own == [Heard(daemon.file) EXCEPT !.of = n]
  <1>1. n \in Names /\ own \in Config /\ own.of = n /\ (memory.live # None => own.live = memory.live)
    <2>1. n \in Names
      BY DEF TypeOK, Saves, Equipped, At
    <2>2. QED
      BY <2>1, HeardIsConfig DEF TypeOK, DaemonType, Config
  <1>2. /\ disk' = [Stored(disk, n, own) EXCEPT !.active = n] /\ daemon' = [daemon EXCEPT !.file.of = n]
        /\ kept' = [kept EXCEPT ![n] = {disk.pilot}] /\ deleted' = [deleted EXCEPT ![n] = "no"] /\ Builds(t, own, n)
        /\ route[t].verb = "save"
    BY DEF Saves
  <1> HIDE DEF n, own
  <1>3. /\ disk'.store = [disk.store EXCEPT ![n] = own] /\ disk'.active = n /\ disk'.pilot = disk.pilot
        /\ disk'.carried = [disk.carried EXCEPT ![n] = disk.pilot]
    <2> DEFINE d == Stored(disk, n, own)
    <2>0. DiskType
      BY DEF TypeOK
    <2>1. /\ d \in [store : [Names -> Archives], active : Names \cup {None}, autosave : BOOLEAN,
                    pilot : BOOLEAN, carried : [Names -> BOOLEAN]]
          /\ d.store = [disk.store EXCEPT ![n] = own] /\ d.carried = [disk.carried EXCEPT ![n] = disk.pilot]
          /\ d.pilot = disk.pilot
      BY <1>1, <2>0, StoredIsDisk
    <2>2. disk' = [d EXCEPT !.active = n]
      BY <1>2
    <2> HIDE DEF d
    <2>3. QED
      BY <2>1, <2>2
  <1>4. /\ daemon'.file.of = n /\ daemon'.file.live = daemon.file.live /\ daemon'.named = daemon.named
        /\ daemon'.plays = daemon.plays /\ daemon'.phase = daemon.phase /\ daemon'.cfgs = daemon.cfgs
    BY <1>2 DEF TypeOK, DaemonType, Config
  <1>5. /\ route'[t].at = "post" /\ route'[t].xml = own /\ route'[t].verb = "save" /\ route'[t].name = n
        /\ \A m \in Names : route'[t].cfgs[m] = IF m = n THEN own ELSE daemon.cfgs[m]
    BY <1>1, <1>2, BuildsTyped DEF TypeOK, n
  <1>6. QED
    BY <1>1, <1>2, <1>3, <1>4, <1>5 DEF n

LEMMA FoldsDoes ==
    ASSUME TypeOK, NEW t \in Routes, At(t, "backup"), Folds(t)
    PROVE  LET n == route[t].name
           IN  /\ n \in Names /\ disk'.store = [disk.store EXCEPT ![n] = Heard(daemon.file)]
               /\ disk'.active = disk.active /\ disk'.carried = [disk.carried EXCEPT ![n] = disk.pilot]
               /\ disk'.pilot = disk.pilot
               /\ kept' = [kept EXCEPT ![n] = IF @ = {} THEN {disk.pilot} ELSE @] /\ UNCHANGED <<daemon, deleted>>
               /\ Heard(daemon.file) \in Config /\ route'[t] = Idle /\ route[t].verb = "fold"
  <1>1. route[t].name \in Names /\ Heard(daemon.file) \in Config
    BY HeardIsConfig DEF TypeOK, DaemonType, Folds, Equipped, At
  <1>2. disk' = Stored(disk, route[t].name, Heard(daemon.file)) /\ Goes(t, Idle)
    BY DEF Folds
  <1>3. route'[t] = Idle
    BY <1>2 DEF Goes, TypeOK
  <1> DEFINE n == route[t].name
             heard == Heard(daemon.file)
  <1>4. DiskType /\ n \in Names /\ heard \in Config /\ disk' = Stored(disk, n, heard)
    BY <1>1, <1>2 DEF TypeOK
  <1> HIDE DEF n, heard
  <1>5. /\ disk'.store = [disk.store EXCEPT ![n] = heard] /\ disk'.active = disk.active /\ disk'.pilot = disk.pilot
        /\ disk'.carried = [disk.carried EXCEPT ![n] = disk.pilot]
    BY <1>4, StoredIsDisk
  <1>6. QED
    BY <1>1, <1>3, <1>5 DEF Folds, n, heard

\* The archive is posted.
LEMMA AdoptedDoes ==
    ASSUME TypeOK, NEW t \in Routes, At(t, "post"), daemon' = Adopted(route[t])
    PROVE  /\ daemon'.file = route[t].xml /\ daemon'.named = None /\ daemon'.phase = "doomed"
           /\ daemon'.plays = daemon.plays
           /\ \A m \in Names : daemon'.cfgs[m] = IF route[t].cfgs[m] # None THEN route[t].cfgs[m] ELSE daemon.cfgs[m]
  <1>1. route[t] \in Request /\ route[t].xml \in Config
    BY DEF TypeOK, Equipped, At
  <1>2. QED
    BY <1>1, AdoptedIsDaemon DEF TypeOK

LEMMA PostDoes ==
    ASSUME TypeOK, NEW t \in Routes, Post(t)
    PROVE  /\ disk'.store = disk.store /\ disk'.carried = disk.carried
           /\ disk'.active = IF route[t].verb \in {"load", "switch"} THEN route[t].name ELSE disk.active
           /\ route'[t].at = "wait" /\ route'[t].verb = route[t].verb /\ route'[t].name = route[t].name
           /\ route'[t].xml = route[t].xml
  <1>1. Goes(t, [route[t] EXCEPT !.at = "wait"]) /\ At(t, "post")
    BY DEF Post
  <1>2. route'[t].at = "wait" /\ route'[t].verb = route[t].verb /\ route'[t].name = route[t].name /\ route'[t].xml = route[t].xml
    <2> DEFINE rec == [route[t] EXCEPT !.at = "wait"]
    <2>1. rec.at = "wait" /\ rec.verb = route[t].verb /\ rec.name = route[t].name /\ rec.xml = route[t].xml
      BY <1>1, MovesOn DEF At
    <2> HIDE DEF rec
    <2>2. route'[t] = rec
      BY <1>1 DEF Goes, TypeOK, rec
    <2>3. QED
      BY <2>1, <2>2
  <1>3. QED
    BY <1>2 DEF Post, TypeOK, DiskType

LEMMA PostLostDoes ==
    ASSUME TypeOK, NEW t \in Routes, PostLost(t)
    PROVE  route'[t] = route[t] \/ route'[t] = Idle
  BY DEF PostLost, Goes, TypeOK

\* The restart is waited for.
LEMMA WaitedDoes ==
    ASSUME TypeOK, NEW t \in Routes, At(t, "wait"), Waited(t)
    PROVE  /\ route[t].verb = "save" => route'[t] = Idle
           /\ route[t].verb # "save" => /\ route'[t].at = "resync" /\ route'[t].verb = route[t].verb /\ route'[t].name = route[t].name
                                        /\ route'[t].xml = route[t].xml
  <1>1. CASE route[t].verb = "save"
    BY <1>1 DEF Waited, Goes, TypeOK
  <1>2. CASE route[t].verb # "save"
    <2> DEFINE rec == [route[t] EXCEPT !.at = "resync"]
    <2>1. rec.at = "resync" /\ rec.verb = route[t].verb /\ rec.name = route[t].name /\ rec.xml = route[t].xml
      BY <1>2, MovesOn DEF At
    <2> HIDE DEF rec
    <2>2. route'[t] = rec
      BY <1>2 DEF Waited, Goes, TypeOK, rec
    <2>3. QED
      BY <1>2, <2>1, <2>2
  <1>3. QED
    BY <1>1, <1>2

\* The engine has been read again: an auto-save may follow, of the preset the pointer is at.
LEMMA SettlesDoes ==
    ASSUME TypeOK, NEW t \in Routes, At(t, "resync"), Settles(t)
    PROVE  /\ disk'.store = disk.store /\ disk'.active = disk.active /\ disk'.carried = disk.carried
           /\ route[t].verb \in {"load", "switch", "apply"}
           /\ disk'.pilot = IF route[t].verb = "apply" THEN disk.pilot ELSE disk.carried[route[t].name]
           /\ route'[t].at \in {"idle", "backup"}
           /\ route'[t].at = "backup" => /\ route'[t].verb = "fold" /\ route'[t].name = disk.active /\ disk.active # None
                                         /\ route'[t].xml = IF route[t].verb = "switch" THEN route[t].xml ELSE None
  <1>1. route[t].verb \in {"load", "switch", "apply"} /\ DiskType /\ disk \in [store : [Names -> Archives],
            active : Names \cup {None}, autosave : BOOLEAN, pilot : BOOLEAN, carried : [Names -> BOOLEAN]]
    BY DEF TypeOK, Equipped, At, DiskType
  <1>2. /\ disk'.store = disk.store /\ disk'.active = disk.active /\ disk'.carried = disk.carried
        /\ disk'.pilot = IF route[t].verb = "apply" THEN disk.pilot ELSE disk.carried[route[t].name]
    BY <1>1 DEF Settles
  <1>3. /\ route'[t].at \in {"idle", "backup"}
        /\ route'[t].at = "backup" => /\ route'[t].verb = "fold" /\ route'[t].name = disk.active /\ disk.active # None
                                      /\ route'[t].xml = IF route[t].verb = "switch" THEN route[t].xml ELSE None
    <2>1. CASE route[t].verb = "load"
      BY <2>1 DEF Settles, Goes, TypeOK, Idle
    <2>2. CASE route[t].verb # "load"
      <3> DEFINE xml == IF route[t].verb = "switch" THEN route[t].xml ELSE None
                 rec == [Folding(disk') EXCEPT !.xml = xml]
      <3>1. Goes(t, rec)
        BY <2>2 DEF Settles
      <3>2. Folding(disk') \in Request /\ Folding(disk').at \in {"idle", "backup"}
            /\ (Folding(disk').at = "backup" => Folding(disk').verb = "fold" /\ Folding(disk').name = disk.active)
        BY <1>1, <1>2, FoldingIsRequest
      <3>3. Folding(disk').at = "backup" => disk.active # None
        BY <1>2 DEF Folding, Idle
      <3> HIDE DEF xml
      <3>4. /\ rec.at \in {"idle", "backup"} /\ rec.xml = xml
            /\ rec.at = "backup" => rec.verb = "fold" /\ rec.name = disk.active /\ disk.active # None
        BY <3>2, <3>3 DEF Request
      <3> HIDE DEF rec
      <3>5. route'[t] = rec
        BY <3>1 DEF Goes, TypeOK
      <3>6. QED
        BY <3>4, <3>5 DEF xml
    <2>3. QED
      BY <2>1, <2>2
  <1>4. QED
    BY <1>1, <1>2, <1>3

\* A mirror is taken away.
LEMMA UnmirrorDoes ==
    ASSUME TypeOK, NEW t \in Routes, Unmirror(t)
    PROVE  LET n == route[t].name
           IN  /\ n \in Names /\ daemon' = [daemon EXCEPT !.cfgs = [daemon.cfgs EXCEPT ![n] = None]]
               /\ route'[t] = Idle /\ UNCHANGED <<disk, memory, kept>>
               /\ \A m \in Names : deleted'[m] = "gone" =>
                     deleted[m] = "gone" \/ (m = n /\ disk.store[m] = None /\ memory.snapshots[m] = None)
  <1>1. route[t].name \in Names /\ daemon' = [daemon EXCEPT !.cfgs = [daemon.cfgs EXCEPT ![route[t].name] = None]]
    BY DEF TypeOK, Unmirror, At, Equipped, DaemonType
  <1>2. \A m \in Names : deleted'[m] = "gone" =>
            deleted[m] = "gone" \/ (m = route[t].name /\ disk.store[m] = None /\ memory.snapshots[m] = None)
    BY <1>1 DEF TypeOK, Unmirror
  <1>3. QED
    BY <1>1, <1>2 DEF TypeOK, Unmirror, Goes

\* The account only grows.
LEMMA SpentGrows ==
    ASSUME TypeOK, [Next]_vars
    PROVE  \A k \in Bounded : spent'[k] = spent[k] \/ spent'[k] = spent[k] + 1
  BY ZenonT(60) DEF Next, Proceeds, Load, Save, Delete, Apply, LiveWrite, StandsDown, Unload, Backup, BackupFails, Post, PostGivesUp,
         AwaitReady, Resync, ReadBackFails, Unmirror, PostLost, WaitExpires, UnmirrorFails, SetAutosave, SwitchPilot, StampPilot,
         Poll, Handshake, MigrateReads, Migrate, MigrateFails, GoesDown, ComesUp, Reborn, vars, Spend, TypeOK

\* What goes on around the requests leaves them be, or ends them all.
LEMMA AroundDoes ==
    ASSUME TypeOK, Around \/ UNCHANGED vars
    PROVE  /\ route' = route \/ route' = [t \in Routes |-> Idle]
           /\ \A n \in Names : disk'.store[n] = IF disk.store[n] = None THEN disk'.store[n] ELSE disk.store[n]
           /\ \A n \in Names : disk'.store[n] # disk.store[n] => disk'.store[n] = memory.snapshots[n]
           /\ disk'.active # disk.active =>
                 /\ disk.active = None /\ disk'.active = memory.hint /\ disk'.store[disk'.active] # None
                 /\ memory.hint = daemon.named \/ Spend("stale")
           /\ \A n \in Names : memory'.snapshots[n] \in {None, memory.snapshots[n], daemon.cfgs[n]}
           /\ daemon'.file = daemon.file /\ daemon'.named = daemon.named /\ daemon'.cfgs = daemon.cfgs /\ deleted' = deleted
  <1>1. CASE Migrate
    <2>1. UNCHANGED <<daemon, route, deleted>> /\ \A n \in Names : memory'.snapshots[n] \in {None, memory.snapshots[n], daemon.cfgs[n]}
      BY <1>1, ImportingDoes DEF Importing
    <2>2. /\ \A n \in Names : disk'.store[n] = IF disk.store[n] = None THEN memory.snapshots[n] ELSE disk.store[n]
          /\ disk'.active # disk.active =>
                 /\ disk.active = None /\ disk'.active = memory.hint /\ disk'.store[disk'.active] # None
                 /\ memory.hint = daemon.named \/ Spend("stale")
      BY <1>1, MigrateLeaves
    <2>3. QED
      BY <2>1, <2>2
  <1>2. CASE SetAutosave \/ Flipping
    <2>1. disk'.store = disk.store /\ disk'.active = disk.active /\ memory'.snapshots = memory.snapshots /\ UNCHANGED <<daemon, route, deleted>>
      <3>1. CASE SetAutosave
        BY <3>1 DEF SetAutosave, TypeOK, DiskType
      <3>2. CASE Flipping
        BY <3>2, FlippingDoes
      <3>3. QED
        BY <1>2, <3>1, <3>2
    <2>2. QED
      BY <2>1
  <1>3. CASE Importing /\ ~Migrate
    <2>1. /\ UNCHANGED <<daemon, route, deleted, disk>>
          /\ \A n \in Names : memory'.snapshots[n] \in {None, memory.snapshots[n], daemon.cfgs[n]}
      BY <1>3, ImportingDoes
    <2>2. QED
      BY <2>1
  <1>4. CASE Poll \/ GoesDown \/ ComesUp \/ Reborn \/ UNCHANGED vars
    <2>1. disk' = disk /\ deleted' = deleted /\ (route' = route \/ route' = [t \in Routes |-> Idle])
      BY <1>4 DEF Poll, GoesDown, ComesUp, Reborn, vars
    <2>2. daemon'.file = daemon.file /\ daemon'.named = daemon.named /\ daemon'.cfgs = daemon.cfgs
      BY <1>4 DEF Poll, GoesDown, ComesUp, Reborn, vars, TypeOK, DaemonType
    <2>3. \A n \in Names : memory'.snapshots[n] \in {None, memory.snapshots[n]}
      BY <1>4, NothingIsArchives DEF Poll, GoesDown, ComesUp, Reborn, vars, TypeOK, MemoryType
    <2>4. QED
      BY <2>1, <2>2, <2>3
  <1>5. QED
    BY <1>1, <1>2, <1>3, <1>4 DEF Around

\* A request leaves the snapshots of an import alone.
LEMMA SnapshotsStay ==
    ASSUME TypeOK, NEW t \in Routes, Beginning(t) \/ Going(t)
    PROVE  memory'.snapshots = memory.snapshots
  <1>1. memory' = memory \/ (\E v \in Values \cup {None} : memory' = [memory EXCEPT !.live = v])
    <2>1. CASE Beginning(t)
      BY <2>1 DEF Beginning, Load, Save, Apply, Delete, Unload, StandsDown, LiveWrite
    <2>2. CASE Going(t)
      BY <2>2 DEF Going, Backup, BackupFails, Post, PostLost, PostGivesUp, AwaitReady, WaitExpires, Resync, ReadBackFails,
                  Unmirror, UnmirrorFails, TypeOK, DaemonType
    <2>3. QED
      BY <2>1, <2>2
  <1>2. QED
    BY <1>1 DEF TypeOK, MemoryType

-----------------------------------------------------------------------------
(* One request at a time: the pointer, and what is gone.                     *)

\* Every step leaves the pointer at a preset, and a load one to come back to.
LEMMA ExistingStep == ASSUME Alone, TypeOK, Existing, [Next]_vars PROVE Existing'
  <1> USE DEF Existing, ActiveExists, Present
  <1>1. \A s, t \in Routes : s = t
    BY DEF Alone
  <1>2. DiskType /\ disk.store \in [Names -> Archives] /\ disk.active \in Names \cup {None}
    BY DEF TypeOK, DiskType
  <1>3. ASSUME NEW t \in Routes, Beginning(t) PROVE Existing'
    <2>1. ASSUME NEW n \in Names, NEW verb \in {"load", "switch"}, Load(t, n, verb) PROVE Existing'
      BY <1>1, <2>1, LoadDoes DEF At
    <2>2. CASE (\E n \in Names : Save(t, n)) \/ \E v \in Values : Apply(t, v)
      BY <1>1, <2>2, AskDoes DEF At
    <2>3. ASSUME NEW v \in Values, NEW p \in BOOLEAN, LiveWrite(t, v, p) PROVE Existing'
      BY <1>1, <2>3, LiveWriteDoes DEF At
    <2>4. ASSUME NEW n \in Names, Delete(t, n) PROVE Existing'
      <3>1. /\ disk'.store = [disk.store EXCEPT ![n] = None] /\ route'[t].at = "unmirror"
            /\ disk'.active = IF disk.active = n THEN None ELSE disk.active
        BY <2>4, DeleteDoes
      <3>2. ActiveExists'
        BY <1>2, <3>1
      <3>3. QED
        BY <1>1, <3>1, <3>2 DEF At
    <2>5. CASE Unload(t) \/ StandsDown(t)
      BY <1>1, <2>5, UnloadDoes, StandsDownDoes DEF At
    <2>6. QED
      BY <1>3, <2>1, <2>2, <2>3, <2>4, <2>5 DEF Beginning
  <1>4. ASSUME NEW t \in Routes, Backup(t) PROVE Existing'
    <2>1. At(t, "backup")
      BY <1>4 DEF Backup
    <2>2. CASE BuildsLoad(t)
      BY <1>1, <2>1, <2>2, BuildsLoadDoes DEF At
    <2>3. CASE BuildsApply(t)
      BY <1>1, <2>1, <2>3, BuildsApplyDoes DEF At
    <2>4. CASE Saves(t)
      <3>1. /\ route[t].name \in Names /\ route'[t].xml \in Config /\ route'[t].at = "post" /\ route'[t].verb = "save"
            /\ disk'.store = [disk.store EXCEPT ![route[t].name] = route'[t].xml] /\ disk'.active = route[t].name
        BY <2>1, <2>4, SavesDoes
      <3>2. ActiveExists'
        BY <1>2, <3>1
      <3>3. QED
        BY <1>1, <3>1, <3>2 DEF At
    <2>5. CASE Folds(t)
      <3>1. /\ route[t].name \in Names /\ Heard(daemon.file) \in Config /\ route'[t] = Idle
            /\ disk'.store = [disk.store EXCEPT ![route[t].name] = Heard(daemon.file)] /\ disk'.active = disk.active
        BY <2>1, <2>5, FoldsDoes
      <3>2. ActiveExists'
        BY <1>2, <3>1
      <3>3. QED
        BY <1>1, <3>1, <3>2 DEF At, Idle
    <2>6. QED
      BY <1>4, <2>2, <2>3, <2>4, <2>5 DEF Backup
  <1>5. ASSUME NEW t \in Routes, Going(t), ~Backup(t) PROVE Existing'
    <2>1. CASE BackupFails(t) \/ PostGivesUp(t) \/ UnmirrorFails(t) \/ Unmirror(t) \/ ReadBackFails(t)
      <3>1. route'[t] = Idle /\ disk' = disk
        BY <2>1 DEF BackupFails, PostGivesUp, UnmirrorFails, Unmirror, ReadBackFails, Goes, TypeOK
      <3>2. QED
        BY <1>1, <3>1 DEF At, Idle
    <2>2. CASE Post(t)
      BY <1>1, <2>2, PostDoes DEF At, Post
    <2>3. CASE PostLost(t)
      BY <1>1, <2>3, PostLostDoes DEF At, PostLost, Idle
    <2>4. CASE AwaitReady(t) \/ WaitExpires(t)
      <3>1. At(t, "wait") /\ Waited(t) /\ disk' = disk
        BY <2>4 DEF AwaitReady, WaitExpires
      <3>2. QED
        BY <1>1, <3>1, WaitedDoes DEF At, Idle
    <2>5. CASE Resync(t)
      <3>1. At(t, "resync") /\ Settles(t)
        BY <2>5 DEF Resync
      <3>2. QED
        BY <1>1, <3>1, SettlesDoes DEF At
    <2>6. QED
      BY <1>5, <2>1, <2>2, <2>3, <2>4, <2>5 DEF Going
  <1>6. CASE Around \/ UNCHANGED vars
    <2>1. ActiveExists'
      BY <1>2, <1>6, AroundDoes
    <2>2. ASSUME NEW t \in Routes PROVE Present(t)'
      <3>1. route'[t] = route[t] \/ route'[t] = Idle
        BY <1>6, AroundDoes
      <3>2. Equipped(route[t])
        BY DEF TypeOK
      <3>3. QED
        BY <1>6, <3>1, <3>2, AroundDoes DEF Equipped, At, Idle
    <2>3. QED
      BY <2>1, <2>2
  <1>7. QED
    BY <1>3, <1>4, <1>5, <1>6, NextIs

LEMMA ExistingSafety == ASSUME Alone PROVE Spec => [](TypeOK /\ Existing)
  <1>1. Init => Existing
    BY DEF Init, Existing, ActiveExists, Present, At, Idle
  <1>2. TypeOK /\ Existing /\ [Next]_vars => Existing'
    BY ExistingStep
  <1>3. QED
    BY <1>1, <1>2, TypeCorrect, PTL DEF Spec

\* ActiveExists, for one request at a time: whatever dies in between, the pointer is at
\* a preset that exists.
THEOREM ActiveAlwaysExists == ASSUME Alone PROVE Spec => []ActiveExists
  BY ExistingSafety, PTL DEF Existing

\* No step brings back what is gone.
LEMMA VanishedStep == ASSUME Alone, TypeOK, Existing, Vanished, [Next]_vars PROVE Vanished'
  <1> USE DEF Vanished
  <1>1. \A s, t \in Routes : s = t
    BY DEF Alone
  <1>2. /\ disk.store \in [Names -> Archives] /\ daemon.cfgs \in [Names -> Archives]
        /\ deleted \in [Names -> {"no", "deleted", "overtaken", "gone"}]
    BY DEF TypeOK, DiskType, DaemonType
  <1>3. ASSUME NEW t \in Routes, Beginning(t) PROVE Vanished'
    <2>0. memory'.snapshots = memory.snapshots
      BY <1>3, SnapshotsStay
    <2>1. ASSUME NEW n \in Names, NEW verb \in {"load", "switch"}, Load(t, n, verb) PROVE Vanished'
      BY <1>1, <2>0, <2>1, LoadDoes DEF At
    <2>2. CASE (\E n \in Names : Save(t, n)) \/ \E v \in Values : Apply(t, v)
      BY <1>1, <2>0, <2>2, AskDoes DEF At
    <2>3. ASSUME NEW v \in Values, NEW p \in BOOLEAN, LiveWrite(t, v, p) PROVE Vanished'
      <3>1. daemon'.cfgs = daemon.cfgs /\ disk'.store = disk.store /\ UNCHANGED deleted /\ route'[t].at # "post"
        BY <2>3, LiveWriteDoes DEF TypeOK, DaemonType
      <3>2. QED
        BY <1>1, <2>0, <3>1 DEF At
    <2>4. ASSUME NEW n \in Names, Delete(t, n) PROVE Vanished'
      <3>1. /\ disk'.store = [disk.store EXCEPT ![n] = None] /\ deleted' = [deleted EXCEPT ![n] = "deleted"]
            /\ daemon' = daemon /\ route'[t].at = "unmirror"
        BY <2>4, DeleteDoes
      <3>2. QED
        BY <1>1, <1>2, <2>0, <3>1 DEF At
    <2>5. CASE Unload(t) \/ StandsDown(t)
      BY <1>1, <2>0, <2>5, UnloadDoes, StandsDownDoes DEF At
    <2>6. QED
      BY <1>3, <2>1, <2>2, <2>3, <2>4, <2>5 DEF Beginning
  <1>4. ASSUME NEW t \in Routes, Backup(t) PROVE Vanished'
    <2>0. memory'.snapshots = memory.snapshots
      BY <1>4, SnapshotsStay DEF Going
    <2>1. At(t, "backup")
      BY <1>4 DEF Backup
    <2>2. CASE BuildsLoad(t)
      <3>1. route[t].name \in Names /\ disk.store[route[t].name] # None /\ UNCHANGED <<daemon, disk, deleted>>
        BY <2>1, <2>2, BuildsLoadDoes DEF Existing, Present, At
      <3>2. \A m \in Names : m # route[t].name => route'[t].cfgs[m] = daemon.cfgs[m]
        BY <2>1, <2>2, BuildsLoadDoes
      <3>3. QED
        BY <1>1, <2>0, <3>1, <3>2
    <2>3. CASE BuildsApply(t)
      <3>1. UNCHANGED <<daemon, disk, deleted>> /\ \A m \in Names : route'[t].cfgs[m] # daemon.cfgs[m] => disk.store[m] # None
        BY <2>1, <2>3, BuildsApplyDoes
      <3>2. QED
        BY <1>1, <2>0, <3>1
    <2>4. CASE Saves(t)
      <3> DEFINE n == route[t].name
                 own == route'[t].xml
      <3>1. /\ disk'.store = [disk.store EXCEPT ![n] = own] /\ deleted' = [deleted EXCEPT ![n] = "no"] /\ n \in Names
            /\ daemon'.cfgs = daemon.cfgs /\ \A m \in Names : route'[t].cfgs[m] = IF m = n THEN own ELSE daemon.cfgs[m]
        BY <2>1, <2>4, SavesDoes
      <3> HIDE DEF n, own
      <3>2. QED
        BY <1>1, <1>2, <2>0, <3>1
    <2>5. CASE Folds(t)
      <3> DEFINE n == route[t].name
      <3>1. /\ disk'.store = [disk.store EXCEPT ![n] = Heard(daemon.file)] /\ n \in Names /\ UNCHANGED <<daemon, deleted>>
            /\ route'[t] = Idle /\ route[t].verb = "fold"
        BY <2>1, <2>5, FoldsDoes
      <3>2. disk.store[n] # None
        BY <2>1, <3>1 DEF Existing, Present, ActiveExists
      <3> HIDE DEF n
      <3>3. QED
        BY <1>1, <1>2, <2>0, <3>1, <3>2 DEF At, Idle
    <2>6. QED
      BY <1>4, <2>2, <2>3, <2>4, <2>5 DEF Backup
  <1>5. ASSUME NEW t \in Routes, Going(t), ~Backup(t) PROVE Vanished'
    <2>0. memory'.snapshots = memory.snapshots
      BY <1>5, SnapshotsStay
    <2>1. CASE BackupFails(t) \/ PostGivesUp(t) \/ UnmirrorFails(t) \/ ReadBackFails(t)
      <3>1. route'[t] = Idle /\ UNCHANGED <<disk, daemon, deleted>>
        BY <2>1 DEF BackupFails, PostGivesUp, UnmirrorFails, ReadBackFails, Goes, TypeOK
      <3>2. QED
        BY <1>1, <2>0, <3>1 DEF At, Idle
    <2>2. CASE Post(t) \/ PostLost(t)
      <3>1. At(t, "post") /\ deleted' = deleted
            /\ \A m \in Names : daemon'.cfgs[m] = IF route[t].cfgs[m] # None THEN route[t].cfgs[m] ELSE daemon.cfgs[m]
        BY <2>2, AdoptedDoes DEF Post, PostLost
      <3>2. disk'.store = disk.store /\ (route'[t].at = "post" => route'[t].cfgs = route[t].cfgs)
        BY <2>2, PostDoes, PostLostDoes DEF PostLost, Idle
      <3>3. QED
        BY <1>1, <2>0, <3>1, <3>2 DEF At
    <2>3. CASE AwaitReady(t) \/ WaitExpires(t)
      <3>1. At(t, "wait") /\ Waited(t) /\ UNCHANGED <<disk, daemon, deleted>>
        BY <2>3 DEF AwaitReady, WaitExpires
      <3>2. route'[t].at # "post"
        BY <3>1, WaitedDoes DEF Idle
      <3>3. QED
        BY <1>1, <2>0, <3>1, <3>2 DEF At
    <2>4. CASE Resync(t)
      <3>1. At(t, "resync") /\ Settles(t) /\ UNCHANGED <<daemon, deleted>>
        BY <2>4 DEF Resync
      <3>2. disk'.store = disk.store /\ route'[t].at # "post"
        BY <3>1, SettlesDoes
      <3>3. QED
        BY <1>1, <2>0, <3>1, <3>2 DEF At
    <2>5. CASE Unmirror(t)
      <3> DEFINE n == route[t].name
      <3>1. /\ n \in Names /\ daemon' = [daemon EXCEPT !.cfgs = [daemon.cfgs EXCEPT ![n] = None]]
            /\ route'[t] = Idle /\ disk' = disk
            /\ \A m \in Names : deleted'[m] = "gone" => deleted[m] = "gone" \/ (m = n /\ disk.store[m] = None /\ memory.snapshots[m] = None)
        BY <2>5, UnmirrorDoes
      <3> HIDE DEF n
      <3>2. daemon'.cfgs = [daemon.cfgs EXCEPT ![n] = None]
        BY <3>1 DEF TypeOK, DaemonType
      <3>3. QED
        BY <1>1, <1>2, <2>0, <3>1, <3>2 DEF At, Idle
    <2>6. QED
      BY <1>5, <2>1, <2>2, <2>3, <2>4, <2>5 DEF Going
  <1>6. CASE Around \/ UNCHANGED vars
    <2> SUFFICES ASSUME NEW n \in Names, deleted[n] = "gone"
                 PROVE  /\ disk'.store[n] = None /\ daemon'.cfgs[n] = None /\ memory'.snapshots[n] = None
                        /\ \A t \in Routes : At(t, "post")' => route'[t].cfgs[n] = None
      BY <1>6, AroundDoes
    <2>1. disk'.store[n] = None /\ daemon'.cfgs[n] = None /\ memory'.snapshots[n] = None
      BY <1>6, AroundDoes
    <2>2. ASSUME NEW t \in Routes, At(t, "post")' PROVE route'[t].cfgs[n] = None
      BY <1>6, <2>2, AroundDoes DEF At, Idle
    <2>3. QED
      BY <2>1, <2>2
  <1>7. QED
    BY <1>3, <1>4, <1>5, <1>6, NextIs

\* GoneStaysGone, for one request at a time: a preset deleted here and on the daemon
\* does not come back but by a save, whatever archives and imports come after.
THEOREM GoneAlwaysStaysGone == ASSUME Alone PROVE Spec => []GoneStaysGone
  <1>1. Init => Vanished
    BY DEF Init, Vanished
  <1>2. TypeOK /\ Existing /\ Vanished /\ [Next]_vars => Vanished'
    BY VanishedStep
  <1>3. Vanished => GoneStaysGone
    BY DEF Vanished, GoneStaysGone
  <1>4. QED
    BY <1>1, <1>2, <1>3, ExistingSafety, PTL DEF Spec

-----------------------------------------------------------------------------
(* One request at a time: every preset keeps its own.                        *)

\* What has not happened yet had not happened before, and does not happen now.
LEMMA QuietSteps ==
    ASSUME TypeOK, [Next]_vars
    PROVE  /\ \A k \in Bounded : spent'[k] = 0 => spent[k] = 0 /\ ~Spend(k)
           /\ spent'["lost"] = 0 /\ spent'["deaths"] = 0 =>
                 ~Reborn /\ (\A t \in Routes : ~PostLost(t)) /\ (GoesDown => daemon.phase = "doomed")
  <1>1. \A k \in Bounded : spent[k] \in Nat /\ (spent'[k] = spent[k] \/ spent'[k] = spent[k] + 1)
    BY SpentGrows DEF TypeOK
  <1>2. \A k \in Bounded : spent'[k] = 0 => spent[k] = 0 /\ ~Spend(k)
    BY <1>1 DEF Spend, TypeOK
  <1>3. "lost" \in Bounded /\ "deaths" \in Bounded
    BY DEF Bounded
  <1>4. QED
    BY <1>2, <1>3 DEF Reborn, PostLost, GoesDown

LEMMA CalmSteps ==
    ASSUME TypeOK, [Next]_vars, Calm'
    PROVE  /\ Calm /\ ~Spend("stale") /\ ~Reborn /\ \A t \in Routes : ~PostLost(t)
           /\ GoesDown => daemon.phase = "doomed"
  <1>1. spent'["lost"] = 0 /\ spent'["deaths"] = 0 /\ spent'["stale"] = 0 /\ {"lost", "deaths", "stale"} \subseteq Bounded
    BY DEF Calm, Bounded
  <1>2. QED
    BY <1>1, QuietSteps DEF Calm

LEMMA UndisturbedSteps ==
    ASSUME TypeOK, [Next]_vars, Undisturbed'
    PROVE  /\ Undisturbed /\ ~Reborn /\ \A t \in Routes : ~PostLost(t) /\ ~WaitExpires(t)
           /\ GoesDown => daemon.phase = "doomed"
  <1>1. spent'["lost"] = 0 /\ spent'["deaths"] = 0 /\ spent'["expired"] = 0 /\ {"lost", "deaths", "expired"} \subseteq Bounded
    BY DEF Undisturbed, Bounded
  <1>2. \A t \in Routes : WaitExpires(t) => Spend("expired")
    BY DEF WaitExpires
  <1>3. QED
    BY <1>1, <1>2, QuietSteps DEF Undisturbed

\* The beginning of a request takes a preset's own configuration in hand.
LEMMA BeginningOwn ==
    ASSUME Alone, TypeOK, OwnAll, NEW t \in Routes, Beginning(t)
    PROVE  OwnAll'
  <1> USE DEF OwnAll
  <1>1. \A s \in Routes : s = t
    BY DEF Alone
  <1>2. disk.store \in [Names -> Archives] /\ daemon.cfgs \in [Names -> Archives]
    BY DEF TypeOK, DiskType, DaemonType
  <1>3. At(t, "idle") /\ (\A m \in Names : disk'.store[m] \in {None, disk.store[m]}) /\ disk'.active \in {None, disk.active}
    <2>1. ASSUME NEW n \in Names, Delete(t, n)
          PROVE  At(t, "idle") /\ (\A m \in Names : disk'.store[m] \in {None, disk.store[m]}) /\ disk'.active \in {None, disk.active}
      BY <1>2, <2>1, DeleteDoes, ZenonT(60)
    <2>2. QED
      BY <2>1, UnloadDoes, LiveWriteDoes, StandsDownDoes DEF Beginning, Load, Save, Apply
  <1>4. /\ daemon'.file = daemon.file /\ daemon'.named = daemon.named /\ daemon'.phase = daemon.phase
        /\ daemon'.cfgs = daemon.cfgs
    <2>1. daemon' = daemon \/ \E v \in Values : daemon' = [daemon EXCEPT !.plays = v]
      BY DEF Beginning, Load, Save, Apply, LiveWrite, Delete, Unload, StandsDown
    <2>2. QED
      BY <2>1 DEF TypeOK, DaemonType
  <1>5. Owned(disk.store)' /\ Owned(daemon.cfgs)' /\ Owned(memory.snapshots)'
    BY <1>3, <1>4, SnapshotsStay DEF Owned
  <1>6. OwnFile'
    <2>1. daemon.named \in {None, daemon.file.of}
      BY <1>1, <1>3 DEF OwnFile, At
    <2>2. QED
      BY <1>3, <1>4, <2>1 DEF OwnFile
  <1>7. OwnPost(t)'
    <2>1. ASSUME NEW n \in Names, NEW verb \in {"load", "switch"}, Load(t, n, verb) PROVE OwnPost(t)'
      <3>1. /\ route'[t].at = "backup" /\ route'[t].name = n /\ route'[t].xml = disk.store[n] /\ disk.store[n] # None
        BY <2>1, LoadDoes
      <3>2. disk.store[n].of = n
        BY <3>1 DEF Owned
      <3>3. QED
        BY <3>1, <3>2 DEF OwnPost, At
    <2>2. CASE (\E n \in Names : Save(t, n)) \/ \E v \in Values : Apply(t, v)
      BY <2>2, AskDoes DEF OwnPost, At
    <2>3. ASSUME NEW v \in Values, NEW p \in BOOLEAN, LiveWrite(t, v, p) PROVE OwnPost(t)'
      BY <2>3, LiveWriteDoes DEF OwnPost, At
    <2>4. ASSUME NEW n \in Names, Delete(t, n) PROVE OwnPost(t)'
      BY <2>4, DeleteDoes DEF OwnPost, At
    <2>5. CASE Unload(t) \/ StandsDown(t)
      BY <2>5, UnloadDoes, StandsDownDoes DEF OwnPost, At
    <2>6. QED
      BY <2>1, <2>2, <2>3, <2>4, <2>5 DEF Beginning
  <1>8. QED
    BY <1>1, <1>5, <1>6, <1>7

\* An archive is built of one preset's configuration, under that preset's name.
LEMMA BackupOwn ==
    ASSUME Alone, TypeOK, Existing, OwnAll, NEW t \in Routes, Backup(t)
    PROVE  OwnAll'
  <1> USE DEF OwnAll
  <1>1. \A s \in Routes : s = t
    BY DEF Alone
  <1>0. Owned(memory.snapshots)'
    BY SnapshotsStay DEF Going, Owned
  <1>2. disk.store \in [Names -> Archives] /\ daemon.cfgs \in [Names -> Archives] /\ At(t, "backup") /\ MemoryType /\ daemon.file \in Config
    BY DEF TypeOK, DiskType, DaemonType, Backup
  <1>3. daemon.named \in {None, daemon.file.of}
    BY <1>1, <1>2 DEF OwnFile, At
  <1>4. CASE BuildsLoad(t)
    <2> DEFINE n == route[t].name
    <2>1. /\ n \in Names /\ route'[t].at = "post" /\ route'[t].xml = route[t].xml /\ route'[t].verb \in {"load", "switch"}
          /\ route'[t].name = n /\ UNCHANGED <<daemon, disk>> /\ route[t].verb \in {"load", "switch"}
      BY <1>2, <1>4, BuildsLoadDoes
    <2>2. \A m \in Names : route'[t].cfgs[m] = IF m = n THEN route[t].xml ELSE daemon.cfgs[m]
      BY <1>2, <1>4, BuildsLoadDoes
    <2>3. route[t].xml.of = n
      BY <1>2, <2>1 DEF OwnPost, At
    <2>4. Owned(route'[t].cfgs)
      BY <2>2, <2>3 DEF Owned
    <2> HIDE DEF n
    <2>5. OwnPost(t)'
      BY <2>1, <2>3, <2>4 DEF OwnPost, At
    <2>6. OwnFile' /\ Owned(disk.store)' /\ Owned(daemon.cfgs)'
      BY <1>3, <2>1 DEF OwnFile, Owned
    <2>7. QED
      BY <1>0, <1>1, <2>5, <2>6
  <1>5. CASE BuildsApply(t)
    <2>1. /\ route'[t].at = "post" /\ route'[t].xml.of = daemon.file.of /\ route'[t].verb = "apply" /\ UNCHANGED <<daemon, disk>>
      BY <1>2, <1>5, BuildsApplyDoes
    <2>2. \A m \in Names : route'[t].cfgs[m] # daemon.cfgs[m] => route'[t].cfgs[m] = route'[t].xml /\ m = disk.active
      BY <1>2, <1>5, BuildsApplyDoes
    <2>3. Owned(route'[t].cfgs)
      <3>1. \A m \in Names : m = disk.active => daemon.file.of = m
        BY DEF OwnFile
      <3>2. QED
        BY <2>1, <2>2, <3>1 DEF Owned
    <2>4. OwnPost(t)'
      BY <2>1, <2>3 DEF OwnPost, At
    <2>5. OwnFile' /\ Owned(disk.store)' /\ Owned(daemon.cfgs)'
      BY <1>3, <2>1 DEF OwnFile, Owned
    <2>6. QED
      BY <1>0, <1>1, <2>4, <2>5
  <1>6. CASE Saves(t)
    <2> DEFINE n == route[t].name
               own == route'[t].xml
    <2>1. /\ n \in Names /\ own.of = n /\ disk'.store = [disk.store EXCEPT ![n] = own] /\ disk'.active = n
          /\ daemon'.file.of = n /\ daemon'.phase = daemon.phase /\ daemon'.named = daemon.named /\ daemon'.cfgs = daemon.cfgs
          /\ route'[t].at = "post" /\ route'[t].verb = "save" /\ route'[t].name = n
          /\ \A m \in Names : route'[t].cfgs[m] = IF m = n THEN own ELSE daemon.cfgs[m]
      BY <1>2, <1>6, SavesDoes
    <2>2. Owned(route'[t].cfgs)
      BY <2>1 DEF Owned
    <2>3. OwnPost(t)'
      BY <2>1, <2>2 DEF OwnPost, At
    <2> HIDE DEF n, own
    <2>4. OwnFile' /\ Owned(disk.store)' /\ Owned(daemon.cfgs)'
      BY <1>2, <2>1 DEF OwnFile, Owned, At
    <2>5. QED
      BY <1>0, <1>1, <2>3, <2>4
  <1>7. CASE Folds(t)
    <2> DEFINE n == route[t].name
    <2>1. /\ n \in Names /\ disk'.store = [disk.store EXCEPT ![n] = Heard(daemon.file)] /\ disk'.active = disk.active
          /\ daemon' = daemon /\ route'[t] = Idle /\ route[t].verb = "fold"
      BY <1>2, <1>7, FoldsDoes
    <2>2. disk.active = n
      BY <1>2, <2>1 DEF Existing, Present
    <2>3. Heard(daemon.file).of = n
      BY <1>2, <2>1, <2>2, HeardIsConfig DEF OwnFile
    <2> HIDE DEF n
    <2>4. Owned(disk.store)'
      BY <1>2, <2>1, <2>3 DEF Owned
    <2>5. OwnFile' /\ Owned(daemon.cfgs)' /\ OwnPost(t)'
      BY <1>3, <2>1 DEF OwnFile, OwnPost, At, Idle, Owned
    <2>6. QED
      BY <1>0, <1>1, <2>4, <2>5
  <1>8. QED
    BY <1>4, <1>5, <1>6, <1>7 DEF Backup

\* What follows a post leaves the daemon on the preset that was posted.
LEMMA GoingOwn ==
    ASSUME Alone, TypeOK, OwnAll, NEW t \in Routes, Going(t), ~Backup(t), ~PostLost(t)
    PROVE  OwnAll'
  <1> USE DEF OwnAll
  <1>1. \A s \in Routes : s = t
    BY DEF Alone
  <1>0. Owned(memory.snapshots)'
    BY SnapshotsStay DEF Owned
  <1>2. disk.store \in [Names -> Archives] /\ daemon.cfgs \in [Names -> Archives] /\ Equipped(route[t])
    BY DEF TypeOK, DiskType, DaemonType
  <1>3. CASE Post(t)
    <2>1. At(t, "post") /\ daemon' = Adopted(route[t])
      BY <1>3 DEF Post
    <2>2. /\ daemon'.file = route[t].xml /\ daemon'.named = None
          /\ \A m \in Names : daemon'.cfgs[m] = IF route[t].cfgs[m] # None THEN route[t].cfgs[m] ELSE daemon.cfgs[m]
      BY <2>1, AdoptedDoes
    <2>3. /\ disk'.store = disk.store /\ route'[t].at = "wait"
          /\ disk'.active = IF route[t].verb \in {"load", "switch"} THEN route[t].name ELSE disk.active
      BY <1>3, PostDoes
    <2>4. Owned(disk.store)' /\ Owned(daemon.cfgs)'
      BY <2>1, <2>2, <2>3 DEF Owned, OwnPost
    <2>5. disk'.active # None => daemon'.file.of = disk'.active
      BY <1>2, <2>1, <2>2, <2>3 DEF OwnFile, OwnPost, Equipped, At
    <2>6. OwnFile' /\ OwnPost(t)'
      BY <2>2, <2>3, <2>5 DEF OwnFile, OwnPost, At
    <2>7. QED
      BY <1>0, <1>1, <2>4, <2>6
  <1>4. CASE BackupFails(t) \/ PostGivesUp(t) \/ UnmirrorFails(t) \/ ReadBackFails(t)
    <2>1. route'[t] = Idle /\ UNCHANGED <<disk, daemon>> /\ (At(t, "post") => daemon.phase = "down")
      BY <1>4 DEF BackupFails, PostGivesUp, UnmirrorFails, ReadBackFails, Goes, TypeOK, At, Answers
    <2>2. daemon.named \in {None, daemon.file.of}
      BY <1>1, <2>1 DEF OwnFile, At
    <2>3. OwnFile' /\ Owned(disk.store)' /\ Owned(daemon.cfgs)' /\ OwnPost(t)'
      BY <2>1, <2>2 DEF OwnFile, Owned, OwnPost, At, Idle
    <2>4. QED
      BY <1>0, <1>1, <2>3
  <1>5. CASE AwaitReady(t) \/ WaitExpires(t) \/ Resync(t)
    <2>1. /\ daemon' = daemon /\ disk'.store = disk.store /\ disk'.active = disk.active /\ ~At(t, "post")
          /\ route'[t].at # "post" /\ (route'[t].at = "backup" => route'[t].verb = "fold")
      <3>1. CASE AwaitReady(t) \/ WaitExpires(t)
        <4>1. At(t, "wait") /\ Waited(t) /\ UNCHANGED <<disk, daemon>>
          BY <3>1 DEF AwaitReady, WaitExpires
        <4>2. QED
          BY <4>1, WaitedDoes DEF Idle, At
      <3>2. CASE Resync(t)
        <4>1. At(t, "resync") /\ Settles(t) /\ daemon' = daemon
          BY <3>2 DEF Resync
        <4>2. QED
          BY <4>1, SettlesDoes DEF At
      <3>3. QED
        BY <1>5, <3>1, <3>2
    <2>2. daemon.named \in {None, daemon.file.of}
      BY <1>1, <2>1 DEF OwnFile
    <2>3. OwnFile' /\ Owned(disk.store)' /\ Owned(daemon.cfgs)' /\ OwnPost(t)'
      BY <2>1, <2>2 DEF OwnFile, Owned, OwnPost, At
    <2>4. QED
      BY <1>0, <1>1, <2>3
  <1>6. CASE Unmirror(t)
    <2> DEFINE n == route[t].name
    <2>1. /\ n \in Names /\ daemon' = [daemon EXCEPT !.cfgs = [daemon.cfgs EXCEPT ![n] = None]]
          /\ route'[t] = Idle /\ disk' = disk /\ At(t, "unmirror")
      BY <1>6, UnmirrorDoes DEF Unmirror
    <2> HIDE DEF n
    <2>2. /\ daemon'.cfgs = [daemon.cfgs EXCEPT ![n] = None] /\ daemon'.file = daemon.file
          /\ daemon'.named = daemon.named /\ daemon'.phase = daemon.phase
      BY <2>1 DEF TypeOK, DaemonType
    <2>3. daemon.named \in {None, daemon.file.of}
      BY <1>1, <2>1 DEF OwnFile, At
    <2>4. Owned(daemon.cfgs)' /\ Owned(disk.store)'
      BY <1>2, <2>1, <2>2 DEF Owned
    <2>5. OwnFile' /\ OwnPost(t)'
      BY <2>1, <2>2, <2>3 DEF OwnFile, OwnPost, At, Idle
    <2>6. QED
      BY <1>0, <1>1, <2>4, <2>5
  <1>7. QED
    BY <1>3, <1>4, <1>5, <1>6 DEF Going

\* The import brings every preset its own; the hint is whose file the daemon runs.
LEMMA AroundOwn ==
    ASSUME TypeOK, OwnAll, Around \/ UNCHANGED vars, ~Reborn, ~Spend("stale"), GoesDown => daemon.phase = "doomed"
    PROVE  OwnAll'
  <1> USE DEF OwnAll
  <1>1. route' = route
    BY FlippingDoes, ImportingDoes DEF Around, SetAutosave, Poll, GoesDown, ComesUp, vars
  <1>2. daemon'.phase # "serving" => daemon.phase # "serving"
    BY FlippingDoes, ImportingDoes DEF Around, SetAutosave, Poll, GoesDown, ComesUp, vars, TypeOK, DaemonType
  <1>3. Owned(disk.store)' /\ Owned(daemon.cfgs)' /\ Owned(memory.snapshots)'
    <2>1. \A n \in Names : /\ disk'.store[n] \in {disk.store[n], memory.snapshots[n]}
                          /\ memory'.snapshots[n] \in {None, memory.snapshots[n], daemon.cfgs[n]}
                          /\ daemon'.cfgs[n] = daemon.cfgs[n]
      BY AroundDoes
    <2>2. QED
      BY <2>1 DEF Owned
  <1>4. \A t \in Routes : At(t, "post") /\ route[t].verb = "save" => disk.active # None
    BY DEF OwnPost, TypeOK, Equipped, At
  <1>5. disk'.active = disk.active \/ (disk.active = None /\ disk'.active = daemon.named)
    BY AroundDoes
  <1>6. daemon'.file = daemon.file /\ daemon'.named = daemon.named /\ daemon'.cfgs = daemon.cfgs
    BY AroundDoes
  <1>7. OwnFile'
    BY <1>1, <1>2, <1>4, <1>5, <1>6 DEF OwnFile, At
  <1>8. ASSUME NEW t \in Routes PROVE OwnPost(t)'
    <2>1. OwnPost(t) /\ Equipped(route[t])
      BY DEF TypeOK
    <2>2. QED
      BY <1>1, <1>4, <1>5, <1>6, <2>1 DEF OwnPost, At
  <1>9. QED
    BY <1>3, <1>7, <1>8

\* What a preset holds is its own, until an answer is lost or something dies.
LEMMA OwnStep == ASSUME Alone, TypeOK, Existing, CalmOwn, [Next]_vars PROVE CalmOwn'
  <1> SUFFICES ASSUME Calm' PROVE OwnAll'
    BY DEF CalmOwn
  <1>1. OwnAll /\ ~Reborn /\ ~Spend("stale") /\ (GoesDown => daemon.phase = "doomed") /\ \A t \in Routes : ~PostLost(t)
    BY CalmSteps DEF CalmOwn
  <1>2. ASSUME NEW t \in Routes, Beginning(t) PROVE OwnAll'
    BY <1>1, <1>2, BeginningOwn
  <1>3. ASSUME NEW t \in Routes, Going(t) PROVE OwnAll'
    BY <1>1, <1>3, BackupOwn, GoingOwn
  <1>4. CASE Around \/ UNCHANGED vars
    BY <1>1, <1>4, AroundOwn
  <1>5. QED
    BY <1>2, <1>3, <1>4, NextIs

\* PresetsKeepTheirOwn, for one request at a time, as long as no restore's answer was
\* lost and nothing died: a preset never holds another one's configuration.
THEOREM PresetsAlwaysKeepTheirOwn == ASSUME Alone PROVE Spec => []PresetsKeepTheirOwn
  <1>1. Init => CalmOwn
    <2> SUFFICES ASSUME Init PROVE OwnAll
      BY DEF CalmOwn
    <2>1. PICK h \in Names \cup {None} :
             daemon = [file |-> Found(h), named |-> h, plays |-> First, phase |-> "serving",
                       cfgs |-> [n \in Names |-> IF n = h THEN Found(h) ELSE None]]
      BY DEF Init
    <2>2. daemon.file.of = h /\ daemon.named = h /\ daemon.phase = "serving" /\ Owned(daemon.cfgs)
      BY <2>1 DEF Found, Owned
    <2>3. disk.active = None /\ Owned(disk.store)
      BY DEF Init, Owned
    <2>4. Owned(memory.snapshots)
      BY NothingIsArchives DEF Init, Owned
    <2>5. QED
      BY <2>2, <2>3, <2>4 DEF Init, OwnAll, OwnFile, OwnPost, At, Idle
  <1>2. TypeOK /\ Existing /\ CalmOwn /\ [Next]_vars => CalmOwn'
    BY OwnStep
  <1>3. CalmOwn => PresetsKeepTheirOwn
    BY DEF CalmOwn, Calm, OwnAll, Owned, PresetsKeepTheirOwn
  <1>4. QED
    BY <1>1, <1>2, <1>3, ExistingSafety, PTL DEF Spec

-----------------------------------------------------------------------------
(* One request at a time: what is stored is what is heard.                   *)

\* Where no restart is awaited, the last reading is what the engine plays.
LEMMA AttentiveHears ==
    ASSUME Alone, TypeOK, HeardAll, NEW t \in Routes, ~At(t, "wait")
    PROVE  /\ daemon.phase = "serving"
           /\ ~At(t, "resync") => memory.live = daemon.plays /\ memory.live # None
  BY DEF Alone, HeardAll, Restarting, At, TypeOK, DaemonType

\* A request begins with the readings at hand.
LEMMA BeginningHeard ==
    ASSUME Alone, TypeOK, HeardAll, NEW t \in Routes, Beginning(t)
    PROVE  HeardAll'
  <1>1. \A s \in Routes : s = t
    BY DEF Alone
  <1>2. At(t, "idle")
    BY UnloadDoes DEF Beginning, Load, Save, Apply, LiveWrite, Delete, StandsDown
  <1>3. daemon.phase = "serving" /\ memory.live = daemon.plays
    BY <1>2, AttentiveHears DEF At
  <1>4. daemon'.phase = "serving" /\ memory'.live = daemon'.plays
    <2>1. ASSUME NEW v \in Values, NEW p \in BOOLEAN, LiveWrite(t, v, p) PROVE daemon'.phase = "serving" /\ memory'.live = daemon'.plays
      BY <1>3, <2>1, LiveWriteDoes DEF TypeOK, DaemonType
    <2>2. QED
      BY <1>3, <2>1 DEF Beginning, Load, Save, Apply, Delete, Unload, StandsDown
  <1>5. route'[t].at \in {"idle", "backup", "unmirror"} /\ (route'[t].at = "backup" => route'[t].verb # "fold" \/ route'[t].xml = None)
    <2>1. ASSUME NEW n \in Names, NEW verb \in {"load", "switch"}, Load(t, n, verb)
          PROVE  route'[t].at = "backup" /\ route'[t].verb # "fold"
      BY <2>1, LoadDoes
    <2>2. ASSUME (\E n \in Names : Save(t, n)) \/ \E v \in Values : Apply(t, v)
          PROVE  route'[t].at = "backup" /\ route'[t].verb # "fold"
      BY <2>2, AskDoes
    <2>3. ASSUME NEW v \in Values, NEW p \in BOOLEAN, LiveWrite(t, v, p) PROVE route'[t].at \in {"idle", "backup"} /\ route'[t].xml = None
      BY <2>3, LiveWriteDoes
    <2>4. ASSUME NEW n \in Names, Delete(t, n) PROVE route'[t].at = "unmirror"
      BY <2>4, DeleteDoes
    <2>5. ASSUME Unload(t) \/ StandsDown(t) PROVE route'[t].at = "idle"
      BY <1>2, <2>5, UnloadDoes, StandsDownDoes DEF At
    <2>6. QED
      BY <2>1, <2>2, <2>3, <2>4, <2>5 DEF Beginning
  <1>6. Hearing(t)'
    BY <1>5 DEF Hearing, At
  <1>7. QED
    BY <1>1, <1>4, <1>6 DEF HeardAll

\* A save takes what is heard in hand; a post has the engine go on until the restart.
LEMMA BackupHeard ==
    ASSUME Alone, TypeOK, HeardAll, NEW t \in Routes, Backup(t)
    PROVE  HeardAll'
  <1>1. \A s \in Routes : s = t
    BY DEF Alone
  <1>2. At(t, "backup") /\ memory' = memory
    BY DEF Backup
  <1>3. daemon.phase = "serving" /\ memory.live = daemon.plays /\ memory.live # None
    BY <1>2, AttentiveHears DEF At
  <1>4. CASE BuildsLoad(t) \/ BuildsApply(t)
    <2>1. route'[t].at = "post" /\ route'[t].verb # "save" /\ daemon' = daemon
      BY <1>2, <1>4, BuildsLoadDoes, BuildsApplyDoes
    <2>2. Hearing(t)'
      BY <2>1 DEF Hearing, At
    <2>3. QED
      BY <1>1, <1>2, <1>3, <2>1, <2>2 DEF HeardAll
  <1>5. CASE Saves(t)
    <2>1. /\ route'[t].at = "post" /\ route'[t].xml.live = memory.live
          /\ daemon'.plays = daemon.plays /\ daemon'.phase = daemon.phase
      BY <1>2, <1>3, <1>5, SavesDoes
    <2>2. Hearing(t)'
      BY <1>3, <2>1 DEF Hearing, At
    <2>3. QED
      BY <1>1, <1>2, <1>3, <2>1, <2>2 DEF HeardAll
  <1>6. CASE Folds(t)
    <2>1. route'[t] = Idle /\ daemon' = daemon
      BY <1>2, <1>6, FoldsDoes
    <2>2. Hearing(t)'
      BY <2>1 DEF Hearing, At, Idle
    <2>3. QED
      BY <1>1, <1>2, <1>3, <2>1, <2>2 DEF HeardAll
  <1>7. QED
    BY <1>4, <1>5, <1>6 DEF Backup

\* The restart is waited out, and the engine read again on the file it came back on.
LEMMA GoingHeard ==
    ASSUME Alone, TypeOK, HeardAll, NEW t \in Routes, Going(t), ~Backup(t), ~PostLost(t), ~WaitExpires(t)
    PROVE  HeardAll'
  <1>1. \A s \in Routes : s = t
    BY DEF Alone
  <1>2. Hearing(t)
    BY DEF HeardAll
  <1>3. CASE Post(t)
    <2>1. At(t, "post") /\ daemon' = Adopted(route[t]) /\ memory' = memory
      BY <1>3 DEF Post
    <2>2. daemon'.file = route[t].xml /\ daemon'.phase = "doomed" /\ daemon'.plays = daemon.plays
      BY <2>1, AdoptedDoes
    <2>3. route'[t].at = "wait" /\ route'[t].verb = route[t].verb /\ route'[t].xml = route[t].xml
      BY <1>3, PostDoes
    <2>4. memory.live = daemon.plays
      BY <2>1, AttentiveHears DEF At
    <2>5. Hearing(t)'
      BY <1>2, <2>1, <2>2, <2>3 DEF Hearing, At
    <2>6. QED
      BY <1>1, <2>1, <2>2, <2>3, <2>4, <2>5 DEF HeardAll, At
  <1>4. CASE BackupFails(t) \/ PostGivesUp(t) \/ ReadBackFails(t)
    <2>1. ~At(t, "wait") /\ daemon.phase = "down"
      BY <1>4 DEF BackupFails, PostGivesUp, ReadBackFails, At, Answers
    <2>2. QED
      BY <2>1, AttentiveHears
  <1>5. CASE Unmirror(t) \/ UnmirrorFails(t)
    <2>1. At(t, "unmirror") /\ route'[t] = Idle /\ memory' = memory
      BY <1>5 DEF Unmirror, UnmirrorFails, Goes, TypeOK
    <2>2. daemon'.plays = daemon.plays /\ daemon'.phase = daemon.phase
      BY <1>5, UnmirrorDoes DEF UnmirrorFails, TypeOK, DaemonType
    <2>3. daemon.phase = "serving" /\ memory.live = daemon.plays
      BY <2>1, AttentiveHears DEF At
    <2>4. Hearing(t)'
      BY <2>1 DEF Hearing, At, Idle
    <2>5. QED
      BY <1>1, <2>1, <2>2, <2>3, <2>4 DEF HeardAll
  <1>6. CASE AwaitReady(t)
    <2>1. At(t, "wait") /\ Waited(t) /\ daemon.phase = "serving" /\ UNCHANGED <<daemon, memory>>
      BY <1>6 DEF AwaitReady
    <2>2. CASE route[t].verb = "save"
      <3>1. route'[t] = Idle
        BY <2>1, <2>2, WaitedDoes
      <3>2. memory.live = daemon.plays
        BY <1>1, <2>2 DEF HeardAll, Restarting
      <3>3. Hearing(t)'
        BY <3>1 DEF Hearing, At, Idle
      <3>4. QED
        BY <1>1, <2>1, <3>2, <3>3 DEF HeardAll
    <2>3. CASE route[t].verb # "save"
      <3>1. route'[t].at = "resync" /\ route'[t].verb = route[t].verb /\ route'[t].xml = route[t].xml
        BY <2>1, <2>3, WaitedDoes
      <3>2. Hearing(t)'
        BY <1>2, <2>1, <3>1 DEF Hearing, At
      <3>3. QED
        BY <1>1, <2>1, <2>3, <3>1, <3>2 DEF HeardAll, Restarting
    <2>4. QED
      BY <2>2, <2>3
  <1>7. CASE Resync(t)
    <2>1. At(t, "resync") /\ Settles(t) /\ daemon' = daemon /\ daemon.phase = "serving"
      BY <1>2, <1>7 DEF Resync, Hearing
    <2>2. memory'.live = daemon.plays
      BY <1>7, <2>1 DEF Resync, Answers, TypeOK, MemoryType
    <2>3. /\ route'[t].at \in {"idle", "backup"}
          /\ route'[t].at = "backup" => route'[t].verb = "fold" /\ route'[t].xml = IF route[t].verb = "switch" THEN route[t].xml ELSE None
      BY <2>1, SettlesDoes
    <2>4. Hearing(t)'
      BY <1>2, <2>1, <2>3 DEF Hearing, At
    <2>5. QED
      BY <1>1, <2>1, <2>2, <2>4 DEF HeardAll
  <1>8. QED
    BY <1>3, <1>4, <1>5, <1>6, <1>7 DEF Going

\* A restart brings the engine back on the file, and a poll reads what it plays.
LEMMA AroundHeard ==
    ASSUME Alone, TypeOK, HeardAll, Around \/ UNCHANGED vars, ~Reborn, GoesDown => daemon.phase = "doomed"
    PROVE  HeardAll'
  <1>1. route' = route
    BY FlippingDoes, ImportingDoes DEF Around, SetAutosave, Poll, GoesDown, ComesUp, vars
  <1>2. CASE SetAutosave \/ Flipping \/ Importing \/ Poll \/ UNCHANGED vars
    <2>1. daemon' = daemon
      BY <1>2, FlippingDoes, ImportingDoes DEF SetAutosave, Poll, vars
    <2>2. memory'.live \in {memory.live, daemon.plays}
      <3>1. CASE Flipping \/ Importing
        BY <3>1, FlippingDoes, ImportingDoes
      <3>2. CASE SetAutosave \/ Poll \/ UNCHANGED vars
        BY <3>2 DEF SetAutosave, Poll, vars, TypeOK, MemoryType
      <3>3. QED
        BY <1>2, <3>1, <3>2
    <2>3. QED
      BY <1>1, <2>1, <2>2 DEF HeardAll, Hearing, Restarting, At
  <1>4. CASE GoesDown
    <2>1. /\ daemon.phase = "doomed" /\ daemon'.phase = "down" /\ daemon'.plays = daemon.plays
          /\ daemon'.file = daemon.file /\ memory' = memory
      BY <1>4 DEF GoesDown, TypeOK, DaemonType
    <2>2. QED
      BY <1>1, <2>1 DEF HeardAll, Hearing, Restarting, At
  <1>5. CASE ComesUp
    <2>1. /\ daemon.phase = "down" /\ daemon'.phase = "serving" /\ daemon'.plays = daemon.file.live
          /\ daemon'.file = daemon.file /\ memory' = memory
      BY <1>5 DEF ComesUp, Answers, TypeOK, DaemonType
    <2>2. PICK t \in Routes : At(t, "wait")
      BY <2>1 DEF HeardAll
    <2>3. \A s \in Routes : s = t
      BY DEF Alone
    <2>4. Hearing(t)'
      BY <1>1, <2>1, <2>2 DEF HeardAll, Hearing, At
    <2>5. memory.live = daemon.file.live \/ Restarting(t)
      BY <2>2, <2>3 DEF HeardAll, Hearing, Restarting, At
    <2>6. QED
      BY <1>1, <2>1, <2>3, <2>4, <2>5 DEF HeardAll, Restarting
  <1>6. QED
    BY <1>2, <1>4, <1>5 DEF Around

\* What is heard is known, until a restore is lost, a wait given up or something dies.
LEMMA HeardStep == ASSUME Alone, TypeOK, UndisturbedHeard, [Next]_vars PROVE UndisturbedHeard'
  <1> SUFFICES ASSUME Undisturbed' PROVE HeardAll'
    BY DEF UndisturbedHeard
  <1>1. HeardAll /\ \A t \in Routes : ~WaitExpires(t)
    BY UndisturbedSteps DEF UndisturbedHeard
  <1>2. ~Reborn /\ (GoesDown => daemon.phase = "doomed") /\ \A t \in Routes : ~PostLost(t)
    BY UndisturbedSteps
  <1>3. ASSUME NEW t \in Routes, Beginning(t) PROVE HeardAll'
    BY <1>1, <1>3, BeginningHeard
  <1>4. ASSUME NEW t \in Routes, Going(t) PROVE HeardAll'
    BY <1>1, <1>2, <1>4, BackupHeard, GoingHeard
  <1>5. CASE Around \/ UNCHANGED vars
    BY <1>1, <1>2, <1>5, AroundHeard
  <1>6. QED
    BY <1>3, <1>4, <1>5, NextIs

LEMMA HeardSafety == ASSUME Alone PROVE Spec => [](TypeOK /\ UndisturbedHeard)
  <1>1. Init => UndisturbedHeard
    <2> SUFFICES ASSUME Init PROVE HeardAll
      BY DEF UndisturbedHeard
    <2>1. daemon.phase = "serving" /\ memory.live = daemon.plays
      BY DEF Init
    <2>2. QED
      BY <2>1 DEF Init, HeardAll, Hearing, At, Idle
  <1>2. TypeOK /\ UndisturbedHeard /\ [Next]_vars => UndisturbedHeard'
    BY HeardStep
  <1>3. QED
    BY <1>1, <1>2, TypeCorrect, PTL DEF Spec

\* A preset is stored with the live setting the listener hears.
LEMMA StoresHeard ==
    ASSUME Alone, TypeOK, UndisturbedHeard, Undisturbed, NEW t \in Routes, Backup(t), route[t].verb \in {"save", "fold"}
    PROVE  /\ disk'.store[route[t].name].live = daemon.plays
           /\ route[t].verb = "fold" => disk'.store[route[t].name] = Heard(daemon.file)
  <1>1. At(t, "backup") /\ HeardAll
    BY DEF Backup, UndisturbedHeard
  <1>2. memory.live = daemon.plays /\ memory.live # None
    BY <1>1, AttentiveHears DEF At
  <1>3. disk.store \in [Names -> Archives] /\ MemoryType /\ daemon.file \in Config
    BY DEF TypeOK, DiskType, DaemonType
  <1>4. CASE Saves(t)
    <2>1. /\ route[t].name \in Names /\ disk'.store = [disk.store EXCEPT ![route[t].name] = route'[t].xml]
          /\ route'[t].xml.live = memory.live /\ route[t].verb = "save"
      BY <1>1, <1>2, <1>4, SavesDoes DEF Saves
    <2>2. QED
      BY <1>2, <1>3, <2>1
  <1>5. CASE Folds(t)
    <2>1. route[t].name \in Names /\ disk'.store = [disk.store EXCEPT ![route[t].name] = Heard(daemon.file)]
      BY <1>1, <1>5, FoldsDoes
    <2>2. Heard(daemon.file).live = memory.live
      BY <1>2, <1>3, HeardIsConfig
    <2>3. QED
      BY <1>2, <1>3, <2>1, <2>2
  <1>6. QED
    BY <1>4, <1>5 DEF Backup, BuildsLoad, BuildsApply

\* SavedIsHeard, for one request at a time: what a save or an auto-save stores of a live
\* setting is what the listener hears, however the daemon restarts in between.
THEOREM SavedAlwaysHeard == ASSUME Alone PROVE Spec => SavedIsHeard
  <1>1. TypeOK /\ UndisturbedHeard /\ [Next]_vars =>
          [\A t \in Routes : Undisturbed /\ Backup(t) /\ route[t].verb \in {"save", "fold"}
              => disk'.store[route[t].name].live = daemon.plays]_vars
    BY StoresHeard
  <1>2. QED
    BY <1>1, HeardSafety, PTL DEF Spec, SavedIsHeard

\* RideLeavesPreset, for one request at a time: the auto-save that rides a load stores
\* the preset just loaded as it was.
THEOREM RideAlwaysLeavesPreset == ASSUME Alone PROVE Spec => RideLeavesPreset
  <1>1. TypeOK /\ UndisturbedHeard /\ [Next]_vars =>
          [\A t \in Routes : Undisturbed /\ Backup(t) /\ route[t].verb = "fold" /\ route[t].xml # None
              => disk'.store[route[t].name] = route[t].xml]_vars
    <2> SUFFICES ASSUME TypeOK, UndisturbedHeard, Undisturbed, NEW t \in Routes, Backup(t),
                        route[t].verb = "fold", route[t].xml # None
                 PROVE  disk'.store[route[t].name] = route[t].xml
      OBVIOUS
    <2>1. At(t, "backup") /\ HeardAll /\ Hearing(t)
      BY DEF Backup, UndisturbedHeard, HeardAll
    <2>2. daemon.file = route[t].xml /\ daemon.plays = daemon.file.live
      BY <2>1 DEF Hearing
    <2>3. memory.live = daemon.plays
      BY <2>1, AttentiveHears DEF At
    <2>4. Heard(daemon.file) = daemon.file
      BY <2>2, <2>3 DEF Heard, TypeOK, DaemonType, Config
    <2>5. QED
      BY <2>2, <2>4, StoresHeard
  <1>2. QED
    BY <1>1, HeardSafety, PTL DEF Spec, RideLeavesPreset

-----------------------------------------------------------------------------
(* One request at a time: auto-pilot.                                        *)

\* A call leaves the switch, and what was said of it, together.
LEMMA BeginningPilot ==
    ASSUME Alone, TypeOK, PilotAll, NEW t \in Routes, Beginning(t)
    PROVE  PilotAll'
  <1>1. \A s \in Routes : s = t
    BY DEF Alone
  <1>2. disk.active \in Names \cup {None} /\ kept \in [Names -> SUBSET BOOLEAN]
    BY DEF TypeOK, DiskType
  <1>3. disk'.carried = disk.carried /\ disk'.active \in {None, disk.active}
    BY DeleteDoes, UnloadDoes, LiveWriteDoes, StandsDownDoes DEF Beginning, Load, Save, Apply
  <1>4. (kept' = kept /\ disk'.pilot = disk.pilot) \/ \E p \in BOOLEAN : kept' = Moved(disk.active, p) /\ disk'.pilot = p
    <2>1. ASSUME NEW n \in Names, Delete(t, n) PROVE kept' = kept /\ disk'.pilot = disk.pilot
      BY <2>1 DEF Delete, TypeOK, DiskType
    <2>2. ASSUME Unload(t) PROVE kept' = kept /\ disk'.pilot = disk.pilot
      BY <2>2 DEF Unload, TypeOK, DiskType
    <2>3. ASSUME StandsDown(t) PROVE kept' = Moved(disk.active, FALSE) /\ disk'.pilot = FALSE
      BY <2>3, StandsDownDoes
    <2>4. ASSUME NEW v \in Values, NEW p \in BOOLEAN, LiveWrite(t, v, p) PROVE kept' = Moved(disk.active, p) /\ disk'.pilot = p
      BY <2>4, LiveWriteDoes
    <2>5. QED
      BY <2>1, <2>2, <2>3, <2>4 DEF Beginning, Load, Save, Apply
  <1>5. ~Landing(t) /\ ~Landing(t)'
    <2>1. At(t, "idle")
      BY UnloadDoes DEF Beginning, Load, Save, Apply, LiveWrite, Delete, StandsDown
    <2>2. route'[t].at \in {"idle", "backup", "unmirror"}
      <3>1. ASSUME NEW n \in Names, NEW verb \in {"load", "switch"}, Load(t, n, verb) PROVE route'[t].at = "backup"
        BY <3>1, LoadDoes
      <3>2. ASSUME (\E n \in Names : Save(t, n)) \/ \E v \in Values : Apply(t, v) PROVE route'[t].at = "backup"
        BY <3>2, AskDoes
      <3>3. ASSUME NEW v \in Values, NEW p \in BOOLEAN, LiveWrite(t, v, p) PROVE route'[t].at \in {"idle", "backup"}
        BY <3>3, LiveWriteDoes
      <3>4. ASSUME NEW n \in Names, Delete(t, n) PROVE route'[t].at = "unmirror"
        BY <3>4, DeleteDoes
      <3>5. ASSUME Unload(t) \/ StandsDown(t) PROVE route'[t].at = "idle"
        BY <2>1, <3>5, UnloadDoes, StandsDownDoes DEF At
      <3>6. QED
        BY <3>1, <3>2, <3>3, <3>4, <3>5 DEF Beginning
    <2>3. QED
      BY <2>1, <2>2 DEF Landing, At
  <1>6. \A n \in Names : kept'[n] \subseteq kept[n]
    BY <1>2, <1>4, MovedIsKept
  <1>7. disk'.active # None => kept'[disk.active] \subseteq {disk'.pilot} /\ disk'.active = disk.active
    BY <1>1, <1>2, <1>3, <1>4, <1>5, MovedIsKept DEF PilotAll
  <1>8. QED
    BY <1>1, <1>3, <1>5, <1>6, <1>7 DEF PilotAll

\* A save records the switch, and an auto-save what was said with the preset active.
LEMMA BackupPilot ==
    ASSUME Alone, TypeOK, Existing, PilotAll, NEW t \in Routes, Backup(t)
    PROVE  PilotAll'
  <1>1. \A s \in Routes : s = t
    BY DEF Alone
  <1>2. At(t, "backup") /\ ~Landing(t)
    BY DEF Backup, Landing, At
  <1>3. /\ kept \in [Names -> SUBSET BOOLEAN] /\ disk.carried \in [Names -> BOOLEAN]
        /\ disk.active # None => kept[disk.active] \subseteq {disk.pilot}
    BY <1>1, <1>2 DEF TypeOK, DiskType, PilotAll
  <1>4. CASE BuildsLoad(t) \/ BuildsApply(t)
    <2>1. route'[t].at = "post" /\ UNCHANGED <<disk, kept>>
      BY <1>2, <1>4, BuildsLoadDoes, BuildsApplyDoes
    <2>2. QED
      BY <1>1, <1>3, <2>1 DEF PilotAll, Landing
  <1>5. CASE Saves(t)
    <2> DEFINE n == route[t].name
    <2>1. /\ n \in Names /\ disk'.active = n /\ disk'.carried = [disk.carried EXCEPT ![n] = disk.pilot] /\ disk'.pilot = disk.pilot
          /\ kept' = [kept EXCEPT ![n] = {disk.pilot}] /\ route'[t].at = "post"
      BY <1>2, <1>5, SavesDoes
    <2> HIDE DEF n
    <2>2. QED
      BY <1>1, <1>3, <2>1 DEF PilotAll, Landing
  <1>6. CASE Folds(t)
    <2> DEFINE n == route[t].name
    <2>1. /\ n \in Names /\ disk'.active = disk.active /\ disk'.carried = [disk.carried EXCEPT ![n] = disk.pilot]
          /\ kept' = [kept EXCEPT ![n] = IF @ = {} THEN {disk.pilot} ELSE @] /\ route'[t] = Idle /\ route[t].verb = "fold"
      BY <1>2, <1>6, FoldsDoes
    <2>2. disk.active = n
      BY <1>2, <2>1 DEF Existing, Present
    <2>3. disk'.pilot = disk.pilot
      BY <1>2, <1>6, FoldsDoes
    <2>4. kept'[n] \subseteq {disk.pilot}
      BY <1>3, <2>1, <2>2
    <2> HIDE DEF n
    <2>5. QED
      BY <1>1, <1>3, <2>1, <2>2, <2>3, <2>4 DEF PilotAll, Landing, Idle
  <1>7. QED
    BY <1>4, <1>5, <1>6 DEF Backup

\* A load ends with the switch where its preset carries it.
LEMMA GoingPilot ==
    ASSUME Alone, TypeOK, HeardAll, PilotAll, NEW t \in Routes, Going(t), ~Backup(t), ~PostLost(t), ~WaitExpires(t)
    PROVE  PilotAll'
  <1>1. \A s \in Routes : s = t
    BY DEF Alone
  <1>2. Hearing(t)
    BY DEF HeardAll
  <1>3. CASE Post(t)
    <2>1. /\ disk'.carried = disk.carried /\ kept' = kept /\ At(t, "post")
          /\ disk'.active = IF route[t].verb \in {"load", "switch"} THEN route[t].name ELSE disk.active
          /\ route'[t].at = "wait" /\ route'[t].verb = route[t].verb /\ route'[t].name = route[t].name
      BY <1>3, PostDoes DEF Post
    <2>2. route[t].verb \notin {"load", "switch"} => disk'.pilot = disk.pilot
      BY <1>3 DEF Post
    <2>3. ~Landing(t)
      BY <2>1 DEF Landing, At
    <2>4. QED
      BY <1>1, <2>1, <2>2, <2>3 DEF PilotAll, Landing
  <1>4. CASE BackupFails(t) \/ PostGivesUp(t) \/ Unmirror(t) \/ UnmirrorFails(t)
    <2>1. UNCHANGED <<disk, kept>> /\ route'[t] = Idle /\ ~Landing(t)
      BY <1>4 DEF BackupFails, PostGivesUp, Unmirror, UnmirrorFails, Goes, TypeOK, At, Landing
    <2>2. QED
      BY <1>1, <2>1 DEF PilotAll, Landing, Idle
  <1>5. CASE ReadBackFails(t)
    <2>1. QED
      BY <1>2, <1>5 DEF ReadBackFails, Hearing, Answers
  <1>6. CASE AwaitReady(t)
    <2>1. At(t, "wait") /\ Waited(t) /\ UNCHANGED <<disk, kept>>
      BY <1>6 DEF AwaitReady
    <2>2. CASE route[t].verb = "save"
      <3>1. route'[t] = Idle
        BY <2>1, <2>2, WaitedDoes
      <3>2. QED
        BY <1>1, <2>1, <2>2, <3>1 DEF PilotAll, Landing, Idle
    <2>3. CASE route[t].verb # "save"
      <3>1. route'[t].at = "resync" /\ route'[t].verb = route[t].verb /\ route'[t].name = route[t].name
        BY <2>1, <2>3, WaitedDoes
      <3>2. QED
        BY <1>1, <2>1, <3>1 DEF PilotAll, Landing, At
    <2>4. QED
      BY <2>2, <2>3
  <1>7. CASE Resync(t)
    <2>1. At(t, "resync") /\ Settles(t) /\ kept' = kept
      BY <1>7 DEF Resync
    <2>2. /\ disk'.active = disk.active /\ disk'.carried = disk.carried /\ route[t].verb \in {"load", "switch", "apply"}
          /\ disk'.pilot = IF route[t].verb = "apply" THEN disk.pilot ELSE disk.carried[route[t].name]
          /\ route'[t].at \in {"idle", "backup"}
      BY <2>1, SettlesDoes
    <2>3. CASE route[t].verb = "apply"
      BY <1>1, <2>1, <2>2, <2>3 DEF PilotAll, Landing
    <2>4. CASE route[t].verb # "apply"
      <3>1. disk.active = route[t].name /\ route[t].name \in Names
        BY <2>1, <2>2, <2>4 DEF PilotAll, Landing, At, TypeOK, Equipped
      <3>2. QED
        BY <1>1, <2>1, <2>2, <2>4, <3>1 DEF PilotAll, Landing
    <2>5. QED
      BY <2>3, <2>4
  <1>8. QED
    BY <1>3, <1>4, <1>5, <1>6, <1>7 DEF Going

\* A flip is recorded or takes the word back; an import that points says nothing.
LEMMA AroundPilot ==
    ASSUME TypeOK, PilotAll, Around \/ UNCHANGED vars, ~Reborn
    PROVE  PilotAll'
  <1>1. route' = route
    BY FlippingDoes, ImportingDoes DEF Around, SetAutosave, Poll, GoesDown, ComesUp, vars
  <1>2. /\ kept \in [Names -> SUBSET BOOLEAN] /\ disk.carried \in [Names -> BOOLEAN] /\ disk.active \in Names \cup {None}
        /\ disk.pilot \in BOOLEAN
    BY DEF TypeOK, DiskType
  <1>3. CASE Flipping
    <2>1. disk'.active = disk.active
      BY <1>3, FlippingDoes
    <2>2. CASE disk'.carried = disk.carried /\ \E p \in BOOLEAN : disk'.pilot = p /\ kept' = Moved(disk.active, p)
      <3>1. /\ \A n \in Names : kept'[n] \subseteq kept[n]
            /\ disk.active # None => kept'[disk.active] \subseteq {disk'.pilot}
        BY <1>2, <2>2, MovedIsKept
      <3>2. QED
        BY <1>1, <2>1, <2>2, <3>1 DEF PilotAll, Landing
    <2>3. CASE disk'.pilot = disk.pilot /\ disk'.carried = disk.carried /\ kept' = kept
      BY <1>1, <2>1, <2>3 DEF PilotAll, Landing
    <2>4. CASE /\ disk'.pilot = disk.pilot /\ disk.active # None
               /\ disk'.carried = [disk.carried EXCEPT ![disk.active] = disk.pilot]
               /\ kept' = [kept EXCEPT ![disk.active] = {disk.pilot}]
      BY <1>1, <1>2, <2>1, <2>4 DEF PilotAll, Landing
    <2>5. QED
      BY <1>3, <2>2, <2>3, <2>4, FlippingDoes
  <1>4. CASE Migrate
    <2>1. /\ disk'.carried = disk.carried /\ disk'.pilot = disk.pilot
          /\ disk'.active = disk.active => kept' = kept
          /\ disk'.active # disk.active => /\ disk.active = None /\ disk'.active = memory.hint /\ memory.hint \in Names
                                           /\ kept' = Moved(memory.hint, disk.pilot)
      BY <1>4, MigrateLeaves
    <2>2. CASE disk'.active = disk.active
      BY <1>1, <2>1, <2>2 DEF PilotAll, Landing
    <2>3. CASE disk'.active # disk.active
      <3>1. \A n \in Names : kept'[n] \subseteq kept[n]
        BY <1>2, <2>1, <2>3, MovedIsKept
      <3>2. kept'[disk'.active] \subseteq {disk'.pilot}
        BY <1>2, <2>1, <2>3, MovedIsKept
      <3>3. \A s \in Routes : ~Landing(s)
        <4>1. \A s \in Routes : Landing(s) => route[s].name \in Names
          BY DEF TypeOK, Equipped, Landing
        <4>2. QED
          BY <2>1, <2>3, <4>1 DEF PilotAll
      <3>4. QED
        BY <1>1, <2>1, <3>1, <3>2, <3>3 DEF PilotAll, Landing
    <2>4. QED
      BY <2>2, <2>3
  <1>5. CASE SetAutosave \/ Poll \/ (Importing /\ ~Migrate) \/ GoesDown \/ ComesUp \/ UNCHANGED vars
    <2>1. disk'.active = disk.active /\ disk'.carried = disk.carried /\ disk'.pilot = disk.pilot /\ kept' = kept
      <3>1. CASE SetAutosave
        BY <3>1 DEF SetAutosave, TypeOK, DiskType
      <3>2. CASE Importing /\ ~Migrate
        BY <3>2, ImportingDoes
      <3>3. QED
        BY <1>5, <3>1, <3>2 DEF Poll, GoesDown, ComesUp, vars
    <2>2. QED
      BY <1>1, <2>1 DEF PilotAll, Landing
  <1>6. QED
    BY <1>3, <1>4, <1>5 DEF Around

LEMMA PilotStep ==
    ASSUME Alone, TypeOK, Existing, UndisturbedHeard, UndisturbedPilot, [Next]_vars
    PROVE  UndisturbedPilot'
  <1> SUFFICES ASSUME Undisturbed' PROVE PilotAll'
    BY DEF UndisturbedPilot
  <1>1. /\ HeardAll /\ PilotAll /\ ~Reborn
        /\ \A t \in Routes : ~PostLost(t) /\ ~WaitExpires(t)
    BY UndisturbedSteps DEF UndisturbedHeard, UndisturbedPilot
  <1>2. ASSUME NEW t \in Routes, Beginning(t) PROVE PilotAll'
    BY <1>1, <1>2, BeginningPilot
  <1>3. ASSUME NEW t \in Routes, Going(t) PROVE PilotAll'
    BY <1>1, <1>3, BackupPilot, GoingPilot
  <1>4. CASE Around \/ UNCHANGED vars
    BY <1>1, <1>4, AroundPilot
  <1>5. QED
    BY <1>2, <1>3, <1>4, NextIs

LEMMA PilotSafety == ASSUME Alone PROVE Spec => [](TypeOK /\ UndisturbedPilot)
  <1>1. Init => UndisturbedPilot
    BY DEF Init, UndisturbedPilot, PilotAll, Landing, Idle
  <1>2. TypeOK /\ Existing /\ UndisturbedHeard /\ UndisturbedPilot /\ [Next]_vars => UndisturbedPilot'
    BY PilotStep
  <1>3. QED
    BY <1>1, <1>2, ExistingSafety, HeardSafety, PTL DEF Spec

\* PilotComesBack, for one request at a time beside any number of flips of the switch: a
\* load brings auto-pilot back to where the user was told it stands with that preset.
THEOREM PilotAlwaysComesBack == ASSUME Alone PROVE Spec => PilotComesBack
  <1>1. TypeOK /\ UndisturbedPilot /\ [Next]_vars =>
          [\A t \in Routes : Undisturbed /\ Resync(t) /\ route[t].verb \in {"load", "switch"}
              => kept[route[t].name] \subseteq {disk'.pilot}]_vars
    <2> SUFFICES ASSUME TypeOK, PilotAll, NEW t \in Routes, Resync(t), route[t].verb \in {"load", "switch"}
                 PROVE  kept[route[t].name] \subseteq {disk'.pilot}
      BY DEF UndisturbedPilot
    <2>1. At(t, "resync") /\ Settles(t) /\ route[t].name \in Names
      BY DEF Resync, TypeOK, Equipped, At
    <2>2. disk'.pilot = disk.carried[route[t].name]
      BY <2>1, SettlesDoes
    <2>3. QED
      BY <2>1, <2>2 DEF PilotAll
  <1>2. QED
    BY <1>1, PilotSafety, PTL DEF Spec, PilotComesBack
=============================================================================
