---------------------------- MODULE LiveLaneProofs ----------------------------
(* Proofs about the live lane for any writers, modes, lists, batches and        *)
(* enumerations, and any number of steps of the environment.                    *)
EXTENDS LiveLane, SequenceTheorems, TLAPS

-----------------------------------------------------------------------------
(* The types.                                                               *)

\* What a batch names: a control's value, a preset's, or one of a snapshot.
Fields == Edits \cup (UNION Presets) \cup {<<f, id>> : f \in Routable, id \in IDs}
             \cup {<<"mode", m>> : m \in Modes} \cup {<<"junk_filter", j>> : j \in Junk}

Settings == {"mode", "filter", "junk_filter"}
Ops == [setting : {"mode"}, value : Modes] \cup [setting : {"filter"}, value : Pairs]
          \cup [setting : {"junk_filter"}, value : Junk]

\* Where a task awaits a request, and where it has none in flight.
Queued == {"set", "check", "refresh", "lists", "reread", "fetch", "state", "status"}
Apart == {"idle", "reload", "away"}
Purposes == {"batch", "chain", "heartbeat", "probe", "resync"}

Records ==
    [at : Queued \cup Apart, for : Purposes, edits : Seq(Ops), tried : SUBSET Settings, done : SUBSET Settings,
     named : SUBSET Fields, held : SUBSET Fields, rest : SUBSET Fields, left : Int, list : Chains \cup {None},
     seen : States \cup {None}, moved : BOOLEAN, snap : SUBSET Fields, landed : SUBSET Settings]

\* A setter is there to be sent or read back, and what is held belongs to a chain.
Formed(rec) ==
    /\ rec.at \in {"set", "check"} => rec.edits # <<>>
    /\ \A p \in rec.held : p[1] \in Routable
Formeds == {rec \in Records : Formed(rec)}

Memories == [Chains -> [Routable -> IDs \cup {None}]]
Views == [state : States \cup {None}, rate : Chains \cup {None}, lists : Chains, memory : Memories]

Types ==
    /\ engine \in States /\ up \in BOOLEAN /\ autopilot \in BOOLEAN
    /\ byHand \in Junk \cup Writers \cup {None}
    /\ readings \in Views
    /\ queue \in Seq(Tasks)
    /\ task \in [Tasks -> Formeds]
    /\ spent \in [Bounded -> Nat] /\ \A k \in Bounded : spent[k] <= Budget[k]

LEMMA RoutableFields ==
    /\ Routable = {"filter", "filter1x", "oversampling", "oversampling1x"}
    /\ \A f \in Routable : ROUTABLE[f].chain \in Chains /\ ROUTABLE[f].arg \in Arguments
  BY DEF Routable, ROUTABLE, Chains, Arguments

LEMMA FieldIsNamed ==
    \A p \in Fields : p = <<p[1], p[2]>> /\ p[1] \in FieldNames /\ (p[1] \in Routable => p[2] \in IDs)
<1> SUFFICES ASSUME NEW p \in Fields
             PROVE  p = <<p[1], p[2]>> /\ p[1] \in FieldNames /\ (p[1] \in Routable => p[2] \in IDs)
  OBVIOUS
<1>1. CASE p \in Edits \cup UNION Presets
  BY <1>1, EditsAssumption
<1>2. CASE p \in {<<f, id>> : f \in Routable, id \in IDs}
  BY <1>2 DEF FieldNames
<1>3. CASE p \in {<<"mode", m>> : m \in Modes}
  BY <1>3, RoutableFields DEF FieldNames
<1>4. CASE p \in {<<"junk_filter", j>> : j \in Junk}
  BY <1>4, RoutableFields DEF FieldNames
<1> QED BY <1>1, <1>2, <1>3, <1>4 DEF Fields

\* What a reading names is such a field.
LEMMA NamedIsField ==
    /\ \A f \in Routable, id \in IDs : <<f, id>> \in Fields
    /\ \A m \in Modes : <<"mode", m>> \in Fields
    /\ \A j \in Junk : <<"junk_filter", j>> \in Fields
  BY DEF Fields

LEMMA SettingOfField == \A p \in Fields : Setting(p[1]) \in Settings
  BY FieldIsNamed DEF Setting, FieldNames, Settings

LEMMA NotNone == /\ \A x \in IDs \cup Chains : x # None
                 /\ \A x \in Junk \cup Writers \cup States : x # None
  BY NoneAssumption

LEMMA ListedIDs ==
    \A c \in Chains, i \in Indices : Lists[c][i] \in IDs
  BY DEF IDs, Indices

LEMMA LoadedChain == \A e \in States : Loaded(e) \in Chains
  BY ModesAssumption DEF States, Loaded

LEMMA BootedState == \A c \in Chains : Booted(c) \in States
  BY ModesAssumption, JunkAssumption DEF Booted, States, Pairs, Arguments, Indices

LEMMA RateFamilyChain == \A e \in States : RateFamily(e) \in Chains \cup {None}
  BY LoadedChain DEF RateFamily

LEMMA ActiveChainType == \A r \in Views : ActiveChain(r) \in Chains \cup {None}
  BY DEF ActiveChain, Views, States

LEMMA IdleFormed == Idle \in Formeds
  BY DEF Idle, Formeds, Formed, Records, Queued, Apart, Purposes

LEMMA OpTypes ==
    \A op \in Ops : /\ op.setting \in Settings
                    /\ op.setting = "mode" => op.value \in Modes
                    /\ op.setting = "filter" => op.value \in Pairs
                    /\ op.setting = "junk_filter" => op.value \in Junk
  BY DEF Ops, Settings

-----------------------------------------------------------------------------
(* Resolving.                                                               *)

LEMMA IndexOfListed ==
    ASSUME NEW r \in Views, NEW id
    PROVE  /\ IndexOf(r, id) \in Indices \cup {0}
           /\ IndexOf(r, id) # 0 => Lists[r.lists][IndexOf(r, id)] = id
  BY DEF IndexOf, Indices

LEMMA PairTyped ==
    ASSUME NEW r \in Views, NEW fs \in SUBSET Fields, Resolves(r, fs), \E p \in fs : p[1] \in Routable
    PROVE  FilterPair(r, fs) \in Pairs
<1>1. \A a \in Arguments : HalfNamed(a, fs) =>
        IndexOf(r, (CHOOSE p \in fs : p[1] \in Routable /\ ROUTABLE[p[1]].arg = a)[2]) \in Indices
  <2> SUFFICES ASSUME NEW a \in Arguments, HalfNamed(a, fs)
               PROVE  IndexOf(r, (CHOOSE p \in fs : p[1] \in Routable /\ ROUTABLE[p[1]].arg = a)[2]) \in Indices
    OBVIOUS
  <2> DEFINE q == CHOOSE p \in fs : p[1] \in Routable /\ ROUTABLE[p[1]].arg = a
  <2>1. q \in fs /\ q[1] \in Routable
    BY DEF HalfNamed
  <2> HIDE DEF q
  <2>2. IndexOf(r, q[2]) # 0
    BY <2>1, RoutableFields DEF Resolves
  <2> QED BY <2>2, IndexOfListed DEF q
<1>2. \A a \in Arguments : ~HalfNamed(a, fs) => r.state.filter[a] \in Indices
  BY DEF Resolves, Views, States, Pairs
<1> QED BY <1>1, <1>2 DEF FilterPair, Pairs

LEMMA SettersTyped ==
    ASSUME NEW r \in Views, NEW fs \in SUBSET Fields, Resolves(r, fs)
    PROVE  /\ Setters(r, fs) \in Seq(Ops)
           /\ fs # {} => Setters(r, fs) # <<>>
<1> DEFINE one(s, v) == <<[setting |-> s, value |-> v]>>
           alone(s) == IF \E p \in fs : p[1] = s THEN one(s, (CHOOSE p \in fs : p[1] = s)[2]) ELSE <<>>
           pair == IF \E p \in fs : p[1] \in Routable THEN one("filter", FilterPair(r, fs)) ELSE <<>>
<1>1. alone("mode") \in Seq(Ops) /\ ((\E p \in fs : p[1] = "mode") => Len(alone("mode")) = 1)
  <2>1. CASE \E p \in fs : p[1] = "mode"
    <3> DEFINE q == CHOOSE p \in fs : p[1] = "mode"
    <3>1. q \in fs /\ q[1] = "mode"
      BY <2>1
    <3> HIDE DEF q
    <3>2. q[2] \in Modes
      BY <3>1, RoutableFields DEF Resolves
    <3>3. [setting |-> "mode", value |-> q[2]] \in Ops
      BY <3>2 DEF Ops
    <3> DEFINE o == [setting |-> "mode", value |-> q[2]]
    <3>4. alone("mode") = <<o>>
      BY <2>1 DEF q
    <3> HIDE DEF alone, o
    <3>5. <<o>> \in Seq(Ops) /\ Len(<<o>>) = 1
      BY <3>3 DEF o
    <3> QED BY <3>4, <3>5
  <2>2. CASE ~\E p \in fs : p[1] = "mode"
    BY <2>2
  <2> QED BY <2>1, <2>2
<1>2. alone("junk_filter") \in Seq(Ops) /\ ((\E p \in fs : p[1] = "junk_filter") => Len(alone("junk_filter")) = 1)
  <2>1. CASE \E p \in fs : p[1] = "junk_filter"
    <3> DEFINE q == CHOOSE p \in fs : p[1] = "junk_filter"
    <3>1. q \in fs /\ q[1] = "junk_filter"
      BY <2>1
    <3> HIDE DEF q
    <3>2. q[2] \in Junk
      BY <3>1, RoutableFields DEF Resolves
    <3>3. [setting |-> "junk_filter", value |-> q[2]] \in Ops
      BY <3>2 DEF Ops
    <3> DEFINE o == [setting |-> "junk_filter", value |-> q[2]]
    <3>4. alone("junk_filter") = <<o>>
      BY <2>1 DEF q
    <3> HIDE DEF alone, o
    <3>5. <<o>> \in Seq(Ops) /\ Len(<<o>>) = 1
      BY <3>3 DEF o
    <3> QED BY <3>4, <3>5
  <2>2. CASE ~\E p \in fs : p[1] = "junk_filter"
    BY <2>2
  <2> QED BY <2>1, <2>2
<1>3. pair \in Seq(Ops) /\ ((\E p \in fs : p[1] \in Routable) => Len(pair) = 1)
  <2>1. CASE \E p \in fs : p[1] \in Routable
    <3>1. FilterPair(r, fs) \in Pairs
      BY <2>1, PairTyped
    <3>2. [setting |-> "filter", value |-> FilterPair(r, fs)] \in Ops
      BY <3>1 DEF Ops
    <3> QED BY <2>1, <3>2
  <2>2. CASE ~\E p \in fs : p[1] \in Routable
    BY <2>2
  <2> QED BY <2>1, <2>2
<1>4. Setters(r, fs) = alone("mode") \o pair \o alone("junk_filter")
  BY DEF Setters
<1>5. fs # {} => Len(alone("mode")) = 1 \/ Len(pair) = 1 \/ Len(alone("junk_filter")) = 1
  BY <1>1, <1>2, <1>3, FieldIsNamed DEF FieldNames
<1> HIDE DEF alone, pair
<1>6. Setters(r, fs) \in Seq(Ops) /\ Len(Setters(r, fs)) = Len(alone("mode")) + Len(pair) + Len(alone("junk_filter"))
  BY <1>1, <1>2, <1>3, <1>4
<1>7. fs # {} => Len(Setters(r, fs)) # 0
  BY <1>1, <1>2, <1>3, <1>5, <1>6
<1> QED BY <1>6, <1>7

LEMMA StartedTyped ==
    ASSUME NEW r \in Views, NEW rec \in Records, NEW fs \in SUBSET Fields, NEW more \in SUBSET Fields
    PROVE  Started(r, rec, fs, more) \in Formeds /\ Started(r, rec, fs, more).at \in {"idle", "set", "refresh"}
<1> DEFINE out == {p \in fs : OffChain(r, p)}
           live == fs \ out
           res == [Idle EXCEPT !.at = IF live = {} THEN "refresh" ELSE "set", !.edits = Setters(r, live),
                          !.named = live, !.held = out, !.rest = more,
                          !.snap = rec.snap, !.landed = rec.landed]
<1>1. CASE ~Resolves(r, live)
  BY <1>1, IdleFormed DEF Started, Idle
<1>2. CASE Resolves(r, live)
  <2>1. Started(r, rec, fs, more) = res
    BY <1>2 DEF Started
  <2>2. Setters(r, live) \in Seq(Ops) /\ (live # {} => Setters(r, live) # <<>>)
    BY <1>2, SettersTyped
  <2>3. live \in SUBSET Fields /\ out \in SUBSET Fields /\ \A p \in out : p[1] \in Routable
    BY DEF OffChain
  <2>4. rec.snap \in SUBSET Fields /\ rec.landed \in SUBSET Settings
    BY DEF Records
  <2> HIDE DEF live, out
  <2> DEFINE ss == Setters(r, live)
  <2>8. ss \in Seq(Ops) /\ (live # {} => ss # <<>>)
    BY <2>2 DEF ss
  <2> DEFINE at == IF live = {} THEN "refresh" ELSE "set"
             snap == rec.snap
             landed == rec.landed
  <2>9. res = [at |-> at, for |-> "batch", edits |-> ss, tried |-> {}, done |-> {}, named |-> live, held |-> out,
               rest |-> more, left |-> 0, list |-> None, seen |-> None, moved |-> FALSE, snap |-> snap, landed |-> landed]
    <3>1. res = [Idle EXCEPT !.at = at, !.edits = ss, !.named = live, !.held = out, !.rest = more, !.snap = snap,
                             !.landed = landed]
      BY DEF ss
    <3> HIDE DEF ss, res, at, snap, landed
    <3> QED BY <3>1 DEF Idle
  <2>10. at \in {"set", "refresh"} /\ snap \in SUBSET Fields /\ landed \in SUBSET Settings /\ (at = "set" => live # {})
    BY <2>4
  <2> HIDE DEF ss, res, at, snap, landed
  <2>5. res.at \in {"set", "refresh"} /\ res.edits = ss /\ res.held = out /\ (res.at = "set" => live # {})
    BY <2>9, <2>10
  <2>6. res \in Records
    BY <2>3, <2>8, <2>9, <2>10 DEF Records, Queued, Apart, Purposes
  <2>7. Formed(res)
    BY <2>3, <2>5, <2>8 DEF Formed
  <2> QED BY <2>1, <2>5, <2>6, <2>7 DEF Formeds, res
<1> QED BY <1>1, <1>2

LEMMA RoutedTyped ==
    ASSUME NEW r \in Views, NEW rec \in Records, NEW fs \in SUBSET Fields
    PROVE  Routed(r, rec, fs) \in Formeds /\ Routed(r, rec, fs).at \in {"idle", "set", "refresh"}
<1> DEFINE mode == {p \in fs : p[1] = "mode"}
<1>1. mode \in SUBSET Fields /\ fs \ mode \in SUBSET Fields /\ {} \in SUBSET Fields
  OBVIOUS
<1>2. Routed(r, rec, fs) \in {Started(r, rec, fs, {}), Started(r, rec, fs \ mode, {}), Started(r, rec, mode, fs \ mode)}
  BY DEF Routed
<1> HIDE DEF mode
<1> QED BY <1>1, <1>2, StartedTyped

-----------------------------------------------------------------------------
(* Readings and memory.                                                     *)

LEMMA ViewParts ==
    \A r \in Views : /\ r.state \in States \cup {None} /\ r.rate \in Chains \cup {None} /\ r.lists \in Chains
                     /\ r.memory \in Memories
                     /\ \A s \in States \cup {None} : [r EXCEPT !.state = s] \in Views
                     /\ \A c \in Chains : [r EXCEPT !.lists = c] \in Views
                     /\ \A m \in Memories : [r EXCEPT !.memory = m] \in Views
  BY DEF Views

LEMMA HeldFields ==
    ASSUME NEW r \in Views, NEW c \in Chains \cup {None}
    PROVE  Held(r, c) \in SUBSET Fields /\ \A p \in Held(r, c) : p[1] \in Routable
<1>1. CASE c = None
  BY <1>1 DEF Held
<1>2. CASE c # None
  <2>1. \A f \in Routable : r.memory[c][f] # None => <<f, r.memory[c][f]>> \in Fields
    BY <1>2, NamedIsField DEF Views, Memories
  <2> QED BY <1>2, <2>1 DEF Held
<1> QED BY <1>1, <1>2

LEMMA CarriedFields ==
    ASSUME NEW r \in Views, NEW c \in Chains \cup {None}
    PROVE  Carried(r, c) \in SUBSET Fields /\ \A p \in Carried(r, c) : p[1] \in Routable
  BY HeldFields DEF Carried

LEMMA DroppedTyped ==
    ASSUME NEW r \in Views, NEW c \in Chains \cup {None}
    PROVE  Dropped(r, c) \in Views
<1>1. CASE c = None
  BY <1>1 DEF Dropped
<1>2. CASE c # None
  <2> DEFINE m == [f \in Routable |-> IF IndexOf(r, r.memory[c][f]) # 0 THEN r.memory[c][f] ELSE None]
  <2>1. m \in [Routable -> IDs \cup {None}]
    BY <1>2 DEF Views, Memories
  <2>2. Dropped(r, c) = [r EXCEPT !.memory = [@ EXCEPT ![c] = m]]
    BY <1>2 DEF Dropped, Views, Memories
  <2> HIDE DEF m
  <2>3. [r.memory EXCEPT ![c] = m] \in Memories
    BY <1>2, <2>1, ViewParts DEF Memories
  <2> QED BY <2>2, <2>3, ViewParts
<1> QED BY <1>1, <1>2

LEMMA RememberTyped ==
    ASSUME NEW r \in Views, NEW c \in Chains, NEW ps \in SUBSET Fields
    PROVE  Remember(r, c, ps) \in Views
<1> DEFINE m == [f \in Routable |-> IF \E p \in ps : p[1] = f THEN (CHOOSE p \in ps : p[1] = f)[2] ELSE r.memory[c][f]]
<1>1. m \in [Routable -> IDs \cup {None}]
  <2> SUFFICES ASSUME NEW f \in Routable PROVE m[f] \in IDs \cup {None}
    OBVIOUS
  <2>1. CASE \E p \in ps : p[1] = f
    BY <2>1, FieldIsNamed
  <2>2. CASE ~\E p \in ps : p[1] = f
    BY <2>2 DEF Views, Memories
  <2> QED BY <2>1, <2>2
<1>2. Remember(r, c, ps) = [r EXCEPT !.memory = [@ EXCEPT ![c] = m]]
  BY DEF Remember, Views, Memories
<1> HIDE DEF m
<1>3. [r.memory EXCEPT ![c] = m] \in Memories
  BY <1>1, ViewParts DEF Memories
<1> QED BY <1>2, <1>3, ViewParts

LEMMA RecordedTyped ==
    ASSUME NEW r \in Views, NEW rec \in Formeds
    PROVE  Recorded(r, rec) \in Views
<1> DEFINE pcm == {p \in rec.held : ROUTABLE[p[1]].chain = "pcm"}
           sdm == {p \in rec.held : ROUTABLE[p[1]].chain = "sdm"}
           applied == {p \in Applied(rec) : p[1] \in Routable}
           kept == Remember(Remember(r, "pcm", pcm), "sdm", sdm)
<1>1. pcm \in SUBSET Fields /\ sdm \in SUBSET Fields /\ applied \in SUBSET Fields
  BY DEF Formeds, Records, Applied
<1> HIDE DEF pcm, sdm, applied
<1>2. kept \in Views
  BY <1>1, RememberTyped DEF Chains
<1>3. ActiveChain(r) \in Chains \cup {None}
  BY ActiveChainType
<1>4. Recorded(r, rec) = IF ActiveChain(r) = None THEN kept ELSE Remember(kept, ActiveChain(r), applied)
  BY DEF Recorded, pcm, sdm, applied
<1> HIDE DEF kept
<1> QED BY <1>1, <1>2, <1>3, <1>4, RememberTyped

LEMMA SnapshotFields == \A r \in Views : Snapshot(r) \in SUBSET Fields
<1> SUFFICES ASSUME NEW r \in Views, r.state # None, ActiveChain(r) # None
             PROVE  Snapshot(r) \in SUBSET Fields
  BY DEF Snapshot
<1>1. <<"mode", r.state.mode>> \in Fields /\ <<"junk_filter", r.state.junk_filter>> \in Fields
  BY NamedIsField DEF Views, States
<1>2. \A f \in FieldsOf(ActiveChain(r)) : <<f, Lists[r.lists][r.state.filter[ROUTABLE[f].arg]]>> \in Fields
  <2> SUFFICES ASSUME NEW f \in FieldsOf(ActiveChain(r))
               PROVE  <<f, Lists[r.lists][r.state.filter[ROUTABLE[f].arg]]>> \in Fields
    OBVIOUS
  <2>1. f \in Routable /\ ROUTABLE[f].arg \in Arguments
    BY RoutableFields DEF FieldsOf
  <2>2. r.lists \in Chains /\ r.state.filter[ROUTABLE[f].arg] \in Indices
    BY <2>1 DEF Views, States, Pairs
  <2> QED BY <2>1, <2>2, ListedIDs, NamedIsField
<1> QED BY <1>1, <1>2 DEF Snapshot

LEMMA RecordParts ==
    \A rec \in Formeds :
        /\ rec.at \in Queued \cup Apart /\ rec.for \in Purposes /\ rec.edits \in Seq(Ops) /\ rec.tried \in SUBSET Settings
        /\ rec.done \in SUBSET Settings /\ rec.named \in SUBSET Fields /\ rec.held \in SUBSET Fields
        /\ rec.rest \in SUBSET Fields /\ rec.left \in Int /\ rec.list \in Chains \cup {None}
        /\ rec.seen \in States \cup {None} /\ rec.moved \in BOOLEAN /\ rec.snap \in SUBSET Fields
        /\ rec.landed \in SUBSET Settings /\ Formed(rec) /\ rec \in Records
  BY DEF Formeds, Records

LEMMA ReassertingTyped ==
    ASSUME NEW r \in Views, NEW rec \in Formeds
    PROVE  /\ Reasserting(r, rec) \in Formeds /\ Reasserting(r, rec).at \in {"set", "reread"}
           /\ Reasserting(r, rec).held = rec.held /\ Reasserting(r, rec).named = rec.named
<1> DEFINE ps == Carried(r, ActiveChain(r))
           edits == IF Resolves(r, ps) THEN Setters(r, ps) ELSE <<>>
           at == IF ps # {} /\ Resolves(r, ps) THEN "set" ELSE "reread"
<1>1. ps \in SUBSET Fields
  BY ActiveChainType, CarriedFields
<1>2. Reasserting(r, rec) = [rec EXCEPT !.for = "chain", !.edits = edits, !.at = at]
  BY DEF Reasserting
<1> HIDE DEF ps
<1>3. edits \in Seq(Ops) /\ (at = "set" => edits # <<>>) /\ at \in {"set", "reread"}
  BY <1>1, SettersTyped
<1> HIDE DEF edits, at
<1>4. Reasserting(r, rec) \in Records
  BY <1>2, <1>3 DEF Formeds, Records, Queued, Apart, Purposes
<1>5. /\ Reasserting(r, rec).at = at /\ Reasserting(r, rec).edits = edits /\ Reasserting(r, rec).held = rec.held
      /\ Reasserting(r, rec).named = rec.named
  BY <1>2 DEF Formeds, Records
<1>6. Formed(Reasserting(r, rec))
  BY <1>3, <1>5, RecordParts DEF Formed
<1> QED BY <1>3, <1>4, <1>5, <1>6 DEF Formeds

-----------------------------------------------------------------------------
(* What a request served does to the queue and the tasks.                   *)

\* Nobody waits twice, and those wait who have a request to send.
Lined ==
    /\ \A i, j \in 1..Len(queue) : queue[i] = queue[j] => i = j
    /\ \A t \in Tasks : task[t].at \in Queued <=> \E i \in 1..Len(queue) : queue[i] = t

LEMMA ServedHead ==
    ASSUME NEW t, Served(t), queue \in Seq(Tasks)
    PROVE  /\ queue # <<>> /\ Len(queue) \in Nat \ {0} /\ queue[1] = t /\ t \in Tasks
           /\ Tail(queue) \in Seq(Tasks) /\ Len(Tail(queue)) = Len(queue) - 1
           /\ \A i \in 1..(Len(queue) - 1) : Tail(queue)[i] = queue[i + 1]
  BY DEF Served

\* A task that goes on leaves the head, and stands at the end or not at all; the others
\* move up.
LEMMA GoesLined ==
    ASSUME Types, Lined, NEW t, Served(t), NEW rec \in Formeds, rec.at \in Queued \cup {"idle"}, Goes(t, rec)
    PROVE  /\ task' \in [Tasks -> Formeds] /\ queue' \in Seq(Tasks) /\ Lined'
           /\ task' = [task EXCEPT ![t] = rec]
<1>1. /\ queue \in Seq(Tasks) /\ task \in [Tasks -> Formeds]
  BY DEF Types
<1>2. /\ Len(queue) \in Nat \ {0} /\ queue[1] = t /\ t \in Tasks
      /\ Tail(queue) \in Seq(Tasks) /\ Len(Tail(queue)) = Len(queue) - 1
      /\ \A i \in 1..(Len(queue) - 1) : Tail(queue)[i] = queue[i + 1]
  BY <1>1, ServedHead
<1> DEFINE q == Tail(queue)
           n == Len(q)
<1>3. /\ n \in Nat /\ q \in Seq(Tasks) /\ \A i \in 1..n : q[i] # t
      /\ \A i, j \in 1..n : q[i] = q[j] => i = j
      /\ \A u \in Tasks \ {t} : (\E i \in 1..n : q[i] = u) <=> (\E i \in 1..Len(queue) : queue[i] = u)
  <2>1. n \in Nat /\ q \in Seq(Tasks) /\ Len(queue) = n + 1 /\ \A i \in 1..n : q[i] = queue[i + 1] /\ i + 1 \in 1..Len(queue)
    BY <1>2
  <2>2. \A i \in 1..n : q[i] # t
    <3> SUFFICES ASSUME NEW i \in 1..n, q[i] = t PROVE FALSE
      OBVIOUS
    <3>1. queue[i + 1] = queue[1] /\ i + 1 \in 1..Len(queue) /\ 1 \in 1..Len(queue)
      BY <1>2, <2>1
    <3>2. i + 1 = 1
      BY <3>1 DEF Lined
    <3> QED BY <3>2
  <2>3. \A i, j \in 1..n : q[i] = q[j] => i = j
    <3> SUFFICES ASSUME NEW i \in 1..n, NEW j \in 1..n, q[i] = q[j] PROVE i = j
      OBVIOUS
    <3>1. queue[i + 1] = queue[j + 1] /\ i + 1 \in 1..Len(queue) /\ j + 1 \in 1..Len(queue)
      BY <2>1
    <3>2. i + 1 = j + 1
      BY <3>1 DEF Lined
    <3> QED BY <3>2
  <2>4. ASSUME NEW u \in Tasks \ {t}, NEW i \in 1..Len(queue), queue[i] = u
        PROVE  \E k \in 1..n : q[k] = u
    <3>1. i # 1 /\ i - 1 \in 1..n /\ (i - 1) + 1 = i
      BY <1>2, <2>1, <2>4
    <3>2. q[i - 1] = queue[(i - 1) + 1]
      BY <2>1, <3>1
    <3> QED BY <2>4, <3>1, <3>2
  <2> QED BY <2>1, <2>2, <2>3, <2>4
<1>4. /\ task' = [task EXCEPT ![t] = rec] /\ task' \in [Tasks -> Formeds]
      /\ \A u \in Tasks \ {t} : task'[u] = task[u]
      /\ task'[t] = rec
  BY <1>1, <1>2 DEF Goes
<1> HIDE DEF q, n
<1>5. CASE rec.at = "idle"
  <2>1. queue' = q
    BY <1>5 DEF Goes, q
  <2>2. \A i, j \in 1..Len(queue') : queue'[i] = queue'[j] => i = j
    BY <1>3, <2>1 DEF n
  <2>3. ASSUME NEW u \in Tasks
        PROVE  task'[u].at \in Queued <=> \E i \in 1..Len(queue') : queue'[i] = u
    <3>1. CASE u = t
      BY <1>3, <1>4, <1>5, <2>1, <3>1 DEF n, Queued
    <3>2. CASE u # t
      BY <1>3, <1>4, <2>1, <3>2 DEF n, Lined
    <3> QED BY <3>1, <3>2
  <2> QED BY <1>3, <1>4, <2>1, <2>2, <2>3 DEF Lined
<1>6. CASE rec.at # "idle"
  <2>1. queue' = Append(q, t)
    BY <1>6 DEF Goes, q
  <2>2. /\ queue' \in Seq(Tasks) /\ Len(queue') = n + 1 /\ queue'[n + 1] = t
        /\ \A i \in 1..n : queue'[i] = q[i]
    BY <1>2, <1>3, <2>1 DEF n
  <2>3. ASSUME NEW i \in 1..Len(queue'), NEW j \in 1..Len(queue'), queue'[i] = queue'[j]
        PROVE  i = j
    <3>1. (i \in 1..n \/ i = n + 1) /\ (j \in 1..n \/ j = n + 1)
      BY <1>3, <2>2
    <3> QED BY <1>3, <2>2, <2>3, <3>1
  <2>4. ASSUME NEW u \in Tasks
        PROVE  task'[u].at \in Queued <=> \E i \in 1..Len(queue') : queue'[i] = u
    <3>1. CASE u = t
      <4>1. n + 1 \in 1..Len(queue')
        BY <1>3, <2>2
      <4> QED BY <1>4, <1>6, <2>2, <3>1, <4>1
    <3>2. CASE u # t
      <4>1. \A i \in 1..Len(queue') : i \in 1..n \/ i = n + 1
        BY <1>3, <2>2
      <4>2. \A i \in 1..n : i \in 1..Len(queue')
        BY <1>3, <2>2
      <4>3. (\E i \in 1..Len(queue') : queue'[i] = u) <=> (\E i \in 1..n : q[i] = u)
        BY <2>2, <3>2, <4>1, <4>2
      <4> QED BY <1>3, <1>4, <3>2, <4>3 DEF Lined
    <3> QED BY <3>1, <3>2
  <2> QED BY <1>4, <2>2, <2>3, <2>4 DEF Lined
<1> QED BY <1>4, <1>5, <1>6

\* A task that takes its place stands at the end.
LEMMA JoinsLined ==
    ASSUME Types, Lined, NEW t \in Tasks, task[t].at \in Apart, NEW rec \in Formeds, rec.at \in Queued,
           task' = [task EXCEPT ![t] = rec], queue' = Append(queue, t)
    PROVE  task' \in [Tasks -> Formeds] /\ queue' \in Seq(Tasks) /\ Lined'
<1> DEFINE n == Len(queue)
<1>1. /\ queue \in Seq(Tasks) /\ task \in [Tasks -> Formeds] /\ n \in Nat
  BY DEF Types
<1>2. /\ queue' \in Seq(Tasks) /\ Len(queue') = n + 1 /\ queue'[n + 1] = t
      /\ \A i \in 1..n : queue'[i] = queue[i]
  BY <1>1
<1>3. \A i \in 1..n : queue[i] # t
  BY DEF Lined, Apart, Queued
<1>4. /\ task' \in [Tasks -> Formeds] /\ task'[t] = rec /\ \A u \in Tasks \ {t} : task'[u] = task[u]
  BY <1>1
<1>5. (\A i \in 1..Len(queue') : i \in 1..n \/ i = n + 1) /\ (\A i \in 1..n : i \in 1..Len(queue'))
      /\ n + 1 \in 1..Len(queue')
  BY <1>1, <1>2
<1>6. \A i, j \in 1..n : queue[i] = queue[j] => i = j
  BY DEF Lined
<1>7. \A u \in Tasks : task[u].at \in Queued <=> \E i \in 1..n : queue[i] = u
  BY DEF Lined
<1> HIDE DEF n
<1>8. \A i, j \in 1..Len(queue') : queue'[i] = queue'[j] => i = j
  BY <1>2, <1>3, <1>5, <1>6
<1>9. \A u \in Tasks : task'[u].at \in Queued <=> \E i \in 1..Len(queue') : queue'[i] = u
  BY <1>2, <1>4, <1>5, <1>7
<1> QED BY <1>2, <1>4, <1>8, <1>9 DEF Lined

-----------------------------------------------------------------------------
(* Every action of a request goes on to a well-formed record.               *)

LEMMA TookTyped ==
    ASSUME NEW e \in States, NEW op \in Ops
    PROVE  /\ Took(e, op) \in States
           /\ op.setting # "junk_filter" => Took(e, op).junk_filter = e.junk_filter
           /\ op.setting = "junk_filter" => Took(e, op).junk_filter = op.value
<1> DEFINE f == [e EXCEPT ![op.setting] = op.value]
<1>1. /\ f \in States
      /\ op.setting # "junk_filter" => f.junk_filter = e.junk_filter
      /\ op.setting = "junk_filter" => f.junk_filter = op.value
  <2>1. CASE op.setting = "mode"
    <3>1. f = [e EXCEPT !.mode = op.value] /\ op.value \in Modes
      BY <2>1, OpTypes
    <3> QED BY <2>1, <3>1 DEF States
  <2>2. CASE op.setting = "filter"
    <3>1. f = [e EXCEPT !.filter = op.value] /\ op.value \in Pairs
      BY <2>2, OpTypes
    <3> QED BY <2>2, <3>1 DEF States
  <2>3. CASE op.setting = "junk_filter"
    <3>1. f = [e EXCEPT !.junk_filter = op.value] /\ op.value \in Junk
      BY <2>3, OpTypes
    <3> QED BY <2>3, <3>1 DEF States
  <2> QED BY <2>1, <2>2, <2>3, OpTypes DEF Settings
<1>2. Took(e, op) \in {f, [f EXCEPT !.filter = Booted(e.source).filter]}
  BY DEF Took
<1> HIDE DEF f
<1>3. Booted(e.source).filter \in Pairs
  BY DEF Booted, Pairs, Arguments, Indices
<1>4. [f EXCEPT !.filter = Booted(e.source).filter] \in States
      /\ [f EXCEPT !.filter = Booted(e.source).filter].junk_filter = f.junk_filter
  BY <1>1, <1>3 DEF States
<1> QED BY <1>1, <1>2, <1>4

\* What a step of a task on the connection leaves behind: `rec`.
Steps(t, rec) == rec \in Formeds /\ rec.at \in Queued \cup {"idle"} /\ Goes(t, rec)

LEMMA TaskFormed == \A t \in Tasks : Types => task[t] \in Formeds
  BY DEF Types

LEMMA FirstOp ==
    ASSUME NEW rec \in Formeds, rec.at \in {"set", "check"}
    PROVE  Head(rec.edits) \in Ops /\ Tail(rec.edits) \in Seq(Ops)
  BY RecordParts DEF Formed

\* The request goes on: to its next place, with nothing else changed.
LEMMA PlacedFormed ==
    ASSUME NEW rec \in Formeds, NEW at \in {"check", "refresh", "reread", "status"}, at = "check" => rec.edits # <<>>
    PROVE  [rec EXCEPT !.at = at] \in Formeds
<1> DEFINE s == [rec EXCEPT !.at = at]
<1>1. s \in Records
  BY DEF Formeds, Records, Queued, Apart
<1>2. s.at = at /\ s.edits = rec.edits /\ s.held = rec.held
  BY DEF Formeds, Records
<1>3. Formed(s)
  BY <1>2, RecordParts DEF Formed
<1> QED BY <1>1, <1>3 DEF Formeds

LEMMA SetSteps ==
    ASSUME Types, NEW t \in Tasks, At(t, "set"), Goes(t, [task[t] EXCEPT !.at = "check"])
    PROVE  Steps(t, [task[t] EXCEPT !.at = "check"])
<1>1. task[t] \in Formeds /\ task[t].edits # <<>>
  BY TaskFormed, RecordParts DEF At, Formed
<1>2. [task[t] EXCEPT !.at = "check"] \in Formeds /\ [task[t] EXCEPT !.at = "check"].at = "check"
  BY <1>1, PlacedFormed DEF Formeds, Records
<1> QED BY <1>2 DEF Steps, Queued

LEMMA ListingFormed == \A rec \in Formeds : Listing(rec) \in Formeds /\ Listing(rec).at = "lists"
<1> SUFFICES ASSUME NEW rec \in Formeds PROVE Listing(rec) \in Formeds /\ Listing(rec).at = "lists"
  OBVIOUS
<1>4. ListReads \in Int
  BY ReadsAssumption
<1>1. Listing(rec) \in Records
  BY <1>4 DEF Formeds, Records, Queued, Apart, Listing
<1>2. Listing(rec).at = "lists" /\ Listing(rec).held = rec.held
  BY DEF Formeds, Records, Listing
<1>3. Formed(Listing(rec))
  BY <1>2, RecordParts DEF Formed
<1> QED BY <1>1, <1>2, <1>3 DEF Formeds

LEMMA CheckSteps ==
    ASSUME Types, NEW t \in Tasks, Check(t)
    PROVE  \E rec : Steps(t, rec)
<1>1. task[t] \in Formeds /\ At(t, "check") /\ engine \in States
  BY TaskFormed DEF Check, Types
<1> DEFINE op == Head(task[t].edits)
           rest == Tail(task[t].edits)
           at == IF rest = <<>> THEN Sent(task[t]) ELSE "set"
           tried == task[t].tried \cup {op.setting}
           done == task[t].done \cup (IF engine[op.setting] = op.value THEN {op.setting} ELSE {})
           rec == [task[t] EXCEPT !.at = at, !.edits = rest, !.tried = tried, !.done = done]
<1>2. op \in Ops /\ rest \in Seq(Ops)
  BY <1>1, FirstOp DEF At
<1>3. Goes(t, rec)
  BY DEF Check
<1>4. at \in {"set", "refresh", "reread"} /\ (at = "set" => rest # <<>>)
  BY DEF Sent
<1>5. tried \in SUBSET Settings /\ done \in SUBSET Settings
  BY <1>1, <1>2, OpTypes, RecordParts
<1> HIDE DEF op, at, rest, tried, done
<1>6. rec \in Records /\ rec.at = at /\ rec.edits = rest /\ rec.held = task[t].held
  BY <1>1, <1>2, <1>4, <1>5 DEF Formeds, Records, Queued, Apart
<1>7. Formed(rec)
  BY <1>1, <1>4, <1>6, RecordParts DEF Formed
<1> QED BY <1>3, <1>4, <1>6, <1>7 DEF Steps, Formeds, Queued

LEMMA EndsSteps ==
    ASSUME NEW t, NEW r \in Views, NEW rec \in Formeds, Ends(t, r, rec)
    PROVE  \E s : Steps(t, s)
<1> DEFINE more == Started(r, [rec EXCEPT !.landed = @ \cup rec.done], rec.rest, {})
<1>1. [rec EXCEPT !.landed = @ \cup rec.done] \in Records
  BY DEF Formeds, Records
<1>2. rec.rest \in SUBSET Fields /\ {} \in SUBSET Fields
  BY RecordParts
<1>3. more \in Formeds /\ more.at \in {"idle", "set", "refresh"}
  BY <1>1, <1>2, StartedTyped
<1>4. Goes(t, more) \/ Goes(t, Idle)
  BY DEF Ends
<1> HIDE DEF more
<1>5. Idle \in Formeds /\ Idle.at = "idle"
  BY IdleFormed DEF Idle
<1> QED BY <1>3, <1>4, <1>5 DEF Steps, Queued

LEMMA BookkeepsSteps ==
    ASSUME NEW t, NEW r \in Views, NEW rec \in Formeds, Bookkeeps(t, r, rec)
    PROVE  readings' \in Views /\ \E s : Steps(t, s)
<1> DEFINE kept == Recorded(r, rec)
<1>1. kept \in Views
  BY RecordedTyped
<1>2. CASE "mode" \in rec.done
  <2>1. readings' = Dropped(kept, ActiveChain(kept)) /\ Goes(t, Reasserting(kept, rec))
    BY <1>2 DEF Bookkeeps
  <2> HIDE DEF kept
  <2>2. Dropped(kept, ActiveChain(kept)) \in Views
    BY <1>1, ActiveChainType, DroppedTyped
  <2>3. Reasserting(kept, rec) \in Formeds /\ Reasserting(kept, rec).at \in {"set", "reread"}
    BY <1>1, ReassertingTyped
  <2>4. Steps(t, Reasserting(kept, rec))
    BY <2>1, <2>3 DEF Steps, Queued
  <2> QED BY <2>1, <2>2, <2>4
<1>3. CASE "mode" \notin rec.done
  <2>1. readings' = kept /\ Ends(t, kept, rec)
    BY <1>3 DEF Bookkeeps
  <2> HIDE DEF kept
  <2> QED BY <1>1, <2>1, EndsSteps
<1> QED BY <1>2, <1>3

LEMMA EntersSteps ==
    ASSUME NEW t, NEW r \in Views, NEW rec \in Formeds, Enters(t, r, rec)
    PROVE  readings' \in Views /\ \E s : Steps(t, s)
<1>1. readings' \in Views
  BY ActiveChainType, DroppedTyped DEF Enters
<1>2. Reasserting(r, rec) \in Formeds /\ Idle \in Formeds /\ Idle.at = "idle"
  BY ReassertingTyped, IdleFormed DEF Idle
<1>3. \/ Goes(t, Reasserting(r, rec)) /\ Reasserting(r, rec).at = "set"
      \/ Goes(t, Idle)
  BY DEF Enters
<1> QED BY <1>1, <1>2, <1>3 DEF Steps, Queued

LEMMA ReplaysSteps ==
    ASSUME NEW t, NEW r \in Views, NEW rec \in Formeds, Replays(t, r, rec)
    PROVE  readings' \in Views /\ \E s : Steps(t, s)
<1> DEFINE moved == rec.snap \ Snapshot(r)
           next == Routed(r, [rec EXCEPT !.snap = moved], moved)
<1>1. moved \in SUBSET Fields
  BY RecordParts
<1>2. readings' = r /\ (Goes(t, next) \/ Goes(t, Idle))
  BY DEF Replays
<1> HIDE DEF moved
<1>3. [rec EXCEPT !.snap = moved] \in Records
  BY <1>1 DEF Formeds, Records
<1>4. next \in Formeds /\ next.at \in {"idle", "set", "refresh"}
  BY <1>1, <1>3, RoutedTyped
<1> HIDE DEF next
<1> QED BY <1>2, <1>4, IdleFormed DEF Steps, Queued, Idle

LEMMA RefreshSteps ==
    ASSUME Types, NEW t \in Tasks, Refresh(t)
    PROVE  readings' \in Views /\ \E s : Steps(t, s)
<1> DEFINE r == [readings EXCEPT !.state = engine]
<1>1. r \in Views /\ task[t] \in Formeds
  BY ViewParts, TaskFormed DEF Types
<1>2. \/ readings' = r /\ Goes(t, Listing(task[t]))
      \/ Bookkeeps(t, r, task[t])
  BY DEF Refresh
<1> HIDE DEF r
<1>3. Listing(task[t]) \in Formeds /\ Listing(task[t]).at = "lists"
  BY <1>1, ListingFormed
<1>4. Goes(t, Listing(task[t])) => Steps(t, Listing(task[t]))
  BY <1>3 DEF Steps, Queued
<1> QED BY <1>1, <1>2, <1>4, BookkeepsSteps

LEMMA RereadSteps ==
    ASSUME Types, NEW t \in Tasks, Reread(t)
    PROVE  readings' \in Views /\ \E s : Steps(t, s)
<1>1. readings' \in Views /\ task[t] \in Formeds /\ Ends(t, readings', task[t])
  BY ViewParts, TaskFormed DEF Types, Reread
<1> QED BY <1>1, EndsSteps

LEMMA ListsReadSteps ==
    ASSUME Types, NEW t \in Tasks, ListsRead(t)
    PROVE  readings' \in Views /\ \E s : Steps(t, s)
<1> DEFINE list == IF task[t].list = None THEN Loaded(engine) ELSE task[t].list
           rec == [task[t] EXCEPT !.left = @ - 1, !.list = list]
           r == [readings EXCEPT !.lists = list]
           over == [rec EXCEPT !.list = None]
<1>1. task[t] \in Formeds /\ task[t].at = "lists" /\ task[t].left \in Int /\ readings \in Views
  BY TaskFormed, RecordParts DEF Types, ListsRead, At, Formed
<1>2. list \in Chains
  BY <1>1, LoadedChain, RecordParts DEF Types
<1> DEFINE left == task[t].left - 1
<1>9. left \in Int
  BY <1>1
<1>10. rec = [task[t] EXCEPT !.left = left, !.list = list]
  BY <1>1 DEF Formeds, Records
<1> HIDE DEF list, rec, left
<1>3. /\ rec \in Records /\ rec.at = "lists" /\ rec.left = left /\ rec.held = task[t].held
      /\ rec.edits = task[t].edits /\ rec.for = task[t].for /\ rec.seen = task[t].seen
  BY <1>1, <1>2, <1>9, <1>10 DEF Formeds, Records
<1>4. rec \in Formeds
  BY <1>1, <1>3, <1>9, RecordParts DEF Formeds, Formed
<1>5. r \in Views
  BY <1>1, <1>2, ViewParts
<1> DEFINE status == [over EXCEPT !.at = "status"]
<1>6. /\ over \in Formeds /\ status \in Formeds /\ status.at = "status" /\ over.seen \in States \cup {None}
      /\ over.for \in Purposes
  <2>1. over \in Records /\ over.at = "lists" /\ over.held = rec.held
    BY <1>3 DEF Records
  <2>2. over \in Formeds
    BY <1>4, <2>1, RecordParts DEF Formeds, Formed
  <2> HIDE DEF over
  <2>3. status \in Formeds
    BY <2>2, PlacedFormed
  <2> QED BY <2>2, <2>3, RecordParts DEF Formeds, Records
<1> HIDE DEF over, status
<1>7. CASE rec.left > 0
  <2>1. Goes(t, rec) /\ readings' = readings
    BY <1>7 DEF ListsRead, list, rec
  <2>2. Steps(t, rec)
    BY <1>3, <1>4, <1>7, <2>1 DEF Steps, Queued
  <2> QED BY <1>1, <2>1, <2>2
<1>8. CASE ~(rec.left > 0)
  <2>1. /\ over.for = "batch" => Bookkeeps(t, r, over)
        /\ over.for = "heartbeat" => readings' = r /\ Goes(t, status)
        /\ over.for = "chain" => Enters(t, r, over)
        /\ over.for = "probe" => Replays(t, r, over)
        /\ over.for = "resync" => readings' = [r EXCEPT !.state = over.seen] /\ Goes(t, Idle)
    BY <1>8 DEF ListsRead, list, rec, over, status
  <2>2. CASE over.for = "batch"
    BY <1>5, <1>6, <2>1, <2>2, BookkeepsSteps
  <2>3. CASE over.for = "heartbeat"
    BY <1>5, <1>6, <2>1, <2>3 DEF Steps, Queued, status
  <2>4. CASE over.for = "chain"
    BY <1>5, <1>6, <2>1, <2>4, EntersSteps
  <2>5. CASE over.for = "probe"
    BY <1>5, <1>6, <2>1, <2>5, ReplaysSteps
  <2>6. CASE over.for = "resync"
    <3>1. readings' \in Views
      BY <1>5, <1>6, <2>1, <2>6, ViewParts
    <3>2. Steps(t, Idle)
      BY <2>1, <2>6, IdleFormed DEF Steps, Idle
    <3> QED BY <3>1, <3>2
  <2> QED BY <1>6, <2>2, <2>3, <2>4, <2>5, <2>6 DEF Purposes
<1> QED BY <1>7, <1>8

LEMMA FetchSteps ==
    ASSUME Types, NEW t \in Tasks, Fetch(t)
    PROVE  readings' \in Views /\ \E s : Steps(t, s)
<1> DEFINE seen == IF task[t].for = "probe" THEN None ELSE engine
           rec == [task[t] EXCEPT !.seen = seen]
<1>1. task[t] \in Formeds /\ readings \in Views /\ seen \in States \cup {None}
  BY TaskFormed DEF Types
<1>2. readings' \in Views
  BY <1>1, ViewParts DEF Fetch, Types
<1> HIDE DEF seen
<1>3. rec \in Formeds
  <2>1. rec \in Records /\ rec.at = task[t].at /\ rec.edits = task[t].edits /\ rec.held = task[t].held
    BY <1>1 DEF Formeds, Records
  <2> QED BY <1>1, <2>1, RecordParts DEF Formeds, Formed
<1>4. Goes(t, Listing(rec))
  BY DEF Fetch, seen
<1> HIDE DEF rec
<1>5. Steps(t, Listing(rec))
  BY <1>3, <1>4, ListingFormed DEF Steps, Queued
<1> QED BY <1>2, <1>5

LEMMA StateReadSteps ==
    ASSUME Types, StateRead
    PROVE  \E s : Steps("poll", s)
<1> DEFINE moved == readings.state # None /\ Differs(task["poll"].seen, engine)
           rec == [task["poll"] EXCEPT !.seen = engine, !.moved = moved]
<1>1. task["poll"] \in Formeds /\ engine \in States /\ moved \in BOOLEAN
  BY TaskFormed DEF Types, Tasks
<1>2. Goes("poll", IF moved THEN Listing(rec) ELSE [rec EXCEPT !.at = "status"])
  BY DEF StateRead
<1> HIDE DEF moved
<1>3. rec \in Formeds
  <2>1. rec \in Records /\ rec.at = task["poll"].at /\ rec.edits = task["poll"].edits /\ rec.held = task["poll"].held
    BY <1>1 DEF Formeds, Records
  <2> QED BY <1>1, <2>1, RecordParts DEF Formeds, Formed
<1> HIDE DEF rec
<1>4. Listing(rec) \in Formeds /\ Listing(rec).at = "lists"
  BY <1>3, ListingFormed
<1>5. [rec EXCEPT !.at = "status"] \in Formeds /\ [rec EXCEPT !.at = "status"].at = "status"
  BY <1>3, PlacedFormed DEF Formeds, Records
<1>6. CASE moved
  BY <1>2, <1>4, <1>6 DEF Steps, Queued
<1>7. CASE ~moved
  BY <1>2, <1>5, <1>7 DEF Steps, Queued
<1> QED BY <1>6, <1>7

LEMMA StatusReadSteps ==
    ASSUME Types, StatusRead
    PROVE  readings' \in Views /\ \E s : Steps("poll", s)
<1> DEFINE rec == [task["poll"] EXCEPT !.for = "chain"]
           r == [readings EXCEPT !.state = rec.seen, !.rate = RateFamily(engine)]
<1>1. task["poll"] \in Formeds /\ readings \in Views /\ engine \in States
  BY TaskFormed DEF Types, Tasks
<1>2. rec \in Formeds
  <2>1. rec \in Records /\ rec.at = task["poll"].at /\ rec.edits = task["poll"].edits /\ rec.held = task["poll"].held
    BY <1>1 DEF Formeds, Records, Purposes
  <2> QED BY <1>1, <2>1, RecordParts DEF Formeds, Formed
<1>3. r \in Views
  <2>1. rec.seen \in States \cup {None} /\ RateFamily(engine) \in Chains \cup {None}
    BY <1>1, <1>2, RecordParts, RateFamilyChain
  <2> HIDE DEF rec
  <2> QED BY <1>1, <2>1 DEF Views
<1>4. \/ readings' = r /\ Goes("poll", Idle)
      \/ Enters("poll", r, rec)
      \/ readings' = r /\ Goes("poll", Listing(rec))
  BY DEF StatusRead
<1> HIDE DEF rec, r
<1>5. Goes("poll", Idle) => Steps("poll", Idle)
  BY IdleFormed DEF Steps, Idle
<1>6. Goes("poll", Listing(rec)) => Steps("poll", Listing(rec))
  BY <1>2, ListingFormed DEF Steps, Queued
<1> QED BY <1>2, <1>3, <1>4, <1>5, <1>6, EntersSteps

-----------------------------------------------------------------------------
(* Types and the queue are kept by every step.                              *)

Sound == Types /\ Lined

LEMMA StepsSound ==
    ASSUME Sound, NEW t, Served(t), NEW rec, Steps(t, rec)
    PROVE  task' \in [Tasks -> Formeds] /\ queue' \in Seq(Tasks) /\ Lined' /\ task' = [task EXCEPT ![t] = rec]
  BY GoesLined DEF Sound, Steps

LEMMA SpendTyped ==
    ASSUME Types, NEW k \in Bounded, Spend(k)
    PROVE  spent' \in [Bounded -> Nat] /\ \A j \in Bounded : spent'[j] <= Budget[j]
<1>1. spent \in [Bounded -> Nat] /\ \A j \in Bounded : spent[j] <= Budget[j]
  BY DEF Types
<1>2. Budget[k] \in Nat /\ spent[k] < Budget[k]
  BY BoundsAssumption DEF Budget, Bounded, Spend
<1>3. spent' = [spent EXCEPT ![k] = @ + 1]
  BY DEF Spend
<1> QED BY <1>1, <1>2, <1>3

\* What a step of the environment leaves of the tasks: all but the writer a rescan or
\* its end concerns stay where they are.
LEMMA CutSound ==
    ASSUME Types, NEW tasks \in [Tasks -> Formeds], Cut(tasks)
    PROVE  /\ task' \in [Tasks -> Formeds] /\ queue' = <<>> /\ Lined' /\ up' = FALSE
           /\ \A t \in Tasks : task'[t].at \in Apart
<1>1. task' = [t \in Tasks |-> GivenUp(tasks[t])] /\ queue' = <<>> /\ up' = FALSE
  BY DEF Cut
<1>2. ASSUME NEW t \in Tasks
      PROVE  GivenUp(tasks[t]) \in Formeds /\ GivenUp(tasks[t]).at \in Apart
  <2> DEFINE rec == tasks[t]
             at == IF rec.at = "reload" THEN rec.at ELSE "away"
  <2>1. rec \in Formeds
    OBVIOUS
  <2>2. GivenUp(rec) \in {Idle, [rec EXCEPT !.at = at, !.list = None]}
    BY <2>1 DEF GivenUp, Formeds, Records
  <2> HIDE DEF rec
  <2>3. at \in {"reload", "away"}
    OBVIOUS
  <2> HIDE DEF at
  <2>4. /\ [rec EXCEPT !.at = at, !.list = None] \in Records
        /\ [rec EXCEPT !.at = at, !.list = None].at = at
        /\ [rec EXCEPT !.at = at, !.list = None].held = rec.held
    BY <2>1, <2>3 DEF Formeds, Records, Apart
  <2>5. Formed([rec EXCEPT !.at = at, !.list = None])
    BY <2>1, <2>3, <2>4, RecordParts DEF Formed
  <2>6. Idle \in Formeds /\ Idle.at = "idle"
    BY IdleFormed DEF Idle
  <2> QED BY <2>2, <2>3, <2>4, <2>5, <2>6 DEF Formeds, Apart, rec
<1>3. task' \in [Tasks -> Formeds] /\ \A t \in Tasks : task'[t].at \in Apart
  BY <1>1, <1>2
<1>4. Lined'
  BY <1>1, <1>3 DEF Lined, Apart, Queued
<1> QED BY <1>1, <1>3, <1>4

\* A task that moves from one place apart to another leaves the queue as it is.
LEMMA ApartLined ==
    ASSUME Types, Lined, NEW t \in Tasks, task[t].at \in Apart, NEW rec \in Formeds, rec.at \in Apart,
           task' = [task EXCEPT ![t] = rec], queue' = queue
    PROVE  task' \in [Tasks -> Formeds] /\ Lined'
<1>1. task' \in [Tasks -> Formeds] /\ task'[t] = rec /\ \A u \in Tasks \ {t} : task'[u] = task[u]
  BY DEF Types
<1>2. \A u \in Tasks : task'[u].at \in Queued <=> task[u].at \in Queued
  BY <1>1 DEF Apart, Queued
<1> QED BY <1>1, <1>2 DEF Lined

\* The parts of Types a step of a task may leave to others.
Rest == /\ engine \in States /\ up \in BOOLEAN /\ autopilot \in BOOLEAN
        /\ byHand \in Junk \cup Writers \cup {None} /\ readings \in Views
        /\ spent \in [Bounded -> Nat] /\ \A k \in Bounded : spent[k] <= Budget[k]
Places == queue \in Seq(Tasks) /\ task \in [Tasks -> Formeds] /\ Lined

LEMMA ServedSound ==
    ASSUME Sound, NEW t, Served(t), NEW rec, Steps(t, rec)
    PROVE  Places'
  BY StepsSound DEF Places

LEMMA SetHand ==
    ASSUME Types, NEW t \in Tasks, Set(t)
    PROVE  byHand' \in Junk \cup Writers \cup {None} /\ engine' \in States
<1> DEFINE op == Head(task[t].edits)
<1>1. task[t] \in Formeds /\ task[t].at = "set" /\ engine \in States /\ byHand \in Junk \cup Writers \cup {None}
  BY TaskFormed DEF Types, Set, At
<1>2. op \in Ops
  BY <1>1, FirstOp
<1>3. engine' = Took(engine, op)
  BY DEF Set
<1>4. byHand' \in {byHand, None} \/ (op.setting = "junk_filter" /\ byHand' = op.value)
  BY DEF Set
<1> HIDE DEF op
<1> QED BY <1>1, <1>2, <1>3, <1>4, TookTyped, OpTypes

LEMMA ServingSound ==
    ASSUME Sound, NEW t \in Tasks, Serving(t) \/ Ignored(t)
    PROVE  Sound'
<1>0. Types
  BY DEF Sound
<1>1. CASE Set(t)
  <2>1. Steps(t, [task[t] EXCEPT !.at = "check"]) /\ Served(t)
    BY <1>0, <1>1, SetSteps DEF Set
  <2>2. Places'
    BY <2>1, ServedSound
  <2>3. Rest'
    BY <1>0, <1>1, SetHand DEF Set, Rest, Types
  <2> QED BY <2>2, <2>3 DEF Sound, Types, Rest, Places
<1>2. CASE Check(t)
  <2>1. Served(t) /\ \E rec : Steps(t, rec)
    BY <1>0, <1>2, CheckSteps DEF Check
  <2>2. Places'
    BY <2>1, ServedSound
  <2>3. Rest'
    BY <1>0, <1>2 DEF Check, Rest, Types
  <2> QED BY <2>2, <2>3 DEF Sound, Types, Rest, Places
<1>3. CASE Refresh(t)
  <2>1. Served(t) /\ readings' \in Views /\ \E rec : Steps(t, rec)
    BY <1>0, <1>3, RefreshSteps DEF Refresh
  <2>2. Places'
    BY <2>1, ServedSound
  <2>3. Rest'
    BY <1>0, <1>3, <2>1 DEF Refresh, Rest, Types
  <2> QED BY <2>2, <2>3 DEF Sound, Types, Rest, Places
<1>4. CASE Reread(t)
  <2>1. Served(t) /\ readings' \in Views /\ \E rec : Steps(t, rec)
    BY <1>0, <1>4, RereadSteps DEF Reread
  <2>2. Places'
    BY <2>1, ServedSound
  <2>3. Rest'
    BY <1>0, <1>4, <2>1 DEF Reread, Rest, Types
  <2> QED BY <2>2, <2>3 DEF Sound, Types, Rest, Places
<1>5. CASE ListsRead(t)
  <2>1. Served(t) /\ readings' \in Views /\ \E rec : Steps(t, rec)
    BY <1>0, <1>5, ListsReadSteps DEF ListsRead
  <2>2. Places'
    BY <2>1, ServedSound
  <2>3. Rest'
    BY <1>0, <1>5, <2>1 DEF ListsRead, Rest, Types
  <2> QED BY <2>2, <2>3 DEF Sound, Types, Rest, Places
<1>6. CASE Fetch(t)
  <2>1. Served(t) /\ readings' \in Views /\ \E rec : Steps(t, rec)
    BY <1>0, <1>6, FetchSteps DEF Fetch
  <2>2. Places'
    BY <2>1, ServedSound
  <2>3. Rest'
    BY <1>0, <1>6, <2>1 DEF Fetch, Rest, Types
  <2> QED BY <2>2, <2>3 DEF Sound, Types, Rest, Places
<1>7. CASE Ignored(t)
  <2>1. Steps(t, [task[t] EXCEPT !.at = "check"]) /\ Served(t)
    BY <1>0, <1>7, SetSteps DEF Ignored
  <2>2. Places'
    BY <2>1, ServedSound
  <2>3. spent' \in [Bounded -> Nat] /\ \A k \in Bounded : spent'[k] <= Budget[k]
    BY <1>0, <1>7, SpendTyped DEF Ignored, Bounded
  <2>4. Rest'
    BY <1>0, <1>7, <2>3 DEF Ignored, Rest, Types
  <2> QED BY <2>2, <2>4 DEF Sound, Types, Rest, Places
<1> QED BY <1>1, <1>2, <1>3, <1>4, <1>5, <1>6, <1>7 DEF Serving

LEMMA PollSound ==
    ASSUME Sound, StateRead \/ StatusRead
    PROVE  Sound'
<1>0. Types
  BY DEF Sound
<1>1. CASE StateRead
  <2>1. Served("poll") /\ \E rec : Steps("poll", rec)
    BY <1>0, <1>1, StateReadSteps DEF StateRead
  <2>2. Places'
    BY <2>1, ServedSound
  <2>3. Rest'
    BY <1>0, <1>1 DEF StateRead, Rest, Types
  <2> QED BY <2>2, <2>3 DEF Sound, Types, Rest, Places
<1>2. CASE StatusRead
  <2>1. Served("poll") /\ readings' \in Views /\ \E rec : Steps("poll", rec)
    BY <1>0, <1>2, StatusReadSteps DEF StatusRead
  <2>2. Places'
    BY <2>1, ServedSound
  <2>3. Rest'
    BY <1>0, <1>2, <2>1 DEF StatusRead, Rest, Types
  <2> QED BY <2>2, <2>3 DEF Sound, Types, Rest, Places
<1> QED BY <1>1, <1>2

-----------------------------------------------------------------------------
(* What starts a task.                                                      *)

\* What is set going from an idle task is well formed and waits for the lock.
Starts(t, rec) == rec \in Formeds /\ rec.at \in Queued /\ Joins(t, rec)

LEMMA StartsSound ==
    ASSUME Sound, NEW t \in Tasks, NEW rec, Starts(t, rec)
    PROVE  Places'
  BY JoinsLined DEF Sound, Starts, Joins, At, Apart, Places

LEMMA EditIsField == (\A p \in Edits : {p} \in SUBSET Fields) /\ (\A fs \in Presets : fs \in SUBSET Fields)
  BY DEF Fields

LEMMA WriteStarts ==
    ASSUME Types, NEW t \in Tasks, NEW fs \in SUBSET Fields, Joins(t, Started(readings, Idle, fs, {}))
    PROVE  Starts(t, Started(readings, Idle, fs, {}))
<1>1. readings \in Views /\ Idle \in Records /\ {} \in SUBSET Fields
  BY IdleFormed DEF Types, Formeds
<1>2. Started(readings, Idle, fs, {}) \in Formeds /\ Started(readings, Idle, fs, {}).at \in {"idle", "set", "refresh"}
  BY <1>1, StartedTyped
<1> QED BY <1>2 DEF Starts, Joins, Queued

LEMMA PresetStarts ==
    ASSUME Types, NEW t \in Tasks, NEW fs \in SUBSET Fields, Joins(t, Routed(readings, Idle, fs))
    PROVE  Starts(t, Routed(readings, Idle, fs))
<1>1. readings \in Views /\ Idle \in Records
  BY IdleFormed DEF Types, Formeds
<1>2. Routed(readings, Idle, fs) \in Formeds /\ Routed(readings, Idle, fs).at \in {"idle", "set", "refresh"}
  BY <1>1, RoutedTyped
<1> QED BY <1>2 DEF Starts, Joins, Queued

\* A heartbeat and a resync set out with nothing but what State last said.
LEMMA AskingFormed ==
    ASSUME NEW at \in {"state", "fetch"}, NEW for \in Purposes, NEW seen \in States \cup {None}
    PROVE  [Idle EXCEPT !.at = at, !.for = for, !.seen = seen] \in Formeds
<1> DEFINE rec == [Idle EXCEPT !.at = at, !.for = for, !.seen = seen]
<1>1. Idle \in Records /\ Idle.held = {}
  BY IdleFormed DEF Formeds, Idle
<1>2. rec \in Records /\ rec.at = at /\ rec.held = {}
  BY <1>1 DEF Records, Queued, Apart
<1> QED BY <1>2 DEF Formeds, Formed

LEMMA WriteSound ==
    ASSUME Sound, NEW t \in Writers, NEW p \in Edits, Write(t, p)
    PROVE  Sound'
<1>0. Types /\ t \in Tasks
  BY DEF Sound, Tasks
<1>1. Places'
  BY <1>0, EditIsField, WriteStarts, StartsSound DEF Write
<1>2. spent' \in [Bounded -> Nat] /\ \A k \in Bounded : spent'[k] <= Budget[k]
  BY <1>0, SpendTyped DEF Write, Bounded
<1>3. Rest'
  BY <1>0, <1>2 DEF Write, Rest, Types
<1> QED BY <1>1, <1>3 DEF Sound, Types, Rest, Places

LEMMA ApplyPresetSound ==
    ASSUME Sound, NEW t \in Writers, NEW fs \in Presets, ApplyPreset(t, fs)
    PROVE  Sound'
<1>0. Types /\ t \in Tasks
  BY DEF Sound, Tasks
<1>1. Places'
  BY <1>0, EditIsField, PresetStarts, StartsSound DEF ApplyPreset
<1>2. spent' \in [Bounded -> Nat] /\ \A k \in Bounded : spent'[k] <= Budget[k]
  BY <1>0, SpendTyped DEF ApplyPreset, Bounded
<1>3. Rest'
  BY <1>0, <1>2 DEF ApplyPreset, Rest, Types
<1> QED BY <1>1, <1>3 DEF Sound, Types, Rest, Places

LEMMA BeatSound == ASSUME Sound, Beat PROVE Sound'
<1>0. Types /\ "poll" \in Tasks /\ readings.state \in States \cup {None}
  BY ViewParts DEF Sound, Tasks, Types
<1> DEFINE rec == [Idle EXCEPT !.at = "state", !.for = "heartbeat", !.seen = readings.state]
<1>1. rec \in Formeds
  BY <1>0, AskingFormed DEF Purposes
<1>2. Starts("poll", rec)
  BY <1>1 DEF Beat, Starts, Queued, Idle
<1> HIDE DEF rec
<1>3. Places'
  BY <1>0, <1>2, StartsSound
<1>4. Rest'
  BY <1>0 DEF Beat, Rest, Types
<1> QED BY <1>3, <1>4 DEF Sound, Types, Rest, Places

LEMMA ActSound == ASSUME Sound, NEW want \in Junk, Act(want) PROVE Sound'
<1>0. Types /\ "pilot" \in Tasks /\ {<<"junk_filter", want>>} \in SUBSET Fields
  BY NamedIsField DEF Sound, Tasks
<1>1. Places'
  BY <1>0, WriteStarts, StartsSound DEF Act
<1>2. Rest'
  BY <1>0 DEF Act, Rest, Types
<1> QED BY <1>1, <1>2 DEF Sound, Types, Rest, Places

LEMMA ResyncSound == ASSUME Sound, NEW t \in Writers, Resync(t) PROVE Sound'
<1>0. Types /\ t \in Tasks /\ readings \in Views
  BY DEF Sound, Tasks, Types
<1> DEFINE rec == [Idle EXCEPT !.at = "fetch", !.for = "resync"]
<1>1. rec \in Formeds
  <2>1. Idle \in Records /\ Idle.held = {}
    BY IdleFormed DEF Formeds, Idle
  <2>2. rec \in Records /\ rec.at = "fetch" /\ rec.held = {}
    BY <2>1 DEF Records, Queued, Purposes
  <2> QED BY <2>2 DEF Formeds, Formed
<1>2. Starts(t, rec)
  BY <1>1 DEF Resync, Starts, Queued, Idle
<1> HIDE DEF rec
<1>3. Places'
  BY <1>0, <1>2, StartsSound
<1>4. readings' \in Views
  <2>1. Forgotten \in Memories
    BY DEF Forgotten, Memories
  <2>2. readings' = [readings EXCEPT !.state = None, !.memory = Forgotten]
    BY DEF Resync
  <2> QED BY <1>0, <2>1, <2>2 DEF Views
<1>5. spent' \in [Bounded -> Nat] /\ \A k \in Bounded : spent'[k] <= Budget[k]
  BY <1>0, SpendTyped DEF Resync, Bounded
<1>6. Rest'
  BY <1>0, <1>4, <1>5 DEF Resync, Rest, Types
<1> QED BY <1>3, <1>6 DEF Sound, Types, Rest, Places

-----------------------------------------------------------------------------
(* The rescan and the environment.                                          *)

LEMMA RescanSound == ASSUME Sound, NEW t \in Writers, Rescan(t) PROVE Sound'
<1>0. Types /\ Lined /\ t \in Tasks /\ readings \in Views
  BY DEF Sound, Tasks, Types
<1> DEFINE snap == Snapshot(readings)
           rec == [Idle EXCEPT !.at = "reload", !.for = "probe", !.snap = snap]
<1>1. snap \in SUBSET Fields
  BY <1>0, SnapshotFields
<1>2. task' = [task EXCEPT ![t] = rec] /\ queue' = queue /\ task[t].at = "idle"
  BY DEF Rescan, At
<1> HIDE DEF snap
<1>3. rec \in Formeds /\ rec.at \in Apart
  <2>1. Idle \in Records /\ Idle.held = {}
    BY IdleFormed DEF Formeds, Idle
  <2>2. rec \in Records /\ rec.at = "reload" /\ rec.held = {}
    BY <1>1, <2>1 DEF Records, Apart, Purposes
  <2> QED BY <2>2 DEF Formeds, Formed, Apart
<1> HIDE DEF rec
<1>4. Places'
  BY <1>0, <1>2, <1>3, ApartLined DEF Places, Types, Apart
<1>5. spent' \in [Bounded -> Nat] /\ \A k \in Bounded : spent'[k] <= Budget[k]
  BY <1>0, SpendTyped DEF Rescan, Bounded
<1>6. Rest'
  BY <1>0, <1>5 DEF Rescan, Rest, Types
<1> QED BY <1>4, <1>6 DEF Sound, Types, Rest, Places

LEMMA AwayFormed ==
    ASSUME NEW rec \in Formeds, NEW at \in {"away", "fetch"}
    PROVE  [rec EXCEPT !.at = at] \in Formeds /\ [rec EXCEPT !.at = at].at = at
<1> DEFINE s == [rec EXCEPT !.at = at]
<1>1. s \in Records
  BY DEF Formeds, Records, Queued, Apart
<1>2. s.at = at /\ s.held = rec.held
  BY DEF Formeds, Records
<1>3. Formed(s)
  BY <1>2, RecordParts DEF Formed
<1> QED BY <1>1, <1>2, <1>3 DEF Formeds

LEMMA ReloadSound == ASSUME Sound, NEW t \in Writers, Reload(t) PROVE Sound'
<1>0. Types /\ Lined /\ t \in Tasks /\ task \in [Tasks -> Formeds] /\ task[t].at = "reload"
  BY DEF Sound, Tasks, Types, Reload, At
<1> DEFINE rec == [task[t] EXCEPT !.at = "away"]
           tasks == [task EXCEPT ![t] = rec]
<1>1. rec \in Formeds /\ rec.at = "away" /\ tasks \in [Tasks -> Formeds]
  BY <1>0, AwayFormed
<1>2. tasks = [task EXCEPT ![t].at = "away"]
  BY <1>0
<1>3. \/ task' = tasks /\ UNCHANGED <<up, queue, outcome>>
      \/ Cut(tasks)
  BY <1>2 DEF Reload
<1> HIDE DEF rec
<1>4. Places' /\ up' \in BOOLEAN
  <2>1. CASE task' = tasks /\ UNCHANGED <<up, queue, outcome>>
    BY <1>0, <1>1, <2>1, ApartLined DEF Places, Types, Apart
  <2>2. CASE Cut(tasks)
    <3> HIDE DEF tasks
    <3>1. task' \in [Tasks -> Formeds] /\ queue' = <<>> /\ Lined' /\ up' = FALSE
      BY <1>0, <1>1, <2>2, CutSound
    <3>2. queue' = <<>> /\ up' = FALSE
      BY <3>1
    <3>3. queue' \in Seq(Tasks)
      BY <3>2
    <3>4. up' \in BOOLEAN
      BY <3>2
    <3> QED BY <3>1, <3>3, <3>4 DEF Places
  <2> QED BY <1>3, <2>1, <2>2
<1>5. engine' \in States
  BY <1>0, BootedState DEF Reload, Types, States
<1>6. Rest'
  BY <1>0, <1>4, <1>5 DEF Reload, Rest, Types
<1> QED BY <1>4, <1>6 DEF Sound, Types, Rest, Places

LEMMA ProbeSound == ASSUME Sound, NEW t \in Writers, Probe(t) PROVE Sound'
<1>0. Types /\ Lined /\ t \in Tasks /\ task \in [Tasks -> Formeds] /\ task[t].at = "away"
  BY DEF Sound, Tasks, Types, Probe, At
<1> DEFINE rec == [task[t] EXCEPT !.at = "fetch"]
<1>1. rec \in Formeds /\ rec.at = "fetch"
  BY <1>0, AwayFormed
<1>2. task' = [task EXCEPT ![t] = rec] /\ queue' = Append(queue, t)
  BY <1>0 DEF Probe
<1> HIDE DEF rec
<1>3. Places'
  BY <1>0, <1>1, <1>2, JoinsLined DEF Places, Apart, Queued
<1>4. Rest'
  BY <1>0 DEF Probe, Rest, Types
<1> QED BY <1>3, <1>4 DEF Sound, Types, Rest, Places

LEMMA UnreachableSound == ASSUME Sound, NEW t \in Writers, Unreachable(t) PROVE Sound'
<1>0. Types /\ Lined /\ t \in Tasks /\ task[t].at = "away" /\ Idle \in Formeds /\ Idle.at = "idle"
  BY IdleFormed DEF Sound, Tasks, Unreachable, At, Idle
<1>1. task' = [task EXCEPT ![t] = Idle] /\ queue' = queue
  BY DEF Unreachable
<1>3. Places'
  BY <1>0, <1>1, ApartLined DEF Places, Types, Apart
<1>4. Rest'
  BY <1>0 DEF Unreachable, Rest, Types
<1> QED BY <1>3, <1>4 DEF Sound, Types, Rest, Places

LEMMA FlipState == ASSUME Types, Flip PROVE engine' \in States /\ engine'.junk_filter = engine.junk_filter
<1> DEFINE other == CHOOSE c \in Chains : c # engine.source
           e == [engine EXCEPT !.source = other]
<1>1. engine \in States /\ other \in Chains
  BY DEF Types, Chains
<1>2. engine' \in {e, [e EXCEPT !.filter = Booted(e.source).filter]}
  BY <1>1 DEF Flip, States
<1> HIDE DEF other
<1>3. e \in States /\ e.junk_filter = engine.junk_filter
  BY <1>1 DEF States
<1> HIDE DEF e
<1>4. Booted(e.source).filter \in Pairs
  BY DEF Booted, Pairs, Arguments, Indices
<1> QED BY <1>2, <1>3, <1>4 DEF States

LEMMA EnvironmentSound == ASSUME Sound, Environment \/ Reconnect PROVE Sound'
<1>0. Types /\ task \in [Tasks -> Formeds] /\ engine \in States /\ readings \in Views
  BY DEF Sound, Types
<1>1. CASE Flip
  <2>1. spent' \in [Bounded -> Nat] /\ \A k \in Bounded : spent'[k] <= Budget[k]
    BY <1>0, <1>1, SpendTyped DEF Flip, Bounded
  <2>2. Rest'
    BY <1>0, <1>1, <2>1, FlipState DEF Flip, Rest, Types
  <2>3. Places'
    BY <1>1 DEF Flip, Sound, Types, Places, Lined
  <2> QED BY <2>2, <2>3 DEF Sound, Types, Rest, Places
<1>2. CASE Move
  <2>1. spent' \in [Bounded -> Nat] /\ \A k \in Bounded : spent'[k] <= Budget[k]
    BY <1>0, <1>2, SpendTyped DEF Move, Bounded
  <2>2. engine' \in States
    BY <1>0, <1>2 DEF Move, States
  <2>3. Rest'
    BY <1>0, <1>2, <2>1, <2>2 DEF Move, Rest, Types
  <2>4. Places'
    BY <1>2 DEF Move, Sound, Types, Places, Lined
  <2> QED BY <2>3, <2>4 DEF Sound, Types, Rest, Places
<1>3. CASE Lose
  <2>1. spent' \in [Bounded -> Nat] /\ \A k \in Bounded : spent'[k] <= Budget[k]
    BY <1>0, <1>3, SpendTyped DEF Lose, Bounded
  <2>2. task' \in [Tasks -> Formeds] /\ queue' = <<>> /\ Lined' /\ up' = FALSE
    BY <1>0, <1>3, CutSound DEF Lose
  <2>3. engine' \in States /\ byHand' \in Junk \cup Writers \cup {None}
    BY <1>0, <1>3, BootedState DEF Lose, Types, States
  <2>4. Rest'
    BY <1>0, <1>3, <2>1, <2>2, <2>3 DEF Lose, Rest, Types
  <2> QED BY <2>2, <2>4 DEF Sound, Types, Rest
<1>4. CASE SwitchOn
  <2>1. Rest'
    BY <1>0, <1>4 DEF SwitchOn, Rest, Types
  <2>2. Places'
    BY <1>4 DEF SwitchOn, Sound, Types, Places, Lined
  <2> QED BY <2>1, <2>2 DEF Sound, Types, Rest, Places
<1>5. CASE Reconnect
  <2>1. readings' \in Views
    <3>1. RateFamily(engine) \in Chains \cup {None} /\ Loaded(engine) \in Chains /\ Forgotten \in Memories
      BY <1>0, RateFamilyChain, LoadedChain DEF Forgotten, Memories
    <3> QED BY <1>0, <1>5, <3>1 DEF Reconnect, Views
  <2>2. Rest'
    BY <1>0, <1>5, <2>1 DEF Reconnect, Rest, Types
  <2>3. Places'
    BY <1>5 DEF Reconnect, Sound, Types, Places, Lined
  <2> QED BY <2>2, <2>3 DEF Sound, Types, Rest, Places
<1> QED BY <1>1, <1>2, <1>3, <1>4, <1>5 DEF Environment

LEMMA InitSound == Init => Sound
<1> SUFFICES ASSUME Init PROVE Sound
  OBVIOUS
<1>1. engine \in States
  BY BootedState DEF Init, Chains
<1>2. readings \in Views
  <2>1. RateFamily(engine) \in Chains \cup {None} /\ Loaded(engine) \in Chains /\ Forgotten \in Memories
    BY <1>1, RateFamilyChain, LoadedChain DEF Forgotten, Memories
  <2>2. readings = [state |-> engine, rate |-> RateFamily(engine), lists |-> Loaded(engine), memory |-> Forgotten]
    BY DEF Init
  <2> QED BY <1>1, <2>1, <2>2 DEF Views
<1>3. task \in [Tasks -> Formeds] /\ queue \in Seq(Tasks) /\ \A t \in Tasks : task[t].at = "idle"
  <2>1. Idle \in Formeds /\ Idle.at = "idle"
    BY IdleFormed DEF Idle
  <2> QED BY <2>1 DEF Init
<1>4. Lined
  BY <1>3 DEF Lined, Init, Queued
<1>5. spent \in [Bounded -> Nat] /\ \A k \in Bounded : spent[k] <= Budget[k]
  <2>1. \A k \in Bounded : Budget[k] \in Nat
    BY BoundsAssumption DEF Budget, Bounded
  <2> QED BY <2>1 DEF Init
<1> QED BY <1>1, <1>2, <1>3, <1>4, <1>5 DEF Sound, Types, Init

LEMMA NextSound == Sound /\ [Next]_vars => Sound'
<1> SUFFICES ASSUME Sound, [Next]_vars PROVE Sound'
  OBVIOUS
<1>1. CASE UNCHANGED vars
  BY <1>1 DEF vars, Sound, Types, Lined
<1>2. ASSUME NEW t \in Tasks, Serving(t) \/ Ignored(t) PROVE Sound'
  BY <1>2, ServingSound
<1>3. ASSUME NEW t \in Writers, \E p \in Edits : Write(t, p) PROVE Sound'
  BY <1>3, WriteSound
<1>4. ASSUME NEW t \in Writers, \E fs \in Presets : ApplyPreset(t, fs) PROVE Sound'
  BY <1>4, ApplyPresetSound
<1>5. ASSUME NEW t \in Writers, Resync(t) \/ Rescan(t) \/ Reload(t) \/ Probe(t) \/ Unreachable(t) PROVE Sound'
  BY <1>5, ResyncSound, RescanSound, ReloadSound, ProbeSound, UnreachableSound
<1>6. CASE Beat \/ StateRead \/ StatusRead
  BY <1>6, BeatSound, PollSound
<1>7. ASSUME NEW w \in Junk, Act(w) PROVE Sound'
  BY <1>7, ActSound
<1>8. CASE Reconnect \/ Environment
  BY <1>8, EnvironmentSound
<1> QED BY <1>1, <1>2, <1>3, <1>4, <1>5, <1>6, <1>7, <1>8 DEF Next

LEMMA SoundTypeOK == Sound => TypeOK
<1> SUFFICES ASSUME Sound PROVE TypeOK
  OBVIOUS
<1>1. ASSUME NEW t \in Tasks
      PROVE  DOMAIN task[t] = DOMAIN Idle /\ \A p \in task[t].named \cup task[t].held : p[1] \in FieldNames
  <2>1. task[t] \in Formeds
    BY TaskFormed DEF Sound
  <2>2. DOMAIN task[t] = DOMAIN Idle
    BY <2>1 DEF Formeds, Records, Idle
  <2> QED BY <2>1, <2>2, RecordParts, FieldIsNamed
<1>2. readings.state \in States \cup {None} /\ readings.rate \in Chains \cup {None} /\ readings.lists \in Chains
      /\ readings.memory \in [Chains -> [Routable -> IDs \cup {None}]]
  BY DEF Sound, Types, Views, Memories
<1> QED BY <1>1, <1>2 DEF TypeOK, Sound, Types

THEOREM TypeCorrect == Spec => []TypeOK
<1>1. Spec => []Sound
  BY InitSound, NextSound, PTL DEF Spec
<1> QED BY <1>1, SoundTypeOK, PTL

-----------------------------------------------------------------------------
(* The choice by hand.                                                      *)

\* Auto-pilot's request is one setter of the high-frequency filter and its readback.
OneSetter(rec) ==
    /\ rec.at \in {"idle", "set", "check", "refresh"} /\ rec.for = "batch" /\ rec.rest = {} /\ rec.snap = {}
    /\ rec.tried \subseteq {"junk_filter"} /\ rec.done \subseteq {"junk_filter"}
    /\ rec.at \in {"set", "check"} => Tail(rec.edits) = <<>> /\ Head(rec.edits).setting = "junk_filter"

\* The lock serves a before b.
Ahead(a, b) == \E i, j \in 1..Len(queue) : i < j /\ queue[i] = a /\ queue[j] = b

\* Auto-pilot is off since the choice.  What it had still to send when the listener
\* chose is ahead of the listener's setter.
Chosen ==
    /\ byHand # None => ~autopilot
    /\ byHand # None /\ task["pilot"].at = "set" => byHand \in Writers /\ Ahead("pilot", byHand)

HandInv == Sound /\ OneSetter(task["pilot"]) /\ Chosen /\ HandChoiceStands

LEMMA HandApart == /\ \A t \in Writers : t \in Tasks /\ t # "pilot" /\ t # "poll" /\ t \notin Junk /\ t # None
                   /\ "pilot" \in Tasks /\ "poll" \in Tasks /\ None \notin Junk
  BY WritersAssumption, NoneAssumption DEF Tasks

\* The head is ahead of nobody it waits behind, and those behind it keep their order.
LEMMA GoesAhead ==
    ASSUME Sound, NEW t, Served(t), NEW rec, Goes(t, rec), NEW a, NEW b, Ahead(a, b)
    PROVE  t # b /\ (t # a => Ahead(a, b)')
<1>1. /\ queue \in Seq(Tasks) /\ Lined
  BY DEF Sound, Types
<1>2. /\ Len(queue) \in Nat \ {0} /\ queue[1] = t
      /\ Tail(queue) \in Seq(Tasks) /\ Len(Tail(queue)) = Len(queue) - 1
      /\ \A i \in 1..(Len(queue) - 1) : Tail(queue)[i] = queue[i + 1]
  BY <1>1, ServedHead
<1>3. PICK i, j \in 1..Len(queue) : i < j /\ queue[i] = a /\ queue[j] = b
  BY DEF Ahead
<1>4. t # b
  <2>1. SUFFICES ASSUME t = b PROVE FALSE
    OBVIOUS
  <2>2. queue[j] = queue[1] /\ 1 \in 1..Len(queue)
    BY <1>2, <1>3, <2>1
  <2>3. j = 1
    BY <1>1, <1>3, <2>2 DEF Lined
  <2> QED BY <1>3, <2>3
<1>5. ASSUME t # a PROVE Ahead(a, b)'
  <2> DEFINE q == Tail(queue)
  <2>1. i # 1
    BY <1>2, <1>3, <1>5
  <2>2. i - 1 \in 1..(Len(queue) - 1) /\ j - 1 \in 1..(Len(queue) - 1) /\ i - 1 < j - 1
        /\ (i - 1) + 1 = i /\ (j - 1) + 1 = j
    BY <1>2, <1>3, <2>1
  <2>3. q[i - 1] = a /\ q[j - 1] = b
    BY <1>2, <1>3, <2>2
  <2>4. queue' = q \/ queue' = Append(q, t)
    BY DEF Goes
  <2>5. i - 1 \in 1..Len(q) /\ j - 1 \in 1..Len(q) /\ q \in Seq(Tasks) /\ t \in Tasks
    BY <1>1, <1>2, <2>2
  <2> HIDE DEF q
  <2>6. /\ i - 1 \in 1..Len(queue') /\ j - 1 \in 1..Len(queue')
        /\ queue'[i - 1] = q[i - 1] /\ queue'[j - 1] = q[j - 1]
    <3>1. CASE queue' = q
      BY <2>5, <3>1
    <3>2. CASE queue' = Append(q, t)
      BY <2>5, <3>2
    <3> QED BY <2>4, <3>1, <3>2
  <2> QED BY <2>2, <2>3, <2>6 DEF Ahead
<1> QED BY <1>4, <1>5

\* Nobody who joins gets ahead of those who wait.
LEMMA JoinsAhead ==
    ASSUME Sound, NEW t \in Tasks, queue' = Append(queue, t), NEW a, NEW b
    PROVE  /\ Ahead(a, b) => Ahead(a, b)'
           /\ b = t /\ a \in Tasks /\ task[a].at \in Queued => Ahead(a, b)'
<1> DEFINE n == Len(queue)
<1>1. queue \in Seq(Tasks) /\ n \in Nat
  BY DEF Sound, Types
<1>2. /\ Len(queue') = n + 1 /\ queue'[n + 1] = t /\ \A i \in 1..n : queue'[i] = queue[i]
  BY <1>1
<1>3. \A i \in 1..n : i \in 1..(n + 1) /\ i < n + 1
  BY <1>1
<1>4. n + 1 \in 1..(n + 1)
  BY <1>1
<1>5. ASSUME Ahead(a, b) PROVE Ahead(a, b)'
  BY <1>2, <1>3, <1>5 DEF Ahead
<1>6. ASSUME b = t, a \in Tasks, task[a].at \in Queued PROVE Ahead(a, b)'
  <2>1. PICK i \in 1..n : queue[i] = a
    BY <1>6 DEF Sound, Lined
  <2>2. i \in 1..Len(queue') /\ n + 1 \in 1..Len(queue') /\ i < n + 1 /\ queue'[i] = a /\ queue'[n + 1] = b
    BY <1>2, <1>3, <1>4, <1>6, <2>1
  <2> HIDE DEF n
  <2> QED BY <2>2 DEF Ahead
<1> QED BY <1>5, <1>6

\* A request of another task changes neither the choice nor what the engine runs of it.
LEMMA OthersServed ==
    ASSUME HandInv, NEW t \in Tasks, t # "pilot", Served(t), NEW rec, Steps(t, rec),
           byHand' = byHand, autopilot' = autopilot, engine'.junk_filter = engine.junk_filter
    PROVE  OneSetter(task["pilot"])' /\ Chosen' /\ HandChoiceStands'
<1>1. Sound /\ Goes(t, rec) /\ task \in [Tasks -> Formeds]
  BY DEF HandInv, Steps, Sound, Types
<1>2. task'["pilot"] = task["pilot"]
  BY <1>1 DEF Goes
<1>3. OneSetter(task["pilot"])'
  BY <1>2 DEF HandInv
<1>4. HandChoiceStands'
  BY DEF HandInv, HandChoiceStands
<1>5. ASSUME byHand' # None, task'["pilot"].at = "set" PROVE byHand' \in Writers /\ Ahead("pilot", byHand)'
  <2>1. byHand \in Writers /\ Ahead("pilot", byHand)
    BY <1>2, <1>5 DEF HandInv, Chosen
  <2>2. \A b : Ahead("pilot", b) => Ahead("pilot", b)'
    BY <1>1, GoesAhead
  <2> QED BY <2>1, <2>2
<1>6. Chosen'
  BY <1>5 DEF HandInv, Chosen
<1> QED BY <1>3, <1>4, <1>6

\* The setter of the high-frequency filter another task sends: the listener's own, or
\* one that comes after it.
LEMMA OthersSet ==
    ASSUME HandInv, NEW t \in Tasks, t # "pilot", Set(t)
    PROVE  OneSetter(task["pilot"])' /\ Chosen' /\ HandChoiceStands'
<1> DEFINE op == Head(task[t].edits)
           rec == [task[t] EXCEPT !.at = "check"]
<1>1. Sound /\ Types /\ engine \in States /\ task[t] \in Formeds /\ task[t].at = "set"
  BY TaskFormed DEF HandInv, Sound, Types, Set, At
<1>2. op \in Ops /\ engine' = Took(engine, op) /\ Served(t) /\ Goes(t, rec) /\ autopilot' = autopilot
  BY <1>1, FirstOp DEF Set
<1>3. Steps(t, rec)
  BY <1>1, <1>2, SetSteps DEF Set
<1>4. byHand' = IF op.setting # "junk_filter" \/ byHand \in Writers \ {t} THEN byHand
                ELSE IF byHand # None /\ task[t].snap = {} THEN op.value ELSE None
  BY DEF Set
<1>5. task \in [Tasks -> Formeds]
  BY <1>1 DEF Types
<1> HIDE DEF op, rec
<1>6. CASE op.setting # "junk_filter"
  <2>1. engine'.junk_filter = engine.junk_filter /\ byHand' = byHand
    BY <1>1, <1>2, <1>4, <1>6, TookTyped
  <2> QED BY <1>2, <1>3, <2>1, OthersServed
<1>7. CASE op.setting = "junk_filter"
  <2>1. engine'.junk_filter = op.value
    BY <1>1, <1>2, <1>7, TookTyped
  <2>2. task'["pilot"] = task["pilot"]
    BY <1>2, <1>5, HandApart DEF Goes
  <2>3. OneSetter(task["pilot"])'
    BY <2>2 DEF HandInv
  <2>4. \A b : Ahead("pilot", b) => t # b /\ Ahead("pilot", b)'
    BY <1>1, <1>2, GoesAhead
  <2>5. CASE byHand \in Writers \ {t}
    <3>1. byHand' = byHand
      BY <1>4, <2>5
    <3>2. byHand' \notin Junk
      BY <2>5, <3>1, HandApart
    <3>3. Chosen'
      BY <1>2, <2>2, <2>4, <3>1 DEF HandInv, Chosen
    <3> QED BY <2>3, <3>2, <3>3 DEF HandChoiceStands
  <2>6. CASE byHand \notin Writers \ {t}
    <3>1. byHand' \in {op.value, None} /\ (byHand' # None => byHand # None)
      BY <1>4, <1>7, <2>6
    <3>2. byHand # None => task["pilot"].at # "set"
      BY <2>4, <2>6 DEF HandInv, Chosen
    <3>3. Chosen'
      BY <1>2, <2>2, <3>1, <3>2 DEF HandInv, Chosen
    <3>4. HandChoiceStands'
      BY <2>1, <3>1, HandApart DEF HandChoiceStands
    <3> QED BY <2>3, <3>3, <3>4
  <2> QED BY <2>5, <2>6
<1> QED BY <1>6, <1>7

\* Auto-pilot's own request: while its setter is unsent, the listener's is too.
LEMMA PilotServed ==
    ASSUME HandInv, Serving("pilot") \/ Ignored("pilot")
    PROVE  OneSetter(task["pilot"])' /\ Chosen' /\ HandChoiceStands'
<1> DEFINE rec == task["pilot"]
<1>1. /\ Sound /\ Types /\ engine \in States /\ rec \in Formeds /\ OneSetter(rec)
      /\ task \in [Tasks -> Formeds] /\ "pilot" \in Tasks
  BY TaskFormed, HandApart DEF HandInv, Sound, Types
<1>2. autopilot' = autopilot
  BY DEF Serving, Set, Check, Refresh, Reread, ListsRead, Fetch, Ignored
<1>3. ASSUME NEW s, Goes("pilot", s), OneSetter(s), s.at # "set", byHand' = byHand, rec.at = "set" \/ engine' = engine
      PROVE  OneSetter(task["pilot"])' /\ Chosen' /\ HandChoiceStands'
  <2>1. task'["pilot"] = s
    BY <1>1, <1>3 DEF Goes
  <2>2. Chosen'
    BY <1>2, <1>3, <2>1 DEF HandInv, Chosen
  <2>3. rec.at = "set" => byHand \notin Junk
    BY HandApart DEF HandInv, Chosen
  <2>4. HandChoiceStands'
    BY <1>3, <2>3 DEF HandInv, HandChoiceStands
  <2> QED BY <1>3, <2>1, <2>2, <2>4
<1>4. CASE Set("pilot") \/ Ignored("pilot")
  <2> DEFINE s == [rec EXCEPT !.at = "check"]
  <2>1. Goes("pilot", s) /\ byHand' = byHand /\ rec.at = "set"
    BY <1>4 DEF Set, Ignored, At
  <2>2. /\ s.at = "check" /\ s.for = rec.for /\ s.rest = rec.rest /\ s.snap = rec.snap /\ s.tried = rec.tried
        /\ s.done = rec.done /\ s.edits = rec.edits
    BY <1>1 DEF Formeds, Records
  <2>3. OneSetter(s)
    BY <1>1, <2>1, <2>2 DEF OneSetter
  <2> HIDE DEF s
  <2> QED BY <1>3, <2>1, <2>2, <2>3
<1>5. CASE Check("pilot")
  <2> DEFINE op == Head(rec.edits)
             tried == rec.tried \cup {op.setting}
             done == rec.done \cup (IF engine[op.setting] = op.value THEN {op.setting} ELSE {})
             rest == Tail(rec.edits)
             s == [rec EXCEPT !.at = "refresh", !.edits = rest, !.tried = tried, !.done = done]
  <2>1. rec.at = "check" /\ byHand' = byHand /\ engine' = engine
    BY <1>5 DEF Check, At
  <2>2. Tail(rec.edits) = <<>> /\ op.setting = "junk_filter" /\ Sent(rec) = "refresh"
    BY <1>1, <2>1 DEF OneSetter, Sent
  <2>3. Goes("pilot", s)
    BY <1>5, <2>2 DEF Check
  <2>4. tried \subseteq {"junk_filter"} /\ done \subseteq {"junk_filter"}
    BY <1>1, <2>2 DEF OneSetter
  <2> HIDE DEF op, tried, done, rest
  <2>5. /\ s.at = "refresh" /\ s.for = rec.for /\ s.rest = rec.rest /\ s.snap = rec.snap /\ s.tried = tried
        /\ s.done = done
    BY <1>1 DEF Formeds, Records
  <2>6. OneSetter(s)
    BY <1>1, <2>4, <2>5 DEF OneSetter
  <2> HIDE DEF s
  <2> QED BY <1>3, <2>1, <2>3, <2>5, <2>6
<1>6. CASE Refresh("pilot")
  <2> DEFINE r == [readings EXCEPT !.state = engine]
  <2>1. byHand' = byHand /\ engine' = engine
    BY <1>6 DEF Refresh
  <2>2. rec.tried \cap {"mode", "filter"} = {} /\ "mode" \notin rec.done /\ rec.rest = {}
    BY <1>1 DEF OneSetter
  <2>3. Bookkeeps("pilot", r, rec)
    BY <1>6, <2>2 DEF Refresh
  <2> HIDE DEF r
  <2>4. Ends("pilot", Recorded(r, rec), rec)
    BY <2>2, <2>3 DEF Bookkeeps
  <2>5. Goes("pilot", Idle)
    BY <2>2, <2>4 DEF Ends
  <2>6. OneSetter(Idle) /\ Idle.at = "idle"
    BY DEF OneSetter, Idle
  <2> QED BY <1>3, <2>1, <2>5, <2>6
<1>7. CASE Reread("pilot") \/ ListsRead("pilot") \/ Fetch("pilot")
  BY <1>1, <1>7 DEF OneSetter, Reread, ListsRead, Fetch, At
<1> QED BY <1>4, <1>5, <1>6, <1>7 DEF Serving

\* What goes by without auto-pilot, the choice and what the engine runs of it.
LEMMA HandKept ==
    ASSUME HandInv, task'["pilot"] = task["pilot"], byHand' = byHand, autopilot' = autopilot,
           engine'.junk_filter = engine.junk_filter,
           queue' = queue \/ \E t \in Tasks : queue' = Append(queue, t)
    PROVE  OneSetter(task["pilot"])' /\ Chosen' /\ HandChoiceStands'
<1>1. \A b : Ahead("pilot", b) => Ahead("pilot", b)'
  <2>1. CASE queue' = queue
    BY <2>1 DEF Ahead
  <2>2. CASE \E t \in Tasks : queue' = Append(queue, t)
    BY <2>2, JoinsAhead DEF HandInv
  <2> QED BY <2>1, <2>2
<1>2. Chosen'
  BY <1>1 DEF HandInv, Chosen
<1> QED BY <1>2 DEF HandInv, HandChoiceStands

\* The choice is over: the engine restarted, or auto-pilot has the filter back.
LEMMA HandOver ==
    ASSUME byHand' = None
    PROVE  Chosen' /\ HandChoiceStands'
  BY HandApart DEF Chosen, HandChoiceStands

LEMMA CutPilot ==
    ASSUME HandInv, NEW tasks, tasks["pilot"] = task["pilot"], Cut(tasks)
    PROVE  OneSetter(task["pilot"])' /\ task'["pilot"].at = "idle"
<1>1. task'["pilot"] = GivenUp(task["pilot"])
  BY HandApart DEF Cut
<1>2. ~Waits(task["pilot"])
  BY DEF HandInv, OneSetter, Waits
<1>3. task'["pilot"] = Idle
  BY <1>1, <1>2 DEF GivenUp
<1> QED BY <1>3 DEF OneSetter, Idle

\* Auto-pilot sets out only while the listener has left it the filter.
LEMMA ActHand ==
    ASSUME HandInv, NEW want \in Junk, Act(want)
    PROVE  OneSetter(task["pilot"])' /\ Chosen' /\ HandChoiceStands'
<1> DEFINE fs == {<<"junk_filter", want>>}
           rec == Started(readings, Idle, fs, {})
<1>1. byHand' = None
  BY DEF Act, HandInv, Chosen
<1>2. task'["pilot"] = rec
  BY HandApart DEF Act, Joins, HandInv, Sound, Types
<1>3. \/ rec = Idle
      \/ /\ rec.at = "set" /\ rec.for = "batch" /\ rec.edits = Setters(readings, fs) /\ rec.tried = {}
         /\ rec.done = {} /\ rec.rest = {} /\ rec.snap = {}
  <2>1. {p \in fs : OffChain(readings, p)} = {}
    BY RoutableFields DEF OffChain
  <2>2. fs \ {} = fs /\ fs # {}
    OBVIOUS
  <2> HIDE DEF fs
  <2>3. rec = IF ~Resolves(readings, fs) THEN Idle
              ELSE [Idle EXCEPT !.at = "set", !.edits = Setters(readings, fs), !.named = fs, !.held = {}, !.rest = {},
                                !.snap = Idle.snap, !.landed = Idle.landed]
    BY <2>1, <2>2 DEF Started
  <2> HIDE DEF rec
  <2> DEFINE ss == Setters(readings, fs)
  <2> HIDE DEF ss
  <2>4. Idle.snap = {} /\ Idle.landed = {}
    BY DEF Idle
  <2>5. rec = IF ~Resolves(readings, fs) THEN Idle
              ELSE [Idle EXCEPT !.at = "set", !.edits = ss, !.named = fs, !.held = {}, !.rest = {},
                                !.snap = {}, !.landed = {}]
    BY <2>3, <2>4 DEF ss
  <2>6. CASE ~Resolves(readings, fs)
    BY <2>5, <2>6
  <2>7. CASE Resolves(readings, fs)
    <3>1. /\ rec.at = "set" /\ rec.for = "batch" /\ rec.edits = ss /\ rec.tried = {}
          /\ rec.done = {} /\ rec.rest = {} /\ rec.snap = {}
      BY <2>5, <2>7 DEF Idle
    <3> QED BY <3>1 DEF ss
  <2> QED BY <2>6, <2>7
<1>4. \E op : op.setting = "junk_filter" /\ Setters(readings, fs) = <<op>>
  <2> DEFINE v == (CHOOSE p \in fs : p[1] = "junk_filter")[2]
             op == [setting |-> "junk_filter", value |-> v]
  <2>1. ~(\E p \in fs : p[1] = "mode") /\ ~(\E p \in fs : p[1] \in Routable) /\ \E p \in fs : p[1] = "junk_filter"
    BY RoutableFields
  <2> HIDE DEF fs
  <2>2. Setters(readings, fs) = <<>> \o <<>> \o <<op>>
    BY <2>1 DEF Setters
  <2> HIDE DEF v
  <2>3. op.setting = "junk_filter"
    OBVIOUS
  <2> HIDE DEF op
  <2>4. <<>> \o <<>> \o <<op>> = <<op>>
    OBVIOUS
  <2> QED BY <2>2, <2>3, <2>4
<1> HIDE DEF fs, rec
<1>5. OneSetter(rec)
  <2>1. CASE rec = Idle
    BY <2>1 DEF OneSetter, Idle
  <2>2. CASE rec # Idle
    <3>1. PICK op : op.setting = "junk_filter" /\ rec.edits = <<op>>
      BY <1>3, <1>4, <2>2
    <3>2. Head(rec.edits) = op /\ Tail(rec.edits) = <<>>
      BY <3>1
    <3> QED BY <1>3, <2>2, <3>1, <3>2 DEF OneSetter
  <2> QED BY <2>1, <2>2
<1> QED BY <1>1, <1>2, <1>5, HandOver

\* The listener chooses: auto-pilot is off, and what it had under way is ahead.
LEMMA WriteHand ==
    ASSUME HandInv, NEW t \in Writers, NEW p \in Edits, Write(t, p)
    PROVE  OneSetter(task["pilot"])' /\ Chosen' /\ HandChoiceStands'
<1>1. t \in Tasks /\ t # "pilot" /\ Sound /\ task \in [Tasks -> Formeds] /\ "pilot" \in Tasks
  BY HandApart DEF HandInv, Sound, Types
<1>2. task'["pilot"] = task["pilot"] /\ queue' = Append(queue, t) /\ engine' = engine
  BY <1>1 DEF Write, Joins
<1>3. CASE p[1] = "junk_filter"
  <2>1. autopilot' = FALSE /\ byHand' = t
    BY <1>3 DEF Write
  <2>2. OneSetter(task["pilot"])'
    BY <1>2 DEF HandInv
  <2>3. task["pilot"].at = "set" => Ahead("pilot", t)'
    BY <1>1, <1>2, JoinsAhead DEF Queued
  <2>4. Ahead("pilot", t)' => Ahead("pilot", byHand)'
    BY <2>1 DEF Ahead
  <2>5. Chosen'
    BY <1>2, <2>1, <2>3, <2>4 DEF Chosen
  <2> QED BY <2>1, <2>2, <2>5, HandApart DEF HandChoiceStands
<1>4. CASE p[1] # "junk_filter"
  BY <1>1, <1>2, <1>4, HandKept DEF Write
<1> QED BY <1>3, <1>4

LEMMA NextHand ==
    ASSUME HandInv, [Next]_vars
    PROVE  OneSetter(task["pilot"])' /\ Chosen' /\ HandChoiceStands'
<1>1. /\ Sound /\ Types /\ task \in [Tasks -> Formeds] /\ "pilot" \in Tasks /\ "poll" \in Tasks /\ "poll" # "pilot"
      /\ \A t \in Writers : t \in Tasks /\ t # "pilot"
  BY HandApart DEF HandInv, Sound, Types
<1>2. CASE UNCHANGED vars
  BY <1>2, HandKept DEF vars
<1>3. ASSUME NEW t \in Tasks, Serving(t) \/ Ignored(t)
      PROVE  OneSetter(task["pilot"])' /\ Chosen' /\ HandChoiceStands'
  <2>1. CASE t = "pilot"
    BY <1>3, <2>1, PilotServed
  <2>2. CASE t # "pilot" /\ Set(t)
    BY <2>2, OthersSet
  <2>3. CASE t # "pilot" /\ ~Set(t)
    <3>1. Served(t) /\ \E rec : Steps(t, rec)
      <4>1. CASE Ignored(t)
        BY <1>1, <4>1, SetSteps DEF Ignored
      <4>2. CASE Serving(t)
        BY <1>1, <2>3, <4>2, CheckSteps, RefreshSteps, RereadSteps, ListsReadSteps, FetchSteps
           DEF Serving, Check, Refresh, Reread, ListsRead, Fetch
      <4> QED BY <1>3, <4>1, <4>2
    <3>2. byHand' = byHand /\ autopilot' = autopilot /\ engine' = engine
      BY <1>3, <2>3 DEF Serving, Check, Refresh, Reread, ListsRead, Fetch, Ignored
    <3> QED BY <2>3, <3>1, <3>2, OthersServed
  <2> QED BY <2>1, <2>2, <2>3
<1>4. ASSUME NEW t \in Writers, \E p \in Edits : Write(t, p)
      PROVE  OneSetter(task["pilot"])' /\ Chosen' /\ HandChoiceStands'
  BY <1>4, WriteHand
<1>5. ASSUME NEW t \in Writers, (\E fs \in Presets : ApplyPreset(t, fs)) \/ Resync(t) \/ Rescan(t) \/ Probe(t) \/ Unreachable(t)
      PROVE  OneSetter(task["pilot"])' /\ Chosen' /\ HandChoiceStands'
  <2>1. t \in Tasks /\ t # "pilot"
    BY <1>1
  <2>2. task'["pilot"] = task["pilot"]
    BY <1>1, <1>5, <2>1 DEF ApplyPreset, Resync, Rescan, Probe, Unreachable, Joins
  <2>3. queue' = queue \/ queue' = Append(queue, t)
    BY <1>5 DEF ApplyPreset, Resync, Rescan, Probe, Unreachable, Joins
  <2>4. byHand' = byHand /\ autopilot' = autopilot /\ engine' = engine
    BY <1>5 DEF ApplyPreset, Resync, Rescan, Probe, Unreachable
  <2> QED BY <2>1, <2>2, <2>3, <2>4, HandKept
<1>6. ASSUME NEW t \in Writers, Reload(t)
      PROVE  OneSetter(task["pilot"])' /\ Chosen' /\ HandChoiceStands'
  <2> DEFINE tasks == [task EXCEPT ![t].at = "away"]
  <2>1. tasks["pilot"] = task["pilot"] /\ byHand' = None
    BY <1>1, <1>6 DEF Reload
  <2>2. task' = tasks \/ Cut(tasks)
    BY <1>6 DEF Reload
  <2> HIDE DEF tasks
  <2>3. OneSetter(task["pilot"])'
    BY <2>1, <2>2, CutPilot DEF HandInv
  <2> QED BY <2>1, <2>3, HandOver
<1>7. CASE Beat
  <2>1. queue' = Append(queue, "poll") /\ task'["pilot"] = task["pilot"]
    BY <1>1, <1>7 DEF Beat, Joins
  <2> QED BY <1>1, <1>7, <2>1, HandKept DEF Beat
<1>8. CASE StateRead \/ StatusRead
  <2>1. Served("poll") /\ \E rec : Steps("poll", rec)
    BY <1>1, <1>8, StateReadSteps, StatusReadSteps DEF StateRead, StatusRead
  <2>2. byHand' = byHand /\ autopilot' = autopilot /\ engine' = engine
    BY <1>8 DEF StateRead, StatusRead
  <2> QED BY <1>1, <2>1, <2>2, OthersServed
<1>9. ASSUME NEW w \in Junk, Act(w)
      PROVE  OneSetter(task["pilot"])' /\ Chosen' /\ HandChoiceStands'
  BY <1>9, ActHand
<1>10. CASE Flip \/ Move \/ Reconnect
  <2>1. engine'.junk_filter = engine.junk_filter
    BY <1>1, <1>10, FlipState DEF Move, Reconnect, Types, States
  <2> QED BY <1>10, <2>1, HandKept DEF Flip, Move, Reconnect
<1>11. CASE SwitchOn
  BY <1>11, HandOver DEF SwitchOn, HandInv
<1>12. CASE Lose
  <2>1. OneSetter(task["pilot"])' /\ task'["pilot"].at = "idle" /\ autopilot' = autopilot
    BY <1>12, CutPilot DEF Lose
  <2>2. CASE byHand' = None
    BY <2>1, <2>2, HandOver
  <2>3. CASE engine' = engine /\ byHand' = byHand
    BY <2>1, <2>3 DEF HandInv, Chosen, HandChoiceStands
  <2> QED BY <1>12, <2>2, <2>3 DEF Lose
<1> QED BY <1>2, <1>3, <1>4, <1>5, <1>6, <1>7, <1>8, <1>9, <1>10, <1>11, <1>12 DEF Next, Environment

LEMMA InitHand == Init => HandInv
<1>1. Init => Sound
  BY InitSound
<1>2. ASSUME Init PROVE OneSetter(task["pilot"]) /\ Chosen /\ HandChoiceStands
  BY <1>2, HandApart DEF Init, OneSetter, Idle, Chosen, HandChoiceStands
<1> QED BY <1>1, <1>2 DEF HandInv

\* The high-frequency filter chosen by hand is what the engine runs, whatever auto-pilot
\* had decided before and whoever else writes, until the choice is over.
THEOREM HandChoiceKept == Spec => []HandChoiceStands
<1>1. Init => HandInv
  BY InitHand
<1>2. HandInv /\ [Next]_vars => HandInv'
  <2> SUFFICES ASSUME HandInv, [Next]_vars PROVE HandInv'
    OBVIOUS
  <2>1. Sound'
    BY NextSound DEF HandInv
  <2>2. OneSetter(task["pilot"])' /\ Chosen' /\ HandChoiceStands'
    BY NextHand
  <2> QED BY <2>1, <2>2 DEF HandInv
<1>3. HandInv => HandChoiceStands
  BY DEF HandInv
<1> QED BY <1>1, <1>2, <1>3, PTL DEF Spec

-----------------------------------------------------------------------------
(* One writer, no [source] mode, no rescan: what the manager resolves against. *)

Alone == \A a, b \in Writers : a = b
NoSource == "auto" \notin Modes
NoRescan == MaxRescans = 0

\* A batch has switched the mode to m, and has not yet read the lists of its chain.
Switching(rec, m) ==
    /\ rec.for = "batch"
    /\ \/ rec.at = "check" /\ Head(rec.edits).setting = "mode" /\ Head(rec.edits).value = m
       \/ rec.at \in {"refresh", "lists"} /\ "mode" \in rec.done

\* The requests a writer has still to send until State and lists are those of the mode.
Owed(rec, m) ==
    IF rec.for = "chain" THEN 1
    ELSE IF ~Switching(rec, m) THEN 0
    ELSE IF rec.at = "check" THEN ListReads + 3
    ELSE IF rec.at = "refresh" THEN ListReads + 2
    ELSE rec.left + 1

\* The requests of the poll that are served before the last of those.
Lead(w) == IF Ahead("poll", w) THEN 1 ELSE 0
Slack(rec, m, lead) == Owed(rec, m) - 1 + lead

\* The requests of a heartbeat until it publishes the State it has read.
Due(p) == IF p.at = "lists" THEN p.left + 1 ELSE 1

\* Lists and State are those of the mode, but for a switch under way, and so is what
\* is being read of them, or it arrives before that switch is done.
ListsRight(m, r, w) == r.lists = m \/ Switching(w, m)
ListsToCome(m, w, p, lead) == p.at = "lists" => p.list \in {None, m} \/ p.left < Slack(w, m, lead)
StateRight(m, r, w) == IF r.state = None THEN w.for = "resync" ELSE r.state.mode = m \/ Owed(w, m) > 0
StateToCome(m, w, p, lead) ==
    p.for = "heartbeat" /\ p.at \in {"lists", "status"}
        => p.seen # None /\ (p.seen.mode = m \/ Due(p) <= Slack(w, m, lead))
OwnReads(m, w) == w.at = "lists" => w.list \in {None, m} /\ (w.for = "resync" => w.seen # None /\ w.seen.mode = m)

\* A setter stands for the values the batch names.
Means(op, p, m) ==
    IF p[1] \in Routable
    THEN ROUTABLE[p[1]].chain = m /\ Lists[m][op.value[ROUTABLE[p[1]].arg]] = p[2]
    ELSE op.value = p[2]
Apt(rec, m) ==
    rec.for = "batch" /\ rec.at \in {"set", "check"} =>
        \A i \in 1..Len(rec.edits) : \A p \in rec.named :
            Setting(p[1]) = rec.edits[i].setting => Means(rec.edits[i], p, m)

\* One value for a field.
OneEach(fs) == \A p, q \in fs : p[1] = q[1] => p = q

\* Where the requests of a writer and of the poll can be, and what they send.
Only(rec, s) == \A i \in 1..Len(rec.edits) : rec.edits[i].setting = s
Orderly(rec) ==
    /\ rec.at = "lists" => rec.left \in 1..ListReads
    /\ rec.at # "lists" => rec.list = None
    /\ rec.done \subseteq rec.tried
WriterShape(rec) ==
    /\ Orderly(rec)
    /\ \A i \in 1..Len(rec.edits) : rec.edits[i].setting = "mode" => Len(rec.edits) = 1
    /\ \A p \in rec.rest : p[1] # "mode"
    /\ OneEach(rec.rest)
    /\ \/ rec.for = "batch" /\ rec.at \in {"idle", "set", "check", "refresh", "lists"}
       \/ rec.for = "chain" /\ rec.at \in {"set", "check", "reread"} /\ Only(rec, "filter")
       \/ rec.for = "resync" /\ rec.at \in {"fetch", "lists"}
PollShape(rec) ==
    /\ Orderly(rec) /\ rec.rest = {} /\ Only(rec, "filter")
    /\ \/ rec.for = "batch" /\ rec.at = "idle"
       \/ rec.for = "heartbeat" /\ rec.at \in {"state", "lists", "status"}
       \/ rec.for = "chain" /\ rec.at \in {"lists", "set", "check", "reread"}

\* What holds of the mode m, the readings r, the writer w and the poll p.
Led(m, r, w, p, lead) ==
    /\ WriterShape(w) /\ PollShape(p)
    /\ ListsRight(m, r, w) /\ ListsToCome(m, w, p, lead)
    /\ StateRight(m, r, w) /\ StateToCome(m, w, p, lead)
    /\ OwnReads(m, w) /\ Apt(w, m)

LEMMA OwedTyped ==
    ASSUME NEW rec \in Formeds, NEW m
    PROVE  /\ ListReads \in Nat \ {0} /\ Owed(rec, m) \in Int /\ rec.left \in Int /\ Due(rec) \in Int
           /\ WriterShape(rec) => Owed(rec, m) >= 0
           /\ PollShape(rec) => Due(rec) >= 1 /\ Due(rec) <= ListReads + 1
  BY ReadsAssumption, RecordParts DEF Owed, Due, WriterShape, PollShape, Orderly, Switching

\* With one request left, or none, and none of the poll's before it, nothing under way is
\* of another mode.
LEMMA AllFresh ==
    ASSUME NEW m, NEW r \in Views, NEW w \in Formeds, NEW p \in Formeds, Led(m, r, w, p, 0), Owed(w, m) <= 1
    PROVE  /\ p.at = "lists" => p.list \in {None, m}
           /\ p.for = "heartbeat" /\ p.at \in {"lists", "status"} => p.seen # None /\ p.seen.mode = m
<1>1. Slack(w, m, 0) <= 0 /\ Slack(w, m, 0) \in Int
  BY OwedTyped DEF Slack
<1>2. p.at = "lists" => p.left >= 1
  BY DEF Led, PollShape, Orderly
<1>3. Due(p) >= 1 /\ Due(p) \in Int /\ p.left \in Int
  BY OwedTyped DEF Led
<1> QED BY <1>1, <1>2, <1>3 DEF Led, ListsToCome, StateToCome

\* The writer goes on, and the poll that waits is in front of it.
LEMMA WriterOn ==
    ASSUME NEW m, NEW r \in Views, NEW w \in Formeds, NEW p \in Formeds, Led(m, r, w, p, 0),
           NEW s \in Formeds, NEW lead \in {0, 1}, WriterShape(s),
           Owed(w, m) <= 1 \/ (Owed(s, m) >= Owed(w, m) - 1 /\ s.at # "idle"),
           p.at # "idle" /\ s.at # "idle" => lead = 1
    PROVE  ListsToCome(m, s, p, lead) /\ StateToCome(m, s, p, lead)
<1>1. CASE Owed(w, m) <= 1
  BY <1>1, AllFresh DEF ListsToCome, StateToCome
<1>2. CASE Owed(s, m) >= Owed(w, m) - 1 /\ s.at # "idle"
  <2>1. p.at \in {"lists", "status"} => Slack(s, m, lead) >= Slack(w, m, 0)
    BY <1>2, OwedTyped DEF Slack
  <2>2. Slack(s, m, lead) \in Int /\ Slack(w, m, 0) \in Int /\ p.left \in Int /\ Due(p) \in Int
    BY OwedTyped DEF Slack
  <2> QED BY <2>1, <2>2 DEF Led, ListsToCome, StateToCome
<1> QED BY <1>1, <1>2

\* A mode is switched: the whole of the switch is ahead.
LEMMA WriterSwitches ==
    ASSUME NEW p \in Formeds, PollShape(p), p.for = "heartbeat" /\ p.at \in {"lists", "status"} => p.seen # None,
           NEW n, NEW s \in Formeds, NEW lead \in {0, 1}, Owed(s, n) = ListReads + 3
    PROVE  ListsToCome(n, s, p, lead) /\ StateToCome(n, s, p, lead)
<1>1. Slack(s, n, lead) >= ListReads + 2 /\ Slack(s, n, lead) \in Int /\ ListReads \in Nat
  BY OwedTyped DEF Slack
<1>2. p.at = "lists" => p.left <= ListReads /\ p.left \in Int
  BY OwedTyped DEF PollShape, Orderly
<1>3. Due(p) <= ListReads + 1 /\ Due(p) \in Int
  BY OwedTyped
<1> QED BY <1>1, <1>2, <1>3 DEF ListsToCome, StateToCome

-----------------------------------------------------------------------------
(* What a batch resolves to.                                                *)

Op(s, v) == [setting |-> s, value |-> v]
ValueOf(fs, f) == (CHOOSE p \in fs : p[1] = f)[2]

LEMMA SettersOf ==
    ASSUME NEW r, NEW fs
    PROVE  /\ (\A p \in fs : p[1] = "mode") /\ fs # {} => Setters(r, fs) = <<Op("mode", ValueOf(fs, "mode"))>>
           /\ (\A p \in fs : p[1] # "mode") =>
                Setters(r, fs) =
                  IF \E p \in fs : p[1] \in Routable
                  THEN IF \E p \in fs : p[1] = "junk_filter"
                       THEN <<Op("filter", FilterPair(r, fs)), Op("junk_filter", ValueOf(fs, "junk_filter"))>>
                       ELSE <<Op("filter", FilterPair(r, fs))>>
                  ELSE IF \E p \in fs : p[1] = "junk_filter"
                       THEN <<Op("junk_filter", ValueOf(fs, "junk_filter"))>>
                       ELSE <<>>
<1> DEFINE M == Op("mode", ValueOf(fs, "mode"))
           F == Op("filter", FilterPair(r, fs))
           J == Op("junk_filter", ValueOf(fs, "junk_filter"))
<1>1. Setters(r, fs) = (IF \E p \in fs : p[1] = "mode" THEN <<M>> ELSE <<>>)
                       \o (IF \E p \in fs : p[1] \in Routable THEN <<F>> ELSE <<>>)
                       \o (IF \E p \in fs : p[1] = "junk_filter" THEN <<J>> ELSE <<>>)
  BY DEF Setters, Op, ValueOf
<1> HIDE DEF M, F, J
<1>2. /\ <<M>> \o <<>> \o <<>> = <<M>> /\ <<>> \o <<F>> \o <<>> = <<F>> /\ <<>> \o <<>> \o <<J>> = <<J>>
      /\ <<>> \o <<F>> \o <<J>> = <<F, J>> /\ <<>> \o <<>> \o <<>> = <<>>
  <2>1. <<M>> \o <<>> \o <<>> = <<M>> /\ <<>> \o <<F>> \o <<>> = <<F>>
    OBVIOUS
  <2>2. <<>> \o <<>> \o <<J>> = <<J>> /\ <<>> \o <<>> \o <<>> = <<>>
    OBVIOUS
  <2>3. <<>> \o <<F>> = <<F>>
    OBVIOUS
  <2>4. <<F>> \o <<J>> = <<F, J>>
    <3>1. <<F>> \in Seq({F, J}) /\ <<F, J>> = Append(<<F>>, J) /\ J \in {F, J}
      OBVIOUS
    <3> QED BY <3>1, AppendIsConcat
  <2> QED BY <2>1, <2>2, <2>3, <2>4
<1>3. ASSUME \A p \in fs : p[1] = "mode", fs # {} PROVE Setters(r, fs) = <<M>>
  <2>1. (\E p \in fs : p[1] = "mode") /\ ~(\E p \in fs : p[1] \in Routable) /\ ~(\E p \in fs : p[1] = "junk_filter")
    BY <1>3, RoutableFields
  <2> QED BY <1>1, <1>2, <2>1
<1>4. ASSUME \A p \in fs : p[1] # "mode"
      PROVE  Setters(r, fs) = IF \E p \in fs : p[1] \in Routable
                              THEN IF \E p \in fs : p[1] = "junk_filter" THEN <<F, J>> ELSE <<F>>
                              ELSE IF \E p \in fs : p[1] = "junk_filter" THEN <<J>> ELSE <<>>
  <2>1. ~\E p \in fs : p[1] = "mode"
    BY <1>4
  <2> QED BY <1>1, <1>2, <2>1
<1> QED BY <1>3, <1>4 DEF M, F, J

\* The pair sent for fields of the chain whose lists were read: their IDs, and State's
\* half where none is named.
LEMMA PairMeans ==
    ASSUME NEW m \in Chains, NEW r \in Views, r.lists = m, NEW fs \in SUBSET Fields, Resolves(r, fs), OneEach(fs),
           \A p \in fs : p[1] \in Routable => ROUTABLE[p[1]].chain = m
    PROVE  /\ \A p \in fs : p[1] \in Routable => Lists[m][FilterPair(r, fs)[ROUTABLE[p[1]].arg]] = p[2]
           /\ \A a \in Arguments : HalfNamed(a, fs) \/ FilterPair(r, fs)[a] = r.state.filter[a]
<1>1. ASSUME NEW p \in fs, p[1] \in Routable
      PROVE  Lists[m][FilterPair(r, fs)[ROUTABLE[p[1]].arg]] = p[2]
  <2> DEFINE a == ROUTABLE[p[1]].arg
             q == CHOOSE x \in fs : x[1] \in Routable /\ ROUTABLE[x[1]].arg = a
  <2>1. a \in Arguments /\ HalfNamed(a, fs)
    BY <1>1, RoutableFields DEF HalfNamed
  <2>2. q \in fs /\ q[1] \in Routable /\ ROUTABLE[q[1]].arg = a
    BY <2>1 DEF HalfNamed
  <2>3. FilterPair(r, fs)[a] = IndexOf(r, q[2])
    BY <2>1 DEF FilterPair
  <2> HIDE DEF q
  <2>4. ROUTABLE[q[1]].chain = ROUTABLE[p[1]].chain
    BY <1>1, <2>2
  <2>5. q[1] = p[1]
    BY <1>1, <2>2, <2>4, RoutableFields DEF ROUTABLE
  <2>6. q = p
    BY <2>2, <2>5 DEF OneEach
  <2>7. IndexOf(r, p[2]) # 0
    BY <1>1, RoutableFields DEF Resolves
  <2> QED BY <2>3, <2>6, <2>7, IndexOfListed
<1>2. ASSUME NEW a \in Arguments, ~HalfNamed(a, fs) PROVE FilterPair(r, fs)[a] = r.state.filter[a]
  BY <1>2 DEF FilterPair
<1> QED BY <1>1, <1>2

\* The setters of such a batch stand for what it names.
LEMMA SettersMean ==
    ASSUME NEW m \in Chains, NEW r \in Views, r.lists = m, NEW fs \in SUBSET Fields, Resolves(r, fs), OneEach(fs),
           \A p \in fs : p[1] \in Routable => ROUTABLE[p[1]].chain = m,
           (\E p \in fs : p[1] = "mode") => \A p \in fs : p[1] = "mode"
    PROVE  \A i \in 1..Len(Setters(r, fs)) :
              /\ Setters(r, fs)[i].setting = "mode" => Len(Setters(r, fs)) = 1
              /\ \A p \in fs : Setting(p[1]) = Setters(r, fs)[i].setting => Means(Setters(r, fs)[i], p, m)
<1> DEFINE M == Op("mode", ValueOf(fs, "mode"))
           F == Op("filter", FilterPair(r, fs))
           J == Op("junk_filter", ValueOf(fs, "junk_filter"))
           ss == Setters(r, fs)
<1>1. \A p \in fs : p[1] \in Routable => p[1] # "mode" /\ p[1] # "junk_filter" /\ Setting(p[1]) = "filter"
  BY RoutableFields DEF Setting
<1>2. \A p \in fs : p[1] \notin Routable => p[1] \in {"mode", "junk_filter"} /\ Setting(p[1]) = p[1]
  BY FieldIsNamed DEF Setting, FieldNames
<1>3. \A p \in fs : p[1] \in {"mode", "junk_filter"} => p[2] = ValueOf(fs, p[1])
  BY DEF ValueOf, OneEach
<1>4. M.setting = "mode" /\ F.setting = "filter" /\ J.setting = "junk_filter" /\ M.value = ValueOf(fs, "mode")
      /\ F.value = FilterPair(r, fs) /\ J.value = ValueOf(fs, "junk_filter")
  BY DEF Op
<1>5. ss \in {<<M>>, <<F, J>>, <<F>>, <<J>>, <<>>}
  <2>1. CASE fs # {} /\ \A p \in fs : p[1] = "mode"
    BY <2>1, SettersOf
  <2>2. CASE \A p \in fs : p[1] # "mode"
    BY <2>2, SettersOf
  <2> QED BY <2>1, <2>2
<1> HIDE DEF M, F, J, ss
<1>6. ASSUME NEW i \in 1..Len(ss) PROVE ss[i] \in {M, F, J} /\ (ss[i] = M => ss = <<M>>)
  <2>1. M # F /\ M # J
    BY <1>4
  <2> QED BY <1>5, <2>1
<1>7. ASSUME NEW op \in {M, F, J}, NEW p \in fs, Setting(p[1]) = op.setting PROVE Means(op, p, m)
  <2>1. CASE p[1] \in Routable
    <3>1. op = F
      BY <1>1, <1>4, <1>7, <2>1
    <3>2. Lists[m][FilterPair(r, fs)[ROUTABLE[p[1]].arg]] = p[2]
      BY <2>1, PairMeans
    <3> QED BY <1>4, <2>1, <3>1, <3>2 DEF Means
  <2>2. CASE p[1] \notin Routable
    <3>1. op.value = p[2]
      BY <1>2, <1>3, <1>4, <1>7, <2>2
    <3> QED BY <2>2, <3>1 DEF Means
  <2> QED BY <2>1, <2>2
<1>8. ASSUME NEW i \in 1..Len(ss), ss[i].setting = "mode" PROVE Len(ss) = 1
  <2>1. ss[i] = M
    BY <1>4, <1>6, <1>8
  <2> QED BY <1>6, <2>1
<1> QED BY <1>6, <1>7, <1>8 DEF ss

\* A batch that is refused, or sets out with nothing of it sent.
SetsOut(s, m) ==
    /\ WriterShape(s) /\ Apt(s, m)
    /\ s.for = "batch" /\ s.at \in {"idle", "set", "refresh"}

LEMMA IdleSetsOut == \A m : SetsOut(Idle, m)
<1>1. /\ Idle.at = "idle" /\ Idle.for = "batch" /\ Idle.edits = <<>> /\ Idle.tried = {} /\ Idle.done = {}
      /\ Idle.rest = {} /\ Idle.list = None
  BY DEF Idle
<1>2. WriterShape(Idle)
  BY <1>1 DEF WriterShape, Orderly, OneEach
<1> QED BY <1>1, <1>2 DEF SetsOut, Apt

\* Of what a batch names, the fields that are sent.
Live(r, fs) == fs \ {p \in fs : OffChain(r, p)}

LEMMA StartedRecord ==
    ASSUME NEW r, NEW rec, NEW fs, NEW more, NEW s, s = Started(r, rec, fs, more), NEW live, live = Live(r, fs)
    PROVE  \/ s = Idle
           \/ /\ Resolves(r, live)
              /\ s.at = IF live = {} THEN "refresh" ELSE "set"
              /\ s.for = "batch" /\ s.edits = Setters(r, live) /\ s.tried = {} /\ s.done = {}
              /\ s.named = live /\ s.rest = more /\ s.list = None /\ s.landed = rec.landed
<1> DEFINE out == {p \in fs : OffChain(r, p)}
           at == IF live = {} THEN "refresh" ELSE "set"
           ss == Setters(r, live)
           snap == rec.snap
           landed == rec.landed
           res == [Idle EXCEPT !.at = at, !.edits = ss, !.named = live, !.held = out, !.rest = more, !.snap = snap,
                             !.landed = landed]
<1>1. CASE ~Resolves(r, live)
  BY <1>1 DEF Started, Live
<1>2. CASE Resolves(r, live)
  <2>1. s = res
    BY <1>2 DEF Started, Live
  <2> HIDE DEF at, ss, out, snap, landed
  <2>2. /\ res.at = at /\ res.for = "batch" /\ res.edits = ss /\ res.tried = {} /\ res.done = {}
        /\ res.named = live /\ res.rest = more /\ res.list = None /\ res.landed = landed
    BY DEF Idle
  <2> QED BY <1>2, <2>1, <2>2 DEF at, ss, landed
<1> QED BY <1>1, <1>2

LEMMA StartedSetsOut ==
    ASSUME NEW m \in Chains, NEW k \in Views, k.lists = m, k.state # None, k.state.mode = m,
           NEW rec, NEW fs \in SUBSET Fields, NEW more \in SUBSET Fields, OneEach(fs), OneEach(more),
           (\E p \in fs : p[1] = "mode") => \A p \in fs : p[1] = "mode", \A p \in more : p[1] # "mode"
    PROVE  SetsOut(Started(k, rec, fs, more), m)
<1> DEFINE live == Live(k, fs)
           s == Started(k, rec, fs, more)
<1>1. ActiveChain(k) = m
  BY DEF ActiveChain
<1>2. /\ live \in SUBSET Fields /\ OneEach(live)
      /\ \A p \in live : p[1] \in Routable => ROUTABLE[p[1]].chain = m
      /\ (\E p \in live : p[1] = "mode") => \A p \in live : p[1] = "mode"
  BY <1>1 DEF OneEach, OffChain, Live
<1>3. \/ s = Idle
      \/ /\ Resolves(k, live)
         /\ s.at = IF live = {} THEN "refresh" ELSE "set"
         /\ s.for = "batch" /\ s.edits = Setters(k, live) /\ s.tried = {} /\ s.done = {}
         /\ s.named = live /\ s.rest = more /\ s.list = None
  BY StartedRecord
<1> HIDE DEF live, s
<1>4. CASE s = Idle
  BY <1>4, IdleSetsOut DEF s
<1>5. CASE s # Idle
  <2>1. \A i \in 1..Len(s.edits) :
              /\ s.edits[i].setting = "mode" => Len(s.edits) = 1
              /\ \A p \in live : Setting(p[1]) = s.edits[i].setting => Means(s.edits[i], p, m)
    BY <1>2, <1>3, <1>5, SettersMean
  <2>2. WriterShape(s)
    BY <1>3, <1>5, <2>1 DEF WriterShape, Orderly
  <2>3. Apt(s, m)
    BY <1>3, <1>5, <2>1 DEF Apt
  <2> QED BY <1>3, <1>5, <2>2, <2>3 DEF SetsOut, s
<1> QED BY <1>4, <1>5

\* So does a preset, its mode before the rest of it.
LEMMA RoutedSetsOut ==
    ASSUME NEW m \in Chains, NEW k \in Views, k.lists = m, k.state # None, k.state.mode = m,
           NEW rec, NEW fs \in SUBSET Fields, OneEach(fs)
    PROVE  SetsOut(Routed(k, rec, fs), m)
<1> DEFINE mode == {p \in fs : p[1] = "mode"}
           rest == fs \ mode
<1>1. /\ mode \in SUBSET Fields /\ rest \in SUBSET Fields /\ {} \in SUBSET Fields
      /\ OneEach(mode) /\ OneEach(rest) /\ OneEach({})
      /\ (\A p \in mode : p[1] = "mode") /\ (\A p \in rest : p[1] # "mode")
  BY DEF OneEach
<1>2. \/ (mode = {} \/ mode = fs) /\ Routed(k, rec, fs) = Started(k, rec, fs, {})
      \/ Routed(k, rec, fs) = Started(k, rec, rest, {})
      \/ Routed(k, rec, fs) = Started(k, rec, mode, rest)
  BY DEF Routed
<1>3. CASE (mode = {} \/ mode = fs) /\ Routed(k, rec, fs) = Started(k, rec, fs, {})
  <2>1. (\E p \in fs : p[1] = "mode") => \A p \in fs : p[1] = "mode"
    BY <1>3
  <2> HIDE DEF mode, rest
  <2> QED BY <1>1, <1>3, <2>1, StartedSetsOut
<1> HIDE DEF mode, rest
<1>4. CASE Routed(k, rec, fs) = Started(k, rec, rest, {})
  BY <1>1, <1>4, StartedSetsOut
<1>5. CASE Routed(k, rec, fs) = Started(k, rec, mode, rest)
  BY <1>1, <1>5, StartedSetsOut
<1> QED BY <1>2, <1>3, <1>4, <1>5

-----------------------------------------------------------------------------
(* A request of the writer.                                                 *)

\* The writer starts afresh, or is done, with State and lists those of the mode.
LEMMA WriterSetsOut ==
    ASSUME NEW m, NEW r \in Views, NEW w \in Formeds, NEW p \in Formeds, Led(m, r, w, p, 0), Owed(w, m) <= 1,
           NEW k \in Views, k.lists = m, k.state # None, k.state.mode = m,
           NEW s \in Formeds, SetsOut(s, m),
           NEW lead \in {0, 1}, p.at # "idle" /\ s.at # "idle" => lead = 1
    PROVE  Led(m, k, s, p, lead)
<1>1. ListsToCome(m, s, p, lead) /\ StateToCome(m, s, p, lead)
  BY WriterOn DEF SetsOut
<1> QED BY <1>1 DEF Led, SetsOut, ListsRight, StateRight, OwnReads

\* A setter took, or was ignored.
LEMMA WriterSets ==
    ASSUME NEW m, NEW r \in Views, NEW w \in Formeds, NEW p \in Formeds, Led(m, r, w, p, 0), w.at = "set",
           NEW n, n # m => (Head(w.edits).setting = "mode" /\ n = Head(w.edits).value),
           NEW s, s = [w EXCEPT !.at = "check"], NEW lead \in {0, 1}, p.at # "idle" => lead = 1
    PROVE  Led(n, r, s, p, lead)
<1>1. s \in Formeds
  BY PlacedFormed, RecordParts DEF Formed
<1>2. /\ s.at = "check" /\ s.for = w.for /\ s.edits = w.edits /\ s.tried = w.tried /\ s.done = w.done
      /\ s.named = w.named /\ s.rest = w.rest /\ s.list = w.list /\ s.seen = w.seen
  BY DEF Formeds, Records
<1>3. Len(w.edits) \in Nat \ {0} /\ Head(w.edits) = w.edits[1] /\ 1 \in 1..Len(w.edits)
  BY RecordParts DEF Formed
<1>4. w.for \in {"batch", "chain"} /\ Owed(w, m) <= 1 /\ (w.for = "chain" => Owed(w, m) = 1) /\ (w.for = "batch" => Owed(w, m) = 0)
  BY DEF Led, WriterShape, Owed, Switching
<1>5. r.lists = m /\ r.state # None
  BY <1>4 DEF Led, ListsRight, StateRight, Switching
<1>6. WriterShape(s)
  BY <1>2 DEF Led, WriterShape, Orderly, Only
<1>7. Apt(s, n)
  <2>1. ASSUME s.for = "batch", NEW i \in 1..Len(s.edits), NEW q \in s.named, Setting(q[1]) = s.edits[i].setting
        PROVE  Means(s.edits[i], q, n)
    <3>1. Means(w.edits[i], q, m)
      BY <1>2, <2>1 DEF Led, Apt
    <3>2. CASE n = m
      BY <1>2, <3>1, <3>2
    <3>3. CASE n # m
      <4>1. Len(w.edits) = 1
        BY <1>3, <3>3 DEF Led, WriterShape
      <4>2. i = 1
        BY <1>2, <2>1, <4>1
      <4>3. q[1] \notin Routable
        BY <1>2, <1>3, <2>1, <3>3, <4>2 DEF Setting
      <4> QED BY <1>2, <3>1, <4>3 DEF Means
    <3> QED BY <3>2, <3>3
  <2> QED BY <2>1 DEF Apt
<1>8. CASE Switching(s, n)
  <2>1. Owed(s, n) = ListReads + 3
    BY <1>2, <1>8 DEF Owed, Switching
  <2>4. s.for = "batch" /\ Owed(w, m) <= 1
    BY <1>4, <1>8 DEF Switching
  <2>2. ListsToCome(n, s, p, lead) /\ StateToCome(n, s, p, lead)
    <3>1. PollShape(p) /\ (p.for = "heartbeat" /\ p.at \in {"lists", "status"} => p.seen # None)
      BY DEF Led, StateToCome
    <3> QED BY <1>1, <2>1, <3>1, WriterSwitches
  <2>3. Owed(s, n) > 0
    BY <2>1, ReadsAssumption
  <2> QED BY <1>2, <1>5, <1>6, <1>7, <1>8, <2>2, <2>3, <2>4 DEF Led, ListsRight, StateRight, OwnReads
<1>9. CASE ~Switching(s, n)
  <2>1. n = m
    <3>1. ASSUME n # m PROVE FALSE
      <4>1. Only(w, "filter") => Head(w.edits).setting = "filter"
        BY <1>3 DEF Only
      <4>2. w.for = "batch"
        BY <1>4, <3>1, <4>1 DEF Led, WriterShape
      <4> QED BY <1>2, <1>9, <3>1, <4>2 DEF Switching
    <3> QED BY <3>1
  <2>2. Owed(s, m) = Owed(w, m)
    BY <1>2, <1>4, <1>9, <2>1 DEF Owed
  <2>3. ListsToCome(m, s, p, lead) /\ StateToCome(m, s, p, lead)
    BY <1>1, <1>4, <1>6, WriterOn
  <2> QED BY <1>2, <1>5, <1>6, <1>7, <2>1, <2>2, <2>3 DEF Led, ListsRight, StateRight, OwnReads
<1> QED BY <1>8, <1>9

\* A setter is read back.
LEMMA WriterChecks ==
    ASSUME NEW m, NEW r \in Views, NEW w \in Formeds, NEW p \in Formeds, Led(m, r, w, p, 0), w.at = "check",
           NEW s \in Formeds, s.at = (IF Tail(w.edits) = <<>> THEN Sent(w) ELSE "set"),
           s.for = w.for, s.edits = Tail(w.edits), s.named = w.named, s.rest = w.rest, s.list = w.list,
           w.done \subseteq s.done, s.done \subseteq s.tried,
           Switching(w, m) => "mode" \in s.done,
           NEW lead \in {0, 1}, p.at # "idle" => lead = 1
    PROVE  Led(m, r, s, p, lead)
<1>1. /\ Len(w.edits) \in Nat \ {0} /\ Head(w.edits) = w.edits[1] /\ Len(s.edits) = Len(w.edits) - 1
      /\ \A i \in 1..Len(s.edits) : i + 1 \in 1..Len(w.edits) /\ s.edits[i] = w.edits[i + 1]
      /\ Tail(w.edits) = <<>> <=> Len(w.edits) = 1
  <2>1. w.edits \in Seq(Ops) /\ w.edits # <<>>
    BY RecordParts DEF Formed
  <2>2. /\ Len(w.edits) \in Nat \ {0} /\ Head(w.edits) = w.edits[1] /\ Len(s.edits) = Len(w.edits) - 1
        /\ s.edits \in Seq(Ops)
    BY <2>1
  <2>3. \A i \in 1..Len(s.edits) : i + 1 \in 1..Len(w.edits) /\ s.edits[i] = w.edits[i + 1]
    BY <2>1, <2>2
  <2>4. s.edits = <<>> <=> Len(s.edits) = 0
    BY <2>2, EmptySeq
  <2> QED BY <2>2, <2>3, <2>4
<1>2. w.for \in {"batch", "chain"} /\ WriterShape(w)
  BY DEF Led, WriterShape
<1>3. s.at \in {"set", "refresh", "reread"} /\ (s.at = "refresh" => s.for = "batch") /\ (s.at = "reread" => s.for = "chain")
  BY <1>2 DEF Sent
<1>4. WriterShape(s)
  <2>1. Orderly(s)
    BY <1>2, <1>3 DEF WriterShape, Orderly
  <2>2. ASSUME NEW i \in 1..Len(s.edits) PROVE s.edits[i].setting # "mode"
    <3>1. i + 1 \in 1..Len(w.edits) /\ i + 1 # 1 /\ Len(w.edits) # 1
      BY <1>1, <2>2
    <3> QED BY <1>1, <1>2, <3>1 DEF WriterShape
  <2>3. Only(w, "filter") => Only(s, "filter")
    BY <1>1 DEF Only
  <2> QED BY <1>2, <1>3, <2>1, <2>2, <2>3 DEF WriterShape
<1>5. Apt(s, m)
  <2>1. ASSUME s.for = "batch", NEW i \in 1..Len(s.edits), NEW q \in s.named, Setting(q[1]) = s.edits[i].setting
        PROVE  Means(s.edits[i], q, m)
    <3>1. i + 1 \in 1..Len(w.edits) /\ s.edits[i] = w.edits[i + 1]
      BY <1>1, <2>1
    <3> QED BY <2>1, <3>1 DEF Led, Apt
  <2> QED BY <2>1 DEF Apt
<1>6. CASE Switching(w, m)
  <2>1. Len(w.edits) = 1 /\ w.for = "batch"
    <3>1. w.edits[1].setting = "mode" /\ 1 \in 1..Len(w.edits)
      BY <1>1, <1>6 DEF Switching
    <3> QED BY <1>2, <1>6, <3>1 DEF WriterShape, Switching
  <2>2. s.at = "refresh" /\ s.for = "batch" /\ Switching(s, m)
    BY <1>1, <1>6, <2>1 DEF Sent, Switching
  <2>3. Owed(w, m) = ListReads + 3 /\ Owed(s, m) = ListReads + 2
    BY <1>6, <2>1, <2>2 DEF Owed
  <2>4. Owed(s, m) >= Owed(w, m) - 1 /\ Owed(s, m) > 0
    BY <2>3, ReadsAssumption
  <2>5. ListsToCome(m, s, p, lead) /\ StateToCome(m, s, p, lead)
    BY <1>4, <2>2, <2>4, WriterOn
  <2>6. r.state # None
    BY <2>1 DEF Led, StateRight
  <2> QED BY <1>4, <1>5, <2>2, <2>4, <2>5, <2>6 DEF Led, ListsRight, StateRight, OwnReads
<1>7. CASE ~Switching(w, m)
  <2>1. Owed(w, m) <= 1 /\ (w.for = "batch" => Owed(w, m) = 0) /\ (w.for = "chain" => Owed(s, m) = 1)
    BY <1>2, <1>7 DEF Owed
  <2>2. ListsToCome(m, s, p, lead) /\ StateToCome(m, s, p, lead)
    BY <1>3, <1>4, <2>1, WriterOn
  <2>3. r.lists = m
    BY <1>7 DEF Led, ListsRight
  <2>4. r.state # None /\ (r.state.mode = m \/ Owed(s, m) > 0)
    BY <1>2, <2>1 DEF Led, StateRight
  <2> QED BY <1>3, <1>4, <1>5, <2>2, <2>3, <2>4 DEF Led, ListsRight, StateRight, OwnReads
<1> QED BY <1>6, <1>7

\* State is read again, or for the first time: the enumeration is next.
LEMMA WriterLists ==
    ASSUME NEW m, NEW r \in Views, NEW w \in Formeds, NEW p \in Formeds, Led(m, r, w, p, 0), w.at \in {"refresh", "fetch"},
           NEW k \in Views, k.lists = r.lists, k.state # r.state => (k.state # None /\ k.state.mode = m),
           NEW s \in Formeds, s.at = "lists", s.left = ListReads, s.list = None, s.for = w.for, s.edits = w.edits,
           s.tried = w.tried, s.done = w.done, s.rest = w.rest,
           s.for = "resync" => (s.seen # None /\ s.seen.mode = m),
           NEW lead \in {0, 1}, p.at # "idle" => lead = 1
    PROVE  Led(m, k, s, p, lead)
<1>1. w.for \in {"batch", "resync"} /\ WriterShape(w) /\ ListReads \in Nat \ {0}
  BY ReadsAssumption DEF Led, WriterShape
<1>2. WriterShape(s)
  BY <1>1 DEF WriterShape, Orderly, Only, Led
<1>3. Switching(s, m) <=> Switching(w, m)
  BY <1>1 DEF Switching, Led, WriterShape
<1>7. IF Switching(w, m) THEN Owed(w, m) = ListReads + 2 /\ Owed(s, m) = ListReads + 1 ELSE Owed(w, m) = 0 /\ Owed(s, m) = 0
  <2>1. Switching(w, m) => w.at = "refresh"
    BY DEF Switching
  <2> QED BY <1>1, <1>3, <2>1 DEF Owed
<1>4. s.at # "idle" /\ (Owed(w, m) <= 1 \/ Owed(s, m) >= Owed(w, m) - 1) /\ (Owed(w, m) > 0 => Owed(s, m) > 0)
  BY <1>1, <1>7
<1>5. ListsToCome(m, s, p, lead) /\ StateToCome(m, s, p, lead)
  BY <1>2, <1>4, WriterOn
<1>6. Owed(w, m) > 0 => Owed(s, m) > 0
  BY <1>4
<1> QED BY <1>2, <1>3, <1>5, <1>6 DEF Led, ListsRight, StateRight, OwnReads, Apt

\* One request of the enumeration, not the last.
LEMMA WriterListing ==
    ASSUME NEW m, NEW r \in Views, NEW w \in Formeds, NEW p \in Formeds, Led(m, r, w, p, 0), w.at = "lists", w.left > 1,
           NEW s \in Formeds, s.at = "lists", s.left = w.left - 1, s.list = m, s.for = w.for, s.edits = w.edits,
           s.tried = w.tried, s.done = w.done, s.rest = w.rest, s.seen = w.seen,
           NEW lead \in {0, 1}, p.at # "idle" => lead = 1
    PROVE  Led(m, r, s, p, lead)
<1>1. w.for \in {"batch", "resync"} /\ WriterShape(w) /\ w.left \in Int /\ w.left <= ListReads
  BY RecordParts DEF Led, WriterShape, Orderly
<1>2. WriterShape(s)
  BY <1>1, ReadsAssumption DEF WriterShape, Orderly, Only
<1>3. Switching(s, m) = Switching(w, m)
  BY DEF Switching
<1>4. Owed(w, m) <= 1 \/ Owed(s, m) >= Owed(w, m) - 1
  BY <1>1, <1>3 DEF Owed
<1>5. ListsToCome(m, s, p, lead) /\ StateToCome(m, s, p, lead)
  BY <1>2, <1>4, WriterOn
<1>6. Owed(w, m) > 0 => Owed(s, m) > 0
  BY <1>1, <1>3 DEF Owed
<1> QED BY <1>2, <1>3, <1>5, <1>6 DEF Led, ListsRight, StateRight, OwnReads, Apt

\* The enumeration is over and what is held for the chain entered goes out.
LEMMA WriterReasserts ==
    ASSUME NEW m, NEW r \in Views, NEW w \in Formeds, NEW p \in Formeds, Led(m, r, w, p, 0),
           w.at = "lists", w.for = "batch", w.left = 1, "mode" \in w.done,
           NEW k \in Views, k.lists = m, k.state = r.state,
           NEW s \in Formeds, s.at \in {"set", "reread"}, s.for = "chain", s.list = None, Only(s, "filter"),
           s.tried = w.tried, s.done = w.done, s.rest = w.rest,
           NEW lead \in {0, 1}, p.at # "idle" => lead = 1
    PROVE  Led(m, k, s, p, lead)
<1>1. WriterShape(s)
  BY DEF WriterShape, Orderly, Only, Led
<1>2. Owed(w, m) = 2 /\ Owed(s, m) = 1
  BY DEF Owed, Switching
<1>5. Owed(s, m) >= Owed(w, m) - 1 /\ s.at # "idle" /\ (p.at # "idle" /\ s.at # "idle" => lead = 1)
  BY <1>2
<1>3. ListsToCome(m, s, p, lead) /\ StateToCome(m, s, p, lead)
  BY <1>1, <1>5, WriterOn
<1>4. k.state # None
  BY DEF Led, StateRight
<1> QED BY <1>1, <1>2, <1>3, <1>4 DEF Led, ListsRight, StateRight, OwnReads, Apt

-----------------------------------------------------------------------------
(* A request of the poll.                                                   *)

\* What is ahead of the poll's x-th request is not the writer's last.
LEMMA PollAhead ==
    ASSUME NEW m, NEW w \in Formeds, WriterShape(w), NEW lead \in {0, 1}, w.at # "idle" => lead = 1,
           NEW x \in Nat \ {0}, x <= Slack(w, m, lead)
    PROVE  Slack(w, m, 0) = Slack(w, m, lead) - 1 /\ Owed(w, m) >= x
<1>1. w.at = "idle" => Owed(w, m) = 0
  BY DEF Owed, Switching, WriterShape
<1>2. Owed(w, m) \in Int
  BY OwedTyped
<1> QED BY <1>1, <1>2 DEF Slack

LEMMA OwedSwitches ==
    ASSUME NEW m, NEW w \in Formeds, Owed(w, m) >= 2
    PROVE  Switching(w, m)
  BY DEF Owed

\* One request of the enumeration, not the last.
LEMMA PollListing ==
    ASSUME NEW m, NEW r \in Views, NEW w \in Formeds, NEW p \in Formeds, NEW lead \in {0, 1}, Led(m, r, w, p, lead),
           w.at # "idle" => lead = 1, p.at = "lists", p.left > 1,
           NEW s \in Formeds, s.at = "lists", s.left = p.left - 1, s.list = (IF p.list = None THEN m ELSE p.list),
           s.for = p.for, s.edits = p.edits, s.tried = p.tried, s.done = p.done, s.rest = p.rest, s.seen = p.seen
    PROVE  Led(m, r, w, s, 0)
<1>1. PollShape(p) /\ WriterShape(w) /\ p.left \in Int /\ p.left <= ListReads /\ ListReads \in Nat
  BY ReadsAssumption, RecordParts DEF Led, PollShape, Orderly
<1>2. PollShape(s)
  BY <1>1 DEF PollShape, Orderly, Only
<1>3. Slack(w, m, lead) \in Int /\ Slack(w, m, 0) \in Int
  BY OwedTyped DEF Slack
<1>4. ListsToCome(m, w, s, 0)
  <2>1. CASE p.list \in {None, m}
    BY <2>1 DEF ListsToCome
  <2>2. CASE p.list \notin {None, m}
    <3>1. p.left < Slack(w, m, lead)
      BY <2>2 DEF Led, ListsToCome
    <3>2. p.left \in Nat \ {0} /\ p.left <= Slack(w, m, lead)
      BY <1>1, <1>3, <3>1
    <3>3. Slack(w, m, 0) = Slack(w, m, lead) - 1
      BY <1>1, <3>2, PollAhead
    <3>4. s.left < Slack(w, m, 0)
      BY <1>1, <1>3, <3>1, <3>3
    <3> QED BY <3>4 DEF ListsToCome
  <2> QED BY <2>1, <2>2
<1>5. StateToCome(m, w, s, 0)
  <2> SUFFICES ASSUME p.for = "heartbeat" PROVE s.seen # None /\ (s.seen.mode = m \/ Due(s) <= Slack(w, m, 0))
    BY DEF StateToCome
  <2>1. p.seen # None /\ (p.seen.mode = m \/ Due(p) <= Slack(w, m, lead))
    BY DEF Led, StateToCome
  <2>2. Due(p) = p.left + 1 /\ Due(s) = p.left
    BY <1>1 DEF Due
  <2>3. ASSUME Due(p) <= Slack(w, m, lead) PROVE Due(s) <= Slack(w, m, 0)
    <3>1. Due(p) \in Nat \ {0}
      BY <1>1, <2>2
    <3>2. Slack(w, m, 0) = Slack(w, m, lead) - 1
      BY <1>1, <2>3, <3>1, PollAhead
    <3> QED BY <1>1, <1>3, <2>2, <2>3, <3>2
  <2> QED BY <2>1, <2>3
<1> QED BY <1>2, <1>4, <1>5 DEF Led

\* The last request of it: the lists read are those of the mode, or a switch is under way.
LEMMA PollListed ==
    ASSUME NEW m, NEW r \in Views, NEW w \in Formeds, NEW p \in Formeds, NEW lead \in {0, 1}, Led(m, r, w, p, lead),
           w.at # "idle" => lead = 1, p.at = "lists", p.left = 1
    PROVE  /\ p.list \in {None, m} \/ Switching(w, m)
           /\ p.for = "heartbeat" => p.seen # None /\ (p.seen.mode = m \/ 1 <= Slack(w, m, 0))
<1>1. WriterShape(w) /\ Slack(w, m, lead) \in Int /\ Slack(w, m, 0) \in Int /\ Owed(w, m) \in Int
  BY OwedTyped DEF Slack, Led
<1>2. ASSUME 2 <= Slack(w, m, lead) PROVE Switching(w, m) /\ 1 <= Slack(w, m, 0)
  <2>1. 2 \in Nat \ {0}
    OBVIOUS
  <2>2. Slack(w, m, 0) = Slack(w, m, lead) - 1 /\ Owed(w, m) >= 2
    BY <1>1, <1>2, <2>1, PollAhead
  <2> QED BY <1>1, <1>2, <2>2, OwedSwitches
<1>3. Due(p) = 2
  BY DEF Due
<1>4. p.list \in {None, m} \/ 2 <= Slack(w, m, lead)
  BY <1>1 DEF Led, ListsToCome
<1>5. p.for = "heartbeat" => p.seen # None /\ (p.seen.mode = m \/ 2 <= Slack(w, m, lead))
  BY <1>3 DEF Led, StateToCome
<1> QED BY <1>2, <1>4, <1>5

\* The State a heartbeat publishes is of the mode, or a switch is not done.
LEMMA PollStatus ==
    ASSUME NEW m, NEW r \in Views, NEW w \in Formeds, NEW p \in Formeds, NEW lead \in {0, 1}, Led(m, r, w, p, lead),
           w.at # "idle" => lead = 1, p.at = "status"
    PROVE  p.for = "heartbeat" /\ p.seen # None /\ (p.seen.mode = m \/ Owed(w, m) > 0)
<1>1. WriterShape(w) /\ Slack(w, m, lead) \in Int /\ Owed(w, m) \in Int
  BY OwedTyped DEF Slack, Led
<1>2. p.for = "heartbeat" /\ Due(p) = 1
  BY DEF Led, PollShape, Due
<1>3. p.seen # None /\ (p.seen.mode = m \/ 1 <= Slack(w, m, lead))
  BY <1>2 DEF Led, StateToCome
<1>4. 1 \in Nat \ {0}
  OBVIOUS
<1>5. 1 <= Slack(w, m, lead) => Owed(w, m) >= 1
  BY <1>1, <1>4, PollAhead
<1> QED BY <1>1, <1>2, <1>3, <1>5

-----------------------------------------------------------------------------
(* What bookkeeping and a re-assert leave of the readings and the batch.    *)

LEMMA ReadingsKept ==
    ASSUME NEW r \in Views
    PROVE  /\ \A c, ps : LET k == Remember(r, c, ps) IN k.state = r.state /\ k.rate = r.rate /\ k.lists = r.lists
           /\ \A c : LET k == Dropped(r, c) IN k.state = r.state /\ k.rate = r.rate /\ k.lists = r.lists
<1>1. ASSUME NEW c, NEW v PROVE LET k == [r EXCEPT !.memory[c] = v] IN k.state = r.state /\ k.rate = r.rate /\ k.lists = r.lists
  BY DEF Views
<1>2. \A c, ps : LET k == Remember(r, c, ps) IN k.state = r.state /\ k.rate = r.rate /\ k.lists = r.lists
  BY DEF Remember, Views
<1>3. \A c : LET k == Dropped(r, c) IN k.state = r.state /\ k.rate = r.rate /\ k.lists = r.lists
  BY DEF Dropped, Views
<1> QED BY <1>2, <1>3

LEMMA RecordedKept ==
    ASSUME NEW r \in Views, NEW rec \in Formeds, NEW k, k = Recorded(r, rec)
    PROVE  k \in Views /\ k.state = r.state /\ k.rate = r.rate /\ k.lists = r.lists
<1> DEFINE pcm == {p \in rec.held : ROUTABLE[p[1]].chain = "pcm"}
           sdm == {p \in rec.held : ROUTABLE[p[1]].chain = "sdm"}
           applied == {p \in Applied(rec) : p[1] \in Routable}
           one == Remember(r, "pcm", pcm)
           two == Remember(one, "sdm", sdm)
           three == Remember(two, ActiveChain(r), applied)
<1>1. pcm \in SUBSET Fields /\ sdm \in SUBSET Fields /\ applied \in SUBSET Fields /\ "pcm" \in Chains /\ "sdm" \in Chains
  BY DEF Formeds, Records, Applied, Chains
<1>2. k = two \/ (ActiveChain(r) # None /\ k = three)
  BY DEF Recorded
<1> HIDE DEF pcm, sdm, applied
<1>3. one \in Views /\ one.state = r.state /\ one.rate = r.rate /\ one.lists = r.lists
  BY <1>1, RememberTyped, ReadingsKept
<1> HIDE DEF one
<1>4. two \in Views /\ two.state = r.state /\ two.rate = r.rate /\ two.lists = r.lists
  BY <1>1, <1>3, RememberTyped, ReadingsKept
<1> HIDE DEF two
<1>5. ActiveChain(r) # None => three \in Views /\ three.state = r.state /\ three.rate = r.rate /\ three.lists = r.lists
  BY <1>1, <1>4, ActiveChainType, RememberTyped, ReadingsKept
<1> QED BY <1>2, <1>4, <1>5

LEMMA ReassertingParts ==
    ASSUME NEW r \in Views, NEW rec \in Formeds, NEW s, s = Reasserting(r, rec)
    PROVE  /\ s \in Formeds /\ s.at \in {"set", "reread"} /\ s.for = "chain" /\ Only(s, "filter")
           /\ s.tried = rec.tried /\ s.done = rec.done /\ s.rest = rec.rest /\ s.list = rec.list /\ s.seen = rec.seen
           /\ s.named = rec.named /\ s.held = rec.held /\ s.left = rec.left
<1> DEFINE ps == Carried(r, ActiveChain(r))
           edits == IF Resolves(r, ps) THEN Setters(r, ps) ELSE <<>>
           at == IF ps # {} /\ Resolves(r, ps) THEN "set" ELSE "reread"
<1>1. \A p \in ps : p[1] \in Routable
  BY ActiveChainType, CarriedFields
<1>2. edits \in {<<Op("filter", FilterPair(r, ps))>>, <<>>}
  <2> HIDE DEF ps
  <2>1. (\A p \in ps : p[1] # "mode") /\ ~(\E p \in ps : p[1] = "junk_filter")
    BY <1>1, RoutableFields
  <2> QED BY <2>1, SettersOf
<1>3. \A i \in 1..Len(edits) : edits[i].setting = "filter"
  <2> HIDE DEF ps, edits
  <2> DEFINE op == Op("filter", FilterPair(r, ps))
  <2>1. op.setting = "filter"
    BY DEF Op
  <2>2. edits \in {<<op>>, <<>>}
    BY <1>2
  <2> HIDE DEF op
  <2> QED BY <2>1, <2>2
<1>4. s = [rec EXCEPT !.for = "chain", !.edits = edits, !.at = at]
  BY DEF Reasserting
<1> HIDE DEF ps, edits, at
<1>5. /\ s.for = "chain" /\ s.edits = edits /\ s.tried = rec.tried /\ s.done = rec.done /\ s.rest = rec.rest
      /\ s.list = rec.list /\ s.seen = rec.seen /\ s.named = rec.named /\ s.held = rec.held /\ s.left = rec.left
  BY <1>4 DEF Formeds, Records
<1> QED BY <1>3, <1>5, ReassertingTyped DEF Only

-----------------------------------------------------------------------------
(* The order of the queue.                                                  *)

\* The head is ahead of all who wait, and behind them once it goes on.
LEMMA ServedPlaces ==
    ASSUME Sound, NEW t \in Tasks, Served(t), NEW rec, Steps(t, rec)
    PROVE  /\ task' = [task EXCEPT ![t] = rec] /\ rec \in Formeds /\ task'[t] = rec
           /\ \A u \in Tasks \ {t} : task'[u] = task[u]
           /\ \A b \in Tasks \ {t} : task[b].at \in Queued => Ahead(t, b)
           /\ \A b \in Tasks \ {t} : task[b].at \in Queued /\ rec.at # "idle" => Ahead(b, t)'
           /\ \A b : ~Ahead(b, t) /\ ~Ahead(t, b)'
           /\ \A a, b : a # t /\ Ahead(a, b) => Ahead(a, b)'
<1>1. /\ queue \in Seq(Tasks) /\ Lined /\ task \in [Tasks -> Formeds] /\ Goes(t, rec) /\ rec \in Formeds
      /\ rec.at \in Queued \cup {"idle"} /\ Types
  BY DEF Sound, Types, Steps
<1>2. /\ Len(queue) \in Nat \ {0} /\ queue[1] = t
      /\ Tail(queue) \in Seq(Tasks) /\ Len(Tail(queue)) = Len(queue) - 1
      /\ \A i \in 1..(Len(queue) - 1) : Tail(queue)[i] = queue[i + 1]
  BY <1>1, ServedHead
<1>3. queue' \in Seq(Tasks) /\ Lined' /\ task' = [task EXCEPT ![t] = rec]
  BY <1>1, GoesLined
<1>4. task'[t] = rec /\ \A u \in Tasks \ {t} : task'[u] = task[u]
  BY <1>1, <1>3
<1>5. ASSUME NEW b \in Tasks \ {t}, task[b].at \in Queued PROVE Ahead(t, b)
  <2>1. PICK j \in 1..Len(queue) : queue[j] = b
    BY <1>1, <1>5 DEF Lined
  <2>2. 1 \in 1..Len(queue) /\ 1 < j /\ queue[1] = t
    BY <1>2, <1>5, <2>1
  <2> QED BY <2>1, <2>2 DEF Ahead
<1>6. ASSUME NEW a, NEW b, Ahead(a, b) PROVE t # b /\ (t # a => Ahead(a, b)')
  BY <1>1, <1>6, GoesAhead
<1> DEFINE q == Tail(queue)
           n == Len(q)
<1>7. n \in Nat /\ (rec.at = "idle" => queue' = q) /\ (rec.at # "idle" => queue' = Append(q, t)) /\ q \in Seq(Tasks)
  <2>1. q \in Seq(Tasks) /\ n = Len(queue) - 1 /\ Len(queue) \in Nat \ {0}
    BY <1>2
  <2>2. n \in Nat
    BY <2>1
  <2>3. queue' = IF rec.at = "idle" THEN q ELSE Append(q, t)
    BY <1>1 DEF Goes
  <2> QED BY <2>1, <2>2, <2>3
<1> HIDE DEF q
<1>8. ASSUME rec.at # "idle"
      PROVE  Len(queue') = n + 1 /\ queue'[n + 1] = t /\ n + 1 \in 1..Len(queue') /\ \A i \in 1..Len(queue') : i <= n + 1
  <2>1. queue' = Append(q, t) /\ n \in Nat /\ n = Len(q) /\ q \in Seq(Tasks)
    BY <1>7, <1>8 DEF n
  <2> HIDE DEF n
  <2> QED BY <2>1
<1>9. ASSUME NEW b \in Tasks \ {t}, task[b].at \in Queued, rec.at # "idle" PROVE Ahead(b, t)'
  <2>1. PICK i \in 1..Len(queue') : queue'[i] = b
    BY <1>3, <1>4, <1>9 DEF Lined
  <2>2. i < n + 1
    BY <1>7, <1>8, <1>9, <2>1
  <2> QED BY <1>8, <1>9, <2>1, <2>2 DEF Ahead
<1>10. ASSUME NEW b, Ahead(t, b)' PROVE FALSE
  <2>1. PICK i, j \in 1..Len(queue') : i < j /\ queue'[i] = t
    BY <1>10 DEF Ahead
  <2>2. task'[t].at \in Queued
    BY <1>3, <2>1 DEF Lined
  <2>3. rec.at # "idle"
    BY <1>4, <2>2 DEF Queued
  <2>4. i = n + 1
    BY <1>3, <1>8, <2>1, <2>3 DEF Lined
  <2> QED BY <1>7, <1>8, <2>1, <2>3, <2>4
<1> QED BY <1>1, <1>3, <1>4, <1>5, <1>6, <1>9, <1>10

\* Nobody is behind another in a queue it does not wait in.
LEMMA AheadWaits ==
    ASSUME Sound, NEW a, NEW b \in Tasks, Ahead(a, b)
    PROVE  task[b].at \in Queued
  BY DEF Sound, Lined, Ahead

-----------------------------------------------------------------------------
(* Lists, State and what is read of them follow the mode.                   *)

LedFor(w) ==
    /\ up => Led(engine.mode, readings, task[w], task["poll"], Lead(w))
    /\ ~up => task[w] = Idle /\ task["poll"] = Idle
LedInv == HandInv /\ \A w \in Writers : LedFor(w)

LEMMA OnlyTasks == ASSUME Alone, NEW w \in Writers PROVE Tasks = {w, "poll", "pilot"}
  BY DEF Alone, Tasks

LEMMA LoadedMode == ASSUME NoSource, NEW e \in States PROVE Loaded(e) = e.mode /\ e.mode \in Chains
  BY ModesAssumption DEF NoSource, Loaded, States

LEMMA TookMode ==
    ASSUME NEW e \in States, NEW op \in Ops
    PROVE  Took(e, op).mode = (IF op.setting = "mode" THEN op.value ELSE e.mode)
<1> DEFINE f == [e EXCEPT ![op.setting] = op.value]
<1>1. f.mode = (IF op.setting = "mode" THEN op.value ELSE e.mode) /\ "mode" \in DOMAIN f
  BY OpTypes DEF States, Settings
<1>2. Took(e, op) = f \/ Took(e, op) = [f EXCEPT !.filter = Booted(e.source).filter]
  BY DEF Took
<1> HIDE DEF f
<1>3. [f EXCEPT !.filter = Booted(e.source).filter].mode = f.mode
  BY <1>1
<1> QED BY <1>1, <1>2, <1>3

\* With the writer served, nothing of the poll is ahead of it; with the poll, the writer is
\* behind it.
LEMMA WriterServed ==
    ASSUME HandInv, NEW w \in Writers, LedFor(w), Served(w), NEW s, Steps(w, s)
    PROVE  /\ Led(engine.mode, readings, task[w], task["poll"], 0)
           /\ task'[w] = s /\ task'["poll"] = task["poll"] /\ s \in Formeds
           /\ task[w] \in Formeds /\ task["poll"] \in Formeds /\ readings \in Views
           /\ Lead(w)' \in {0, 1} /\ (task["poll"].at # "idle" /\ s.at # "idle" => Lead(w)' = 1)
<1>1. w \in Tasks /\ "poll" \in Tasks \ {w} /\ Sound /\ task[w] \in Formeds /\ task["poll"] \in Formeds /\ readings \in Views
  BY HandApart, TaskFormed DEF HandInv, Sound, Types
<1>2. /\ task'[w] = s /\ task'["poll"] = task["poll"] /\ s \in Formeds /\ ~Ahead("poll", w)
      /\ (task["poll"].at \in Queued /\ s.at # "idle" => Ahead("poll", w)')
  BY <1>1, ServedPlaces
<1>3. Led(engine.mode, readings, task[w], task["poll"], 0)
  BY <1>2 DEF LedFor, Lead, Served
<1>4. task["poll"].at = "idle" \/ task["poll"].at \in Queued
  BY <1>3 DEF Led, PollShape, Queued
<1> QED BY <1>1, <1>2, <1>3, <1>4 DEF Lead

LEMMA PollServed ==
    ASSUME HandInv, NEW w \in Writers, LedFor(w), Served("poll"), NEW s, Steps("poll", s)
    PROVE  /\ Led(engine.mode, readings, task[w], task["poll"], Lead(w))
           /\ task'["poll"] = s /\ task'[w] = task[w] /\ s \in Formeds
           /\ task[w] \in Formeds /\ task["poll"] \in Formeds /\ readings \in Views
           /\ Lead(w) \in {0, 1} /\ (task[w].at # "idle" => Lead(w) = 1) /\ Lead(w)' = 0
<1>1. "poll" \in Tasks /\ w \in Tasks \ {"poll"} /\ Sound /\ task[w] \in Formeds /\ task["poll"] \in Formeds /\ readings \in Views
  BY HandApart, TaskFormed DEF HandInv, Sound, Types
<1>2. /\ task'["poll"] = s /\ task'[w] = task[w] /\ s \in Formeds /\ ~Ahead("poll", w)'
      /\ (task[w].at \in Queued => Ahead("poll", w))
  BY <1>1, ServedPlaces
<1>3. Led(engine.mode, readings, task[w], task["poll"], Lead(w))
  BY DEF LedFor, Served
<1>4. task[w].at = "idle" \/ task[w].at \in Queued
  BY <1>3 DEF Led, WriterShape, Queued
<1> QED BY <1>1, <1>2, <1>3, <1>4 DEF Lead

\* The poll further ahead of the writer does no harm.
LEMMA LedAhead ==
    ASSUME NEW m, NEW r, NEW w \in Formeds, NEW p \in Formeds, NEW lead \in {0, 1}, Led(m, r, w, p, lead),
           NEW more \in {0, 1}, lead <= more
    PROVE  Led(m, r, w, p, more)
<1>1. Slack(w, m, lead) <= Slack(w, m, more) /\ Slack(w, m, lead) \in Int /\ Slack(w, m, more) \in Int
  BY OwedTyped DEF Slack
<1>2. p.left \in Int /\ Due(p) \in Int
  BY OwedTyped
<1> QED BY <1>1, <1>2 DEF Led, ListsToCome, StateToCome

\* What goes by without the mode, the readings, the writer and the poll.
LEMMA LedKept ==
    ASSUME HandInv, NEW w \in Writers, LedFor(w), up, up' = up, engine'.mode = engine.mode,
           NEW k, readings' = k, k.lists = readings.lists,
           k.state # readings.state => (k.state # None /\ k.state.mode = engine.mode),
           task'[w] = task[w], task'["poll"] = task["poll"], Ahead("poll", w) => Ahead("poll", w)'
    PROVE  LedFor(w)'
<1>1. task[w] \in Formeds /\ task["poll"] \in Formeds /\ Led(engine.mode, readings, task[w], task["poll"], Lead(w))
  BY HandApart, TaskFormed DEF HandInv, Sound, LedFor
<1>2. Lead(w) \in {0, 1} /\ Lead(w)' \in {0, 1} /\ Lead(w) <= Lead(w)'
  BY DEF Lead
<1>3. Led(engine.mode, k, task[w], task["poll"], Lead(w))
  BY <1>1 DEF Led, ListsRight, StateRight
<1>4. Led(engine.mode, k, task[w], task["poll"], Lead(w)')
  BY <1>1, <1>2, <1>3, LedAhead
<1> QED BY <1>4 DEF LedFor

-----------------------------------------------------------------------------
(* The writer's requests are served.                                        *)

\* What a readback leaves of the batch.
LEMMA CheckParts ==
    ASSUME Types, NEW t \in Tasks, Check(t)
    PROVE  \E s : /\ Steps(t, s) /\ task[t].at = "check" /\ Served(t)
                  /\ s.at = (IF Tail(task[t].edits) = <<>> THEN Sent(task[t]) ELSE "set")
                  /\ s.edits = Tail(task[t].edits) /\ s.tried = task[t].tried \cup {Head(task[t].edits).setting}
                  /\ s.done = task[t].done \cup (IF engine[Head(task[t].edits).setting] = Head(task[t].edits).value
                                                 THEN {Head(task[t].edits).setting} ELSE {})
                  /\ s.for = task[t].for /\ s.named = task[t].named /\ s.held = task[t].held /\ s.rest = task[t].rest
                  /\ s.list = task[t].list /\ s.seen = task[t].seen /\ s.left = task[t].left
<1>1. task[t] \in Formeds /\ task[t].at = "check" /\ Served(t) /\ task \in [Tasks -> Formeds]
  BY TaskFormed DEF Check, At, Types
<1> DEFINE op == Head(task[t].edits)
           rest == Tail(task[t].edits)
           at == IF rest = <<>> THEN Sent(task[t]) ELSE "set"
           tried == task[t].tried \cup {op.setting}
           done == task[t].done \cup (IF engine[op.setting] = op.value THEN {op.setting} ELSE {})
           s == [task[t] EXCEPT !.at = at, !.edits = rest, !.tried = tried, !.done = done]
<1>2. Goes(t, s)
  BY DEF Check
<1>3. PICK x : Steps(t, x)
  BY CheckSteps
<1> HIDE DEF op, at, rest, tried, done
<1>4. /\ s.at = at /\ s.edits = rest /\ s.tried = tried /\ s.done = done
      /\ s.for = task[t].for /\ s.named = task[t].named /\ s.held = task[t].held /\ s.rest = task[t].rest
      /\ s.list = task[t].list /\ s.seen = task[t].seen /\ s.left = task[t].left
  BY <1>1 DEF Formeds, Records
<1> HIDE DEF s
<1>5. x = s
  BY <1>1, <1>2, <1>3 DEF Goes, Steps
<1> QED BY <1>1, <1>3, <1>4, <1>5 DEF op, at, rest, tried, done

LEMMA WriterSetLed ==
    ASSUME LedInv, NEW w \in Writers, Set(w) \/ Ignored(w)
    PROVE  LedFor(w)'
<1> DEFINE s == [task[w] EXCEPT !.at = "check"]
           op == Head(task[w].edits)
<1>1. /\ HandInv /\ LedFor(w) /\ Served(w) /\ task[w].at = "set" /\ Types /\ w \in Tasks /\ task[w] \in Formeds
      /\ engine \in States /\ Goes(w, s) /\ readings' = readings /\ up' = up /\ up
      /\ (engine' = engine \/ engine' = Took(engine, op))
  BY HandApart, TaskFormed DEF LedInv, HandInv, Sound, Types, Set, Ignored, At, Served
<1>2. Steps(w, s)
  BY <1>1, SetSteps DEF At
<1>3. op \in Ops
  BY <1>1, FirstOp
<1>4. engine'.mode # engine.mode => op.setting = "mode" /\ engine'.mode = op.value
  BY <1>1, <1>3, TookMode
<1> HIDE DEF s, op
<1>5. /\ Led(engine.mode, readings, task[w], task["poll"], 0)
      /\ task'[w] = s /\ task'["poll"] = task["poll"] /\ s \in Formeds
      /\ task["poll"] \in Formeds /\ readings \in Views
      /\ Lead(w)' \in {0, 1} /\ (task["poll"].at # "idle" /\ s.at # "idle" => Lead(w)' = 1)
  BY <1>1, <1>2, WriterServed
<1>6. s.at = "check"
  BY <1>1 DEF s, Formeds, Records
<1>7. Led(engine'.mode, readings, s, task["poll"], Lead(w)')
  BY <1>1, <1>4, <1>5, <1>6, WriterSets DEF s, op
<1> QED BY <1>1, <1>5, <1>7 DEF LedFor

LEMMA WriterCheckLed ==
    ASSUME LedInv, NEW w \in Writers, Check(w)
    PROVE  LedFor(w)'
<1>1. HandInv /\ LedFor(w) /\ Types /\ w \in Tasks /\ task[w] \in Formeds /\ readings' = readings /\ up' = up /\ engine' = engine
  BY HandApart, TaskFormed DEF LedInv, HandInv, Sound, Types, Check
<1>2. PICK s : /\ Steps(w, s) /\ task[w].at = "check" /\ Served(w)
               /\ s.at = (IF Tail(task[w].edits) = <<>> THEN Sent(task[w]) ELSE "set")
               /\ s.edits = Tail(task[w].edits) /\ s.tried = task[w].tried \cup {Head(task[w].edits).setting}
               /\ s.done = task[w].done \cup (IF engine[Head(task[w].edits).setting] = Head(task[w].edits).value
                                              THEN {Head(task[w].edits).setting} ELSE {})
               /\ s.for = task[w].for /\ s.named = task[w].named /\ s.held = task[w].held /\ s.rest = task[w].rest
               /\ s.list = task[w].list /\ s.seen = task[w].seen /\ s.left = task[w].left
  BY <1>1, CheckParts
<1>3. /\ Led(engine.mode, readings, task[w], task["poll"], 0)
      /\ task'[w] = s /\ task'["poll"] = task["poll"] /\ s \in Formeds
      /\ task["poll"] \in Formeds /\ readings \in Views
      /\ Lead(w)' \in {0, 1} /\ (task["poll"].at # "idle" /\ s.at # "idle" => Lead(w)' = 1)
  BY <1>1, <1>2, WriterServed
<1>4. task[w].done \subseteq s.done /\ s.done \subseteq s.tried
  BY <1>2, <1>3 DEF Led, WriterShape, Orderly
<1>5. Switching(task[w], engine.mode) => "mode" \in s.done
  BY <1>2 DEF Switching
<1> DEFINE m == engine.mode
           rec == task[w]
           p == task["poll"]
           lead == Lead(w)'
<1>6. /\ readings \in Views /\ rec \in Formeds /\ p \in Formeds /\ Led(m, readings, rec, p, 0) /\ rec.at = "check"
      /\ s \in Formeds /\ s.at = (IF Tail(rec.edits) = <<>> THEN Sent(rec) ELSE "set")
      /\ s.for = rec.for /\ s.edits = Tail(rec.edits) /\ s.named = rec.named /\ s.rest = rec.rest /\ s.list = rec.list
      /\ rec.done \subseteq s.done /\ s.done \subseteq s.tried
      /\ (Switching(rec, m) => "mode" \in s.done)
      /\ lead \in {0, 1} /\ (p.at # "idle" => lead = 1)
  <2>1. s.at # "idle"
    BY <1>2 DEF Sent
  <2> QED BY <1>1, <1>2, <1>3, <1>4, <1>5, <2>1
<1> HIDE DEF m, rec, p, lead
<1>7. Led(m, readings, s, p, lead)
  BY <1>6, WriterChecks
<1> QED BY <1>1, <1>2, <1>3, <1>7 DEF LedFor, m, p, lead, Served

\* The request is over, or the rest of it follows.
LEMMA WriterEndsLed ==
    ASSUME NoSource, LedInv, NEW w \in Writers, Served(w), Owed(task[w], engine.mode) <= 1,
           NEW r \in Views, r.lists = engine.mode, r.state # None, r.state.mode = engine.mode,
           NEW rec \in Formeds, OneEach(rec.rest), \A p \in rec.rest : p[1] # "mode",
           Ends(w, r, rec), readings' = r, up' = up, engine' = engine
    PROVE  LedFor(w)'
<1> DEFINE m == engine.mode
           more == Started(r, [rec EXCEPT !.landed = @ \cup rec.done], rec.rest, {})
<1>1. HandInv /\ LedFor(w) /\ engine \in States /\ m \in Chains
  BY LoadedMode DEF LedInv, HandInv, Sound, Types
<1>2. PICK s : Steps(w, s)
  BY EndsSteps
<1>3. /\ Led(m, readings, task[w], task["poll"], 0)
      /\ task'[w] = s /\ task'["poll"] = task["poll"] /\ s \in Formeds
      /\ task[w] \in Formeds /\ task["poll"] \in Formeds /\ readings \in Views
      /\ Lead(w)' \in {0, 1} /\ (task["poll"].at # "idle" /\ s.at # "idle" => Lead(w)' = 1)
  BY <1>1, <1>2, WriterServed
<1>4. rec.rest \in SUBSET Fields /\ {} \in SUBSET Fields /\ OneEach({})
  BY RecordParts DEF OneEach
<1>5. SetsOut(more, m)
  BY <1>1, <1>4, StartedSetsOut
<1> HIDE DEF more
<1>6. Goes(w, more) \/ Goes(w, Idle)
  BY DEF Ends, more
<1>7. s = more \/ s = Idle
  <2>1. w \in Tasks /\ task \in [Tasks -> Formeds]
    BY <1>1, HandApart DEF HandInv, Sound, Types
  <2> QED BY <1>3, <1>6, <2>1 DEF Goes
<1>8. SetsOut(s, m)
  BY <1>5, <1>7, IdleSetsOut
<1> HIDE DEF m
<1>9. Led(m, r, s, task["poll"], Lead(w)')
  BY <1>3, <1>8, WriterSetsOut DEF m
<1> QED BY <1>1, <1>3, <1>9 DEF LedFor, m, Served

LEMMA ListingParts ==
    ASSUME NEW rec \in Formeds, NEW s, s = Listing(rec)
    PROVE  /\ s \in Formeds /\ s.at = "lists" /\ s.left = ListReads /\ s.list = rec.list /\ s.for = rec.for
           /\ s.edits = rec.edits /\ s.tried = rec.tried /\ s.done = rec.done /\ s.rest = rec.rest /\ s.seen = rec.seen
           /\ s.named = rec.named /\ s.held = rec.held /\ s.moved = rec.moved
<1>1. s \in Formeds /\ s.at = "lists"
  BY ListingFormed
<1>2. /\ s.left = ListReads /\ s.list = rec.list /\ s.for = rec.for
      /\ s.edits = rec.edits /\ s.tried = rec.tried /\ s.done = rec.done /\ s.rest = rec.rest /\ s.seen = rec.seen
      /\ s.named = rec.named /\ s.held = rec.held /\ s.moved = rec.moved
  BY DEF Formeds, Records, Listing
<1> QED BY <1>1, <1>2

\* State is read: the readings as they were but for that.
LEMMA StateRead1 ==
    ASSUME NEW r \in Views, NEW e \in States, NEW k, k = [r EXCEPT !.state = e]
    PROVE  k \in Views /\ k.state = e /\ k.state # None /\ k.lists = r.lists /\ k.rate = r.rate /\ k.memory = r.memory
<1>1. k \in Views /\ e # None
  BY ViewParts, NotNone
<1>2. k.state = e /\ k.lists = r.lists /\ k.rate = r.rate /\ k.memory = r.memory
  BY DEF Views
<1> QED BY <1>1, <1>2

LEMMA WriterRefreshLed ==
    ASSUME NoSource, LedInv, NEW w \in Writers, Refresh(w)
    PROVE  LedFor(w)'
<1> DEFINE m == engine.mode
           rec == task[w]
           p == task["poll"]
           lead == Lead(w)'
           r == [readings EXCEPT !.state = engine]
<1>1. /\ HandInv /\ LedFor(w) /\ Types /\ w \in Tasks /\ rec \in Formeds /\ engine \in States /\ readings \in Views
      /\ Served(w) /\ rec.at = "refresh" /\ up' = up /\ engine' = engine /\ up /\ task \in [Tasks -> Formeds]
  BY HandApart, TaskFormed DEF LedInv, HandInv, Sound, Types, Refresh, At, Served
<1>2. Led(m, readings, rec, p, Lead(w))
  BY <1>1 DEF LedFor
<1>3. rec.for = "batch" /\ WriterShape(rec)
  BY <1>1, <1>2 DEF Led, WriterShape
<1>4. r \in Views /\ r.state = engine /\ r.state # None /\ r.lists = readings.lists
  BY <1>1, StateRead1
<1> HIDE DEF r
<1>5. CASE rec.tried \cap {"mode", "filter"} # {}
  <2> DEFINE s == Listing(rec)
  <2>1. readings' = r /\ Goes(w, s)
    BY <1>5 DEF Refresh, r
  <2>2. s \in Formeds /\ s.at = "lists" /\ s.left = ListReads /\ s.list = rec.list /\ s.for = rec.for
        /\ s.edits = rec.edits /\ s.tried = rec.tried /\ s.done = rec.done /\ s.rest = rec.rest /\ s.seen = rec.seen
    BY <1>1, ListingParts
  <2> HIDE DEF s
  <2>3. Steps(w, s)
    BY <2>1, <2>2 DEF Steps, Queued
  <2>4. /\ Led(m, readings, rec, p, 0) /\ task'[w] = s /\ task'["poll"] = p /\ p \in Formeds
        /\ lead \in {0, 1} /\ (p.at # "idle" => lead = 1)
    BY <1>1, <2>2, <2>3, WriterServed
  <2>5. s.list = None /\ s.for # "resync"
    BY <1>1, <1>3, <2>2 DEF WriterShape, Orderly
  <2> HIDE DEF m, rec, p, lead
  <2>6. r.state # readings.state => (r.state # None /\ r.state.mode = m)
    BY <1>4 DEF m
  <2>7. Led(m, r, s, p, lead)
    BY <1>1, <1>4, <2>2, <2>4, <2>5, <2>6, WriterLists
  <2> QED BY <1>1, <2>1, <2>4, <2>7 DEF LedFor, m, p, lead
<1>6. CASE rec.tried \cap {"mode", "filter"} = {}
  <2> DEFINE k == Recorded(r, rec)
  <2>1. Bookkeeps(w, r, rec)
    BY <1>6 DEF Refresh, r
  <2>2. "mode" \notin rec.done
    BY <1>3, <1>6 DEF WriterShape, Orderly
  <2>3. readings' = k /\ Ends(w, k, rec)
    BY <2>1, <2>2 DEF Bookkeeps
  <2>4. k \in Views /\ k.state = engine /\ k.state # None /\ k.lists = readings.lists
    BY <1>1, <1>4, RecordedKept
  <2> HIDE DEF k
  <2>5. Owed(rec, m) <= 1 /\ readings.lists = m
    BY <1>1, <1>2, <1>3, <2>2 DEF Led, ListsRight, Owed, Switching
  <2>6. OneEach(rec.rest) /\ \A q \in rec.rest : q[1] # "mode"
    BY <1>3 DEF WriterShape
  <2> QED BY <1>1, <2>3, <2>4, <2>5, <2>6, WriterEndsLed
<1> QED BY <1>5, <1>6

LEMMA WriterRereadLed ==
    ASSUME NoSource, LedInv, NEW w \in Writers, Reread(w)
    PROVE  LedFor(w)'
<1> DEFINE m == engine.mode
           rec == task[w]
           r == [readings EXCEPT !.state = engine]
<1>1. /\ HandInv /\ LedFor(w) /\ Types /\ w \in Tasks /\ rec \in Formeds /\ engine \in States /\ readings \in Views
      /\ Served(w) /\ rec.at = "reread" /\ up' = up /\ engine' = engine /\ up
      /\ readings' = r /\ Ends(w, r, rec)
  BY HandApart, TaskFormed DEF LedInv, HandInv, Sound, Types, Reread, At, Served
<1>2. Led(m, readings, rec, task["poll"], Lead(w))
  BY <1>1 DEF LedFor
<1>3. rec.for = "chain" /\ WriterShape(rec) /\ ~Switching(rec, m) /\ Owed(rec, m) <= 1
  BY <1>1, <1>2 DEF Led, WriterShape, Switching, Owed
<1>4. r \in Views /\ r.state = engine /\ r.state # None /\ r.lists = m
  BY <1>1, <1>2, <1>3, StateRead1 DEF Led, ListsRight
<1>5. OneEach(rec.rest) /\ \A q \in rec.rest : q[1] # "mode"
  BY <1>3 DEF WriterShape
<1> HIDE DEF r
<1> QED BY <1>1, <1>3, <1>4, <1>5, WriterEndsLed

LEMMA WriterFetchLed ==
    ASSUME NoSource, LedInv, NEW w \in Writers, Fetch(w)
    PROVE  LedFor(w)'
<1> DEFINE m == engine.mode
           rec == task[w]
           p == task["poll"]
           lead == Lead(w)'
           read == [rec EXCEPT !.seen = engine]
           s == Listing(read)
<1>1. /\ HandInv /\ LedFor(w) /\ Types /\ w \in Tasks /\ rec \in Formeds /\ engine \in States /\ readings \in Views
      /\ Served(w) /\ rec.at = "fetch" /\ up' = up /\ engine' = engine /\ up
  BY HandApart, TaskFormed DEF LedInv, HandInv, Sound, Types, Fetch, At, Served
<1>2. rec.for = "resync" /\ rec.list = None
  BY <1>1 DEF LedFor, Led, WriterShape, Orderly
<1>3. readings' = readings /\ Goes(w, s)
  BY <1>2 DEF Fetch
<1>4. /\ read \in Formeds /\ read.seen = engine /\ read.for = rec.for /\ read.edits = rec.edits /\ read.tried = rec.tried
      /\ read.done = rec.done /\ read.rest = rec.rest /\ read.list = rec.list
  BY <1>1 DEF Formeds, Records, Formed
<1> HIDE DEF read
<1>5. s \in Formeds /\ s.at = "lists" /\ s.left = ListReads /\ s.list = None /\ s.for = rec.for
      /\ s.edits = rec.edits /\ s.tried = rec.tried /\ s.done = rec.done /\ s.rest = rec.rest /\ s.seen = engine
  BY <1>2, <1>4, ListingParts
<1> HIDE DEF s
<1>6. Steps(w, s)
  BY <1>3, <1>5 DEF Steps, Queued
<1>7. /\ Led(m, readings, rec, p, 0) /\ task'[w] = s /\ task'["poll"] = p /\ p \in Formeds
      /\ lead \in {0, 1} /\ (p.at # "idle" => lead = 1)
  BY <1>1, <1>5, <1>6, WriterServed
<1>8. s.seen # None /\ s.seen.mode = m
  BY <1>1, <1>5, NotNone
<1> HIDE DEF m, rec, p, lead
<1>9. Led(m, readings, s, p, lead)
  BY <1>1, <1>5, <1>7, <1>8, WriterLists
<1> QED BY <1>1, <1>3, <1>7, <1>9 DEF LedFor, m, p, lead

\* What a task does once an enumeration it waited for is over.
HandsOn(t, r, s) ==
    /\ s.for = "batch" => Bookkeeps(t, r, s)
    /\ s.for = "heartbeat" => readings' = r /\ Goes(t, [s EXCEPT !.at = "status"])
    /\ s.for = "chain" => Enters(t, r, s)
    /\ s.for = "resync" => readings' = [r EXCEPT !.state = s.seen] /\ Goes(t, Idle)

\* The request of an enumeration, and what its last one hands on.
LEMMA ListsReadParts ==
    ASSUME Types, NEW t \in Tasks, ListsRead(t), NEW list, list = (IF task[t].list = None THEN Loaded(engine) ELSE task[t].list)
    PROVE  \/ /\ task[t].left > 1 /\ readings' = readings
              /\ \E s : /\ s \in Formeds /\ s.at = "lists" /\ Goes(t, s) /\ s.left = task[t].left - 1 /\ s.list = list
                        /\ s.for = task[t].for /\ s.edits = task[t].edits /\ s.tried = task[t].tried
                        /\ s.done = task[t].done /\ s.rest = task[t].rest /\ s.seen = task[t].seen
                        /\ s.named = task[t].named /\ s.held = task[t].held /\ s.moved = task[t].moved
           \/ /\ task[t].left <= 1
              /\ \E r, s : /\ r \in Views /\ r.lists = list /\ r.state = readings.state /\ r.rate = readings.rate
                           /\ r.memory = readings.memory
                           /\ s \in Formeds /\ s.at = "lists" /\ s.list = None
                           /\ s.for = task[t].for /\ s.edits = task[t].edits /\ s.tried = task[t].tried
                           /\ s.done = task[t].done /\ s.rest = task[t].rest /\ s.seen = task[t].seen
                           /\ s.named = task[t].named /\ s.held = task[t].held /\ s.moved = task[t].moved
                           /\ HandsOn(t, r, s)
<1> DEFINE old == task[t]
           left == old.left - 1
           rec == [old EXCEPT !.left = left, !.list = list]
           r == [readings EXCEPT !.lists = list]
           over == [rec EXCEPT !.list = None]
<1>1. old \in Formeds /\ old.at = "lists" /\ old.left \in Int /\ readings \in Views /\ left \in Int /\ list \in Chains
  BY TaskFormed, LoadedChain, RecordParts DEF Types, ListsRead, At
<1>2. IF rec.left > 0 THEN Goes(t, rec) /\ readings' = readings
      ELSE HandsOn(t, r, over)
  <2>1. rec = [task[t] EXCEPT !.left = @ - 1, !.list = IF task[t].list = None THEN Loaded(engine) ELSE task[t].list]
    BY <1>1 DEF Formeds, Records
  <2>2. r = [readings EXCEPT !.lists = IF task[t].list = None THEN Loaded(engine) ELSE task[t].list]
    OBVIOUS
  <2> HIDE DEF rec, r
  <2>3. CASE rec.left > 0
    BY <2>1, <2>2, <2>3 DEF ListsRead
  <2>4. CASE ~(rec.left > 0)
    BY <2>1, <2>2, <2>4 DEF ListsRead, HandsOn
  <2> QED BY <2>3, <2>4
<1>3. r \in Views /\ r.lists = list /\ r.state = readings.state /\ r.rate = readings.rate /\ r.memory = readings.memory
  BY <1>1, ViewParts DEF Views
<1> HIDE DEF left, r
<1>4. /\ rec \in Records /\ rec.at = "lists" /\ rec.left = left /\ rec.list = list
      /\ rec.for = old.for /\ rec.edits = old.edits /\ rec.tried = old.tried /\ rec.done = old.done /\ rec.rest = old.rest
      /\ rec.seen = old.seen /\ rec.named = old.named /\ rec.held = old.held /\ rec.moved = old.moved
  BY <1>1 DEF Formeds, Records
<1>5. rec \in Formeds
  BY <1>1, <1>4, RecordParts DEF Formeds, Formed
<1> HIDE DEF rec
<1>6. /\ over \in Records /\ over.at = "lists" /\ over.list = None
      /\ over.for = old.for /\ over.edits = old.edits /\ over.tried = old.tried /\ over.done = old.done
      /\ over.rest = old.rest /\ over.seen = old.seen /\ over.named = old.named /\ over.held = old.held /\ over.moved = old.moved
  BY <1>4 DEF Records
<1>7. over \in Formeds
  BY <1>1, <1>6, RecordParts DEF Formeds, Formed
<1> HIDE DEF over
<1>8. CASE rec.left > 0
  <2>1. old.left > 1 /\ Goes(t, rec) /\ readings' = readings
    BY <1>1, <1>2, <1>4, <1>8 DEF left
  <2> QED BY <1>4, <1>5, <2>1 DEF left
<1>9. CASE ~(rec.left > 0)
  <2>1. old.left <= 1
    BY <1>1, <1>4, <1>9 DEF left
  <2> QED BY <1>2, <1>3, <1>6, <1>7, <1>9, <2>1
<1> QED BY <1>8, <1>9

LEMMA WriterListsReadLed ==
    ASSUME NoSource, LedInv, NEW w \in Writers, ListsRead(w)
    PROVE  LedFor(w)'
<1> DEFINE m == engine.mode
           rec == task[w]
           p == task["poll"]
           lead == Lead(w)'
<1>1. /\ HandInv /\ LedFor(w) /\ Types /\ w \in Tasks /\ rec \in Formeds /\ engine \in States /\ readings \in Views
      /\ Served(w) /\ rec.at = "lists" /\ up' = up /\ engine' = engine /\ up /\ task \in [Tasks -> Formeds]
  BY HandApart, TaskFormed DEF LedInv, HandInv, Sound, Types, ListsRead, At, Served
<1>2. Led(m, readings, rec, p, Lead(w)) /\ m \in Chains /\ m # None
  BY <1>1, LoadedMode, NotNone DEF LedFor
<1>3. WriterShape(rec) /\ rec.for \in {"batch", "resync"} /\ rec.left \in 1..ListReads
  BY <1>1, <1>2 DEF Led, WriterShape, Orderly
<1>4. m = IF rec.list = None THEN Loaded(engine) ELSE rec.list
  BY <1>1, <1>2, LoadedMode DEF Led, OwnReads
<1>5. CASE rec.left > 1
  <2>1. PICK s : /\ s \in Formeds /\ s.at = "lists" /\ Goes(w, s) /\ s.left = rec.left - 1 /\ s.list = m
                 /\ s.for = rec.for /\ s.edits = rec.edits /\ s.tried = rec.tried
                 /\ s.done = rec.done /\ s.rest = rec.rest /\ s.seen = rec.seen /\ readings' = readings
    <3>1. rec.left \in Int /\ ~(rec.left <= 1)
      BY <1>3, <1>5
    <3> HIDE DEF m
    <3> QED BY <1>1, <1>4, <3>1, ListsReadParts
  <2>2. Steps(w, s)
    BY <2>1 DEF Steps, Queued
  <2>3. /\ Led(m, readings, rec, p, 0) /\ task'[w] = s /\ task'["poll"] = p /\ p \in Formeds
        /\ lead \in {0, 1} /\ (p.at # "idle" => lead = 1)
    BY <1>1, <2>1, <2>2, WriterServed
  <2> HIDE DEF m, rec, p, lead
  <2>4. Led(m, readings, s, p, lead)
    BY <1>1, <1>5, <2>1, <2>3, WriterListing
  <2> QED BY <1>1, <2>1, <2>3, <2>4 DEF LedFor, m, p, lead
<1>6. CASE rec.left = 1
  <2>1. PICK r, s : /\ r \in Views /\ r.lists = m /\ r.state = readings.state /\ r.rate = readings.rate
                    /\ r.memory = readings.memory
                    /\ s \in Formeds /\ s.at = "lists" /\ s.list = None
                    /\ s.for = rec.for /\ s.edits = rec.edits /\ s.tried = rec.tried
                    /\ s.done = rec.done /\ s.rest = rec.rest /\ s.seen = rec.seen
                    /\ s.named = rec.named /\ s.held = rec.held
                    /\ HandsOn(w, r, s)
    <3>1. ~(rec.left > 1)
      BY <1>6
    <3> HIDE DEF m
    <3> QED BY <1>1, <1>4, <3>1, ListsReadParts
  <2>2. CASE rec.for = "resync"
    <3>1. s.seen \in States /\ s.seen.mode = m
      BY <1>1, <1>2, <2>1, <2>2, RecordParts DEF Led, OwnReads
    <3>2. readings' \in Views /\ readings'.state # None /\ readings'.state.mode = m /\ readings'.lists = m /\ Goes(w, Idle)
      BY <2>1, <2>2, <3>1, StateRead1 DEF HandsOn
    <3>3. Idle \in Formeds /\ Steps(w, Idle)
      BY <3>2, IdleFormed DEF Steps, Idle
    <3>4. /\ Led(m, readings, rec, p, 0) /\ task'[w] = Idle /\ task'["poll"] = p /\ p \in Formeds
          /\ lead \in {0, 1} /\ (p.at # "idle" /\ Idle.at # "idle" => lead = 1)
      BY <1>1, <3>3, WriterServed
    <3>5. Owed(rec, m) <= 1
      BY <2>2 DEF Owed, Switching
    <3>6. SetsOut(Idle, m)
      BY IdleSetsOut
    <3> HIDE DEF m, rec, p, lead
    <3>7. Led(m, readings', Idle, p, lead)
      BY <1>1, <3>2, <3>3, <3>4, <3>5, <3>6, WriterSetsOut
    <3> QED BY <1>1, <3>4, <3>7 DEF LedFor, m, p, lead
  <2>3. CASE rec.for = "batch" /\ "mode" \in rec.done
    <3> DEFINE k == Recorded(r, s)
               q == Reasserting(k, s)
    <3>1. readings' = Dropped(k, ActiveChain(k)) /\ Goes(w, q)
      BY <2>1, <2>3 DEF HandsOn, Bookkeeps
    <3>2. k \in Views /\ k.state = readings.state /\ k.lists = m
      BY <2>1, RecordedKept
    <3> HIDE DEF k
    <3>3. /\ q \in Formeds /\ q.at \in {"set", "reread"} /\ q.for = "chain" /\ Only(q, "filter")
          /\ q.tried = rec.tried /\ q.done = rec.done /\ q.rest = rec.rest /\ q.list = None
      BY <2>1, <3>2, ReassertingParts
    <3> HIDE DEF q
    <3>4. readings' \in Views /\ readings'.state = readings.state /\ readings'.lists = m
      BY <3>1, <3>2, ActiveChainType, DroppedTyped, ReadingsKept
    <3>5. Steps(w, q)
      BY <3>1, <3>3 DEF Steps, Queued
    <3>6. /\ Led(m, readings, rec, p, 0) /\ task'[w] = q /\ task'["poll"] = p /\ p \in Formeds
          /\ lead \in {0, 1} /\ (p.at # "idle" => lead = 1)
      BY <1>1, <3>3, <3>5, WriterServed
    <3> HIDE DEF m, rec, p, lead
    <3>7. Led(m, readings', q, p, lead)
      BY <1>1, <1>6, <2>3, <3>3, <3>4, <3>6, WriterReasserts
    <3> QED BY <1>1, <3>6, <3>7 DEF LedFor, m, p, lead
  <2>4. CASE rec.for = "batch" /\ "mode" \notin rec.done
    <3> DEFINE k == Recorded(r, s)
    <3>1. readings' = k /\ Ends(w, k, s)
      BY <2>1, <2>4 DEF HandsOn, Bookkeeps
    <3>2. Owed(rec, m) <= 1 /\ Owed(rec, m) = 0
      BY <1>1, <2>4 DEF Owed, Switching
    <3>3. k \in Views /\ k.state = readings.state /\ k.lists = m
      BY <2>1, RecordedKept
    <3> HIDE DEF k
    <3>4. k.state # None /\ k.state.mode = m
      BY <1>2, <2>4, <3>2, <3>3 DEF Led, StateRight
    <3>5. OneEach(s.rest) /\ \A q \in s.rest : q[1] # "mode"
      BY <1>3, <2>1 DEF WriterShape
    <3> QED BY <1>1, <2>1, <3>1, <3>2, <3>3, <3>4, <3>5, WriterEndsLed
  <2> QED BY <1>3, <2>2, <2>3, <2>4
<1> QED BY <1>3, <1>5, <1>6

-----------------------------------------------------------------------------
(* The poll's requests are served.                                          *)

\* A request of the poll that leaves nothing to come.
LEMMA PollQuiet ==
    ASSUME NEW m, NEW r \in Views, NEW w \in Formeds, NEW p \in Formeds, NEW lead, Led(m, r, w, p, lead),
           NEW k \in Views, k.lists = r.lists \/ k.lists = m \/ Switching(w, m),
           k.state # r.state => (k.state # None /\ (k.state.mode = m \/ Owed(w, m) > 0)),
           NEW s \in Formeds, PollShape(s), s.at \notin {"lists", "status"}
    PROVE  Led(m, k, w, s, 0)
  BY DEF Led, ListsRight, StateRight, ListsToCome, StateToCome

LEMMA IdlePolls == PollShape(Idle) /\ Idle.at = "idle"
<1>1. /\ Idle.at = "idle" /\ Idle.for = "batch" /\ Idle.edits = <<>> /\ Idle.tried = {} /\ Idle.done = {}
      /\ Idle.rest = {} /\ Idle.list = None
  BY DEF Idle
<1> QED BY <1>1 DEF PollShape, Orderly, Only

\* The poll served: what it was, and what carries over.
LEMMA PollPlaces ==
    ASSUME LedInv, NEW w \in Writers, Served("poll")
    PROVE  /\ HandInv /\ LedFor(w) /\ Types /\ "poll" \in Tasks /\ task["poll"] \in Formeds /\ task[w] \in Formeds
           /\ engine \in States /\ readings \in Views /\ up /\ PollShape(task["poll"])
           /\ Led(engine.mode, readings, task[w], task["poll"], Lead(w))
           /\ task \in [Tasks -> Formeds]
<1>1. /\ HandInv /\ LedFor(w) /\ Types /\ "poll" \in Tasks /\ task["poll"] \in Formeds /\ task[w] \in Formeds
      /\ engine \in States /\ readings \in Views /\ up /\ task \in [Tasks -> Formeds]
  BY HandApart, TaskFormed DEF LedInv, HandInv, Sound, Types, Served
<1>2. Led(engine.mode, readings, task[w], task["poll"], Lead(w))
  BY <1>1 DEF LedFor
<1> QED BY <1>1, <1>2 DEF Led

LEMMA PollSetLed ==
    ASSUME LedInv, NEW w \in Writers, Set("poll") \/ Ignored("poll")
    PROVE  LedFor(w)'
<1> DEFINE p == task["poll"]
           s == [p EXCEPT !.at = "check"]
           op == Head(p.edits)
<1>1. /\ Served("poll") /\ p.at = "set" /\ Goes("poll", s) /\ readings' = readings /\ up' = up
      /\ (engine' = engine \/ engine' = Took(engine, op))
  BY DEF Set, Ignored, At
<1>2. /\ HandInv /\ LedFor(w) /\ Types /\ "poll" \in Tasks /\ p \in Formeds /\ task[w] \in Formeds
      /\ engine \in States /\ readings \in Views /\ up /\ PollShape(p) /\ task \in [Tasks -> Formeds]
      /\ Led(engine.mode, readings, task[w], p, Lead(w))
  BY <1>1, PollPlaces
<1>3. Steps("poll", s)
  BY <1>1, <1>2, SetSteps DEF At
<1>4. op \in Ops
  BY <1>1, <1>2, FirstOp
<1>5. op.setting = "filter"
  <2>1. op = p.edits[1] /\ 1 \in 1..Len(p.edits)
    BY <1>1, <1>2, RecordParts DEF Formed
  <2> QED BY <1>2, <2>1 DEF PollShape, Only
<1>6. engine'.mode = engine.mode
  BY <1>1, <1>2, <1>4, <1>5, TookMode
<1>7. /\ s.at = "check" /\ s.for = p.for /\ s.edits = p.edits /\ s.tried = p.tried /\ s.done = p.done
      /\ s.rest = p.rest /\ s.list = p.list
  BY <1>2 DEF Formeds, Records
<1> HIDE DEF p, s, op
<1>8. PollShape(s)
  BY <1>1, <1>2, <1>7 DEF PollShape, Orderly, Only
<1>9. task'["poll"] = s /\ task'[w] = task[w] /\ s \in Formeds /\ Lead(w)' = 0
  BY <1>1, <1>2, <1>3, PollServed
<1>10. Led(engine.mode, readings, task[w], s, 0)
  BY <1>2, <1>7, <1>8, <1>9, PollQuiet
<1> QED BY <1>1, <1>2, <1>6, <1>9, <1>10 DEF LedFor

LEMMA PollCheckLed ==
    ASSUME LedInv, NEW w \in Writers, Check("poll")
    PROVE  LedFor(w)'
<1> DEFINE p == task["poll"]
<1>1. Served("poll") /\ p.at = "check" /\ readings' = readings /\ up' = up /\ engine' = engine
  BY DEF Check, At
<1>2. /\ HandInv /\ LedFor(w) /\ Types /\ "poll" \in Tasks /\ p \in Formeds /\ task[w] \in Formeds
      /\ engine \in States /\ readings \in Views /\ up /\ PollShape(p) /\ task \in [Tasks -> Formeds]
      /\ Led(engine.mode, readings, task[w], p, Lead(w))
  BY <1>1, PollPlaces
<1>3. PICK s : /\ Steps("poll", s) /\ p.at = "check" /\ Served("poll")
               /\ s.at = (IF Tail(p.edits) = <<>> THEN Sent(p) ELSE "set")
               /\ s.edits = Tail(p.edits) /\ s.tried = p.tried \cup {Head(p.edits).setting}
               /\ s.done = p.done \cup (IF engine[Head(p.edits).setting] = Head(p.edits).value
                                        THEN {Head(p.edits).setting} ELSE {})
               /\ s.for = p.for /\ s.named = p.named /\ s.held = p.held /\ s.rest = p.rest
               /\ s.list = p.list /\ s.seen = p.seen /\ s.left = p.left
  BY <1>2, CheckParts
<1>4. task'["poll"] = s /\ task'[w] = task[w] /\ s \in Formeds /\ Lead(w)' = 0
  BY <1>1, <1>2, <1>3, PollServed
<1>5. p.for = "chain" /\ p.list = None /\ p.done \subseteq p.tried /\ p.rest = {} /\ Only(p, "filter")
  BY <1>1, <1>2 DEF PollShape, Orderly
<1>6. s.at \in {"set", "reread"}
  BY <1>3, <1>5 DEF Sent
<1>7. Only(s, "filter")
  <2>1. p.edits \in Seq(Ops) /\ p.edits # <<>>
    BY <1>1, <1>2, RecordParts DEF Formed
  <2>2. Len(p.edits) \in Nat \ {0} /\ Len(s.edits) = Len(p.edits) - 1
    BY <1>3, <2>1
  <2>3. \A i \in 1..Len(s.edits) : i + 1 \in 1..Len(p.edits) /\ s.edits[i] = p.edits[i + 1]
    BY <1>3, <2>1, <2>2
  <2> QED BY <1>5, <2>3 DEF Only
<1>8. s.done \subseteq s.tried
  BY <1>3, <1>5
<1>9. PollShape(s)
  BY <1>3, <1>5, <1>6, <1>7, <1>8 DEF PollShape, Orderly
<1> HIDE DEF p
<1>10. Led(engine.mode, readings, task[w], s, 0)
  BY <1>2, <1>4, <1>6, <1>9, PollQuiet
<1> QED BY <1>1, <1>2, <1>4, <1>10 DEF LedFor

LEMMA PollRereadLed ==
    ASSUME LedInv, NEW w \in Writers, Reread("poll")
    PROVE  LedFor(w)'
<1> DEFINE p == task["poll"]
           r == [readings EXCEPT !.state = engine]
<1>1. Served("poll") /\ readings' = r /\ up' = up /\ engine' = engine /\ Ends("poll", r, p)
  BY DEF Reread
<1>2. /\ HandInv /\ LedFor(w) /\ "poll" \in Tasks /\ p \in Formeds /\ task[w] \in Formeds
      /\ engine \in States /\ readings \in Views /\ up /\ PollShape(p)
      /\ Led(engine.mode, readings, task[w], p, Lead(w))
  BY <1>1, PollPlaces
<1>3. r \in Views /\ r.state = engine /\ r.state # None /\ r.lists = readings.lists
  BY <1>2, StateRead1
<1>4. Goes("poll", Idle)
  BY <1>1, <1>2 DEF PollShape, Ends
<1>5. Steps("poll", Idle)
  BY <1>4, IdleFormed, IdlePolls DEF Steps
<1>6. task'["poll"] = Idle /\ task'[w] = task[w] /\ Idle \in Formeds /\ Lead(w)' = 0
  BY <1>1, <1>2, <1>5, PollServed
<1> HIDE DEF p, r
<1>7. Led(engine.mode, r, task[w], Idle, 0)
  BY <1>2, <1>3, <1>6, IdlePolls, PollQuiet
<1> QED BY <1>1, <1>2, <1>6, <1>7 DEF LedFor

\* The poll found another chain loaded: what is held for it goes out, or nothing.
LEMMA PollEnters ==
    ASSUME LedInv, NEW w \in Writers, Served("poll"),
           NEW r \in Views, r.lists = readings.lists \/ r.lists = engine.mode \/ Switching(task[w], engine.mode),
           r.state # readings.state => (r.state # None /\ (r.state.mode = engine.mode \/ Owed(task[w], engine.mode) > 0)),
           NEW rec \in Formeds, rec.list = None, rec.done \subseteq rec.tried, rec.rest = {},
           Enters("poll", r, rec), up' = up, engine' = engine
    PROVE  LedFor(w)'
<1> DEFINE p == task["poll"]
           q == Reasserting(r, rec)
           s == IF q.at = "set" THEN q ELSE Idle
           k == Dropped(r, ActiveChain(r))
<1>1. /\ HandInv /\ LedFor(w) /\ p \in Formeds /\ task[w] \in Formeds
      /\ engine \in States /\ readings \in Views /\ up /\ PollShape(p)
      /\ Led(engine.mode, readings, task[w], p, Lead(w))
  BY PollPlaces
<1>2. readings' = k /\ Goes("poll", s)
  BY DEF Enters
<1>3. k \in Views /\ k.lists = r.lists /\ k.state = r.state
  BY ActiveChainType, DroppedTyped, ReadingsKept
<1>4. /\ q \in Formeds /\ q.for = "chain" /\ Only(q, "filter")
      /\ q.tried = rec.tried /\ q.done = rec.done /\ q.rest = rec.rest /\ q.list = rec.list
  BY ReassertingParts
<1> HIDE DEF q, k, p
<1>5. s \in Formeds /\ s.at \in {"set", "idle"} /\ PollShape(s)
  <2>1. CASE q.at = "set"
    <3>1. s = q
      BY <2>1
    <3> HIDE DEF s
    <3> QED BY <1>4, <2>1, <3>1 DEF PollShape, Orderly
  <2>2. CASE q.at # "set"
    BY <2>2, IdleFormed, IdlePolls
  <2> QED BY <2>1, <2>2
<1> HIDE DEF s
<1>6. Steps("poll", s)
  BY <1>2, <1>5 DEF Steps, Queued
<1>7. task'["poll"] = s /\ task'[w] = task[w] /\ Lead(w)' = 0
  BY <1>1, <1>6, PollServed
<1>8. Led(engine.mode, k, task[w], s, 0)
  BY <1>1, <1>3, <1>5, PollQuiet
<1> QED BY <1>1, <1>2, <1>7, <1>8 DEF LedFor

LEMMA PollListsReadLed ==
    ASSUME NoSource, LedInv, NEW w \in Writers, ListsRead("poll")
    PROVE  LedFor(w)'
<1> DEFINE p == task["poll"]
           m == engine.mode
           v == task[w]
           lead == Lead(w)
<1>1. Served("poll") /\ p.at = "lists" /\ up' = up /\ engine' = engine
  BY DEF ListsRead, At
<1>2. /\ HandInv /\ LedFor(w) /\ Types /\ "poll" \in Tasks /\ p \in Formeds /\ v \in Formeds
      /\ engine \in States /\ readings \in Views /\ up /\ PollShape(p)
      /\ Led(m, readings, v, p, lead)
  BY <1>1, PollPlaces
<1>3. Loaded(engine) = m /\ m \in Chains /\ m # None
  BY <1>2, LoadedMode, NotNone
<1>4. p.for \in {"heartbeat", "chain"} /\ p.left \in 1..ListReads /\ p.done \subseteq p.tried /\ p.rest = {} /\ Only(p, "filter")
  BY <1>1, <1>2 DEF PollShape, Orderly
<1>5. \A s : Steps("poll", s) => /\ task'["poll"] = s /\ task'[w] = v /\ Lead(w)' = 0
  BY <1>1, <1>2, PollServed
<1>6. lead \in {0, 1} /\ (v.at # "idle" => lead = 1)
  <2>1. PICK s : Steps("poll", s)
    BY <1>2, ListsReadSteps
  <2> QED BY <1>1, <1>2, <2>1, PollServed
<1>7. CASE p.left > 1
  <2> DEFINE list == IF p.list = None THEN Loaded(engine) ELSE p.list
  <2>1. p.left \in Int /\ ~(p.left <= 1)
    BY <1>4, <1>7
  <2>2. PICK s : /\ s \in Formeds /\ s.at = "lists" /\ Goes("poll", s) /\ s.left = p.left - 1 /\ s.list = list
                 /\ s.for = p.for /\ s.edits = p.edits /\ s.tried = p.tried
                 /\ s.done = p.done /\ s.rest = p.rest /\ s.seen = p.seen /\ readings' = readings
    <3> HIDE DEF m
    <3> QED BY <1>2, <2>1, ListsReadParts, HandApart
  <2>3. s.list = (IF p.list = None THEN m ELSE p.list)
    BY <1>3, <2>2
  <2>4. Steps("poll", s)
    BY <2>2 DEF Steps, Queued
  <2>5. task'["poll"] = s /\ task'[w] = v /\ Lead(w)' = 0
    BY <1>5, <2>4
  <2> HIDE DEF m, p, v, lead
  <2>6. Led(m, readings, v, s, 0)
    BY <1>1, <1>2, <1>6, <1>7, <2>2, <2>3, PollListing
  <2> QED BY <1>1, <1>2, <2>2, <2>5, <2>6 DEF LedFor, m, v
<1>8. CASE p.left = 1
  <2> DEFINE list == IF p.list = None THEN Loaded(engine) ELSE p.list
  <2>1. ~(p.left > 1)
    BY <1>8
  <2>2. PICK r, s : /\ r \in Views /\ r.lists = list /\ r.state = readings.state /\ r.rate = readings.rate
                    /\ r.memory = readings.memory
                    /\ s \in Formeds /\ s.at = "lists" /\ s.list = None
                    /\ s.for = p.for /\ s.edits = p.edits /\ s.tried = p.tried
                    /\ s.done = p.done /\ s.rest = p.rest /\ s.seen = p.seen
                    /\ s.named = p.named /\ s.held = p.held
                    /\ HandsOn("poll", r, s)
    <3> HIDE DEF m
    <3> QED BY <1>2, <2>1, ListsReadParts
  <2>3. /\ p.list \in {None, m} \/ Switching(v, m)
        /\ p.for = "heartbeat" => p.seen # None /\ (p.seen.mode = m \/ 1 <= Slack(v, m, 0))
    <3> HIDE DEF m, p, v, lead
    <3> QED BY <1>1, <1>2, <1>6, <1>8, PollListed
  <2>4. r.lists = m \/ Switching(v, m)
    BY <1>3, <2>2, <2>3
  <2>5. CASE p.for = "chain"
    <3>1. Enters("poll", r, s) /\ s.done \subseteq s.tried /\ s.rest = {}
      BY <1>4, <2>2, <2>5 DEF HandsOn
    <3> HIDE DEF list
    <3> QED BY <1>1, <2>2, <2>4, <3>1, PollEnters
  <2>6. CASE p.for = "heartbeat"
    <3> DEFINE n == [s EXCEPT !.at = "status"]
    <3>1. readings' = r /\ Goes("poll", n)
      BY <2>2, <2>6 DEF HandsOn
    <3>2. n \in Formeds
      BY <2>2, PlacedFormed
    <3>3. /\ n.at = "status" /\ n.for = "heartbeat" /\ n.edits = p.edits /\ n.tried = p.tried /\ n.done = p.done
          /\ n.rest = p.rest /\ n.list = None /\ n.seen = p.seen
      BY <2>2, <2>6 DEF Formeds, Records
    <3> HIDE DEF n
    <3>4. Steps("poll", n)
      BY <3>1, <3>2, <3>3 DEF Steps, Queued
    <3>5. task'["poll"] = n /\ task'[w] = v /\ Lead(w)' = 0
      BY <1>5, <3>4
    <3> HIDE DEF m, p, v, lead, list
    <3>6. PollShape(n)
      BY <1>4, <3>3 DEF PollShape, Orderly, Only
    <3>7. StateToCome(m, v, n, 0) /\ ListsToCome(m, v, n, 0)
      BY <2>3, <2>6, <3>3 DEF StateToCome, ListsToCome, Due
    <3>8. Led(m, r, v, n, 0)
      BY <1>2, <2>2, <2>4, <3>6, <3>7 DEF Led, ListsRight, StateRight
    <3> QED BY <1>1, <1>2, <3>1, <3>5, <3>8 DEF LedFor, m, v
  <2> QED BY <1>4, <2>5, <2>6
<1> QED BY <1>4, <1>7, <1>8

\* A heartbeat has read State: it is of the mode, and so is what it reads next.
LEMMA PollStateReadLed ==
    ASSUME LedInv, NEW w \in Writers, StateRead
    PROVE  LedFor(w)'
<1> DEFINE p == task["poll"]
           m == engine.mode
           v == task[w]
           moved == readings.state # None /\ Differs(p.seen, engine)
           rec == [p EXCEPT !.seen = engine, !.moved = moved]
           n == IF moved THEN Listing(rec) ELSE [rec EXCEPT !.at = "status"]
<1>1. Served("poll") /\ p.at = "state" /\ up' = up /\ engine' = engine /\ readings' = readings /\ Goes("poll", n)
  BY DEF StateRead, At
<1>2. /\ HandInv /\ LedFor(w) /\ p \in Formeds /\ v \in Formeds
      /\ engine \in States /\ readings \in Views /\ up /\ PollShape(p)
      /\ Led(m, readings, v, p, Lead(w))
  BY <1>1, PollPlaces
<1>3. p.for = "heartbeat" /\ p.list = None /\ p.done \subseteq p.tried /\ p.rest = {} /\ Only(p, "filter")
  BY <1>1, <1>2 DEF PollShape, Orderly
<1>4. moved \in BOOLEAN
  BY DEF Differs
<1> HIDE DEF moved
<1>5. /\ rec \in Formeds /\ rec.for = "heartbeat" /\ rec.edits = p.edits /\ rec.tried = p.tried /\ rec.done = p.done
      /\ rec.rest = p.rest /\ rec.list = p.list /\ rec.seen = engine
  <2>1. p \in Records /\ Formed(p)
    BY <1>2 DEF Formeds
  <2>2. /\ rec \in Records /\ rec.at = p.at /\ rec.for = p.for /\ rec.edits = p.edits /\ rec.tried = p.tried
        /\ rec.done = p.done /\ rec.rest = p.rest /\ rec.list = p.list /\ rec.seen = engine /\ rec.held = p.held
    <3> HIDE DEF p
    <3> QED BY <1>2, <1>4, <2>1 DEF Records
  <2> HIDE DEF rec, p
  <2> QED BY <1>3, <2>1, <2>2 DEF Formeds, Formed
<1> HIDE DEF rec
<1>6. /\ n \in Formeds /\ n.at \in {"lists", "status"} /\ (n.at = "lists" => n.left = ListReads)
      /\ n.for = "heartbeat" /\ n.edits = p.edits /\ n.tried = p.tried /\ n.done = p.done
      /\ n.rest = p.rest /\ n.list = None /\ n.seen = engine
  <2>1. CASE moved
    BY <1>3, <1>5, <2>1, ListingParts
  <2>2. CASE ~moved
    <3>1. [rec EXCEPT !.at = "status"] \in Formeds
      BY <1>5, PlacedFormed
    <3> QED BY <1>3, <1>5, <2>2, <3>1 DEF Formeds, Records
  <2> QED BY <2>1, <2>2
<1> HIDE DEF n
<1>7. Steps("poll", n)
  BY <1>1, <1>6 DEF Steps, Queued
<1>8. task'["poll"] = n /\ task'[w] = v /\ Lead(w)' = 0
  BY <1>1, <1>2, <1>7, PollServed
<1>9. n.seen # None
  BY <1>2, <1>6, NotNone
<1> HIDE DEF m, p, v
<1>10. PollShape(n)
  BY <1>3, <1>6, ReadsAssumption DEF PollShape, Orderly, Only
<1>11. StateToCome(m, v, n, 0) /\ ListsToCome(m, v, n, 0)
  BY <1>6, <1>9 DEF StateToCome, ListsToCome, m
<1>12. Led(m, readings, v, n, 0)
  BY <1>2, <1>10, <1>11 DEF Led
<1> QED BY <1>1, <1>2, <1>8, <1>12 DEF LedFor, m, v

\* A heartbeat publishes its State, and looks after the chain it finds entered.
LEMMA PollStatusReadLed ==
    ASSUME LedInv, NEW w \in Writers, StatusRead
    PROVE  LedFor(w)'
<1> DEFINE p == task["poll"]
           m == engine.mode
           v == task[w]
           rec == [p EXCEPT !.for = "chain"]
           r == [readings EXCEPT !.state = rec.seen, !.rate = RateFamily(engine)]
           l == Listing(rec)
<1>1. /\ Served("poll") /\ p.at = "status" /\ up' = up /\ engine' = engine
      /\ \/ readings' = r /\ Goes("poll", Idle)
         \/ Enters("poll", r, rec)
         \/ readings' = r /\ Goes("poll", l)
  BY DEF StatusRead, At
<1>2. /\ HandInv /\ LedFor(w) /\ p \in Formeds /\ v \in Formeds /\ "poll" \in Tasks /\ Types
      /\ engine \in States /\ readings \in Views /\ up /\ PollShape(p)
      /\ Led(m, readings, v, p, Lead(w))
  BY <1>1, PollPlaces
<1>3. p.list = None /\ p.done \subseteq p.tried /\ p.rest = {} /\ Only(p, "filter")
  BY <1>1, <1>2 DEF PollShape, Orderly
<1>4. \A s : Steps("poll", s) => /\ task'["poll"] = s /\ task'[w] = v /\ Lead(w)' = 0
  BY <1>1, <1>2, PollServed
<1>5. Lead(w) \in {0, 1} /\ (v.at # "idle" => Lead(w) = 1)
  <2>1. PICK s : Steps("poll", s)
    BY <1>2, StatusReadSteps
  <2> QED BY <1>1, <1>2, <2>1, PollServed
<1>6. p.seen \in States /\ (p.seen.mode = m \/ Owed(v, m) > 0)
  <2> HIDE DEF m, v
  <2> QED BY <1>1, <1>2, <1>5, PollStatus, RecordParts
<1>7. /\ rec \in Formeds /\ rec.at = p.at /\ rec.for = "chain" /\ rec.edits = p.edits /\ rec.tried = p.tried /\ rec.done = p.done
      /\ rec.rest = p.rest /\ rec.list = None /\ rec.seen = p.seen
  BY <1>2, <1>3, RecordParts DEF Formeds, Records, Formed, Purposes
<1>8. r \in Views /\ r.lists = readings.lists /\ r.state = p.seen /\ r.state # None
  <2>1. RateFamily(engine) \in Chains \cup {None}
    BY <1>2, RateFamilyChain
  <2>2. p.seen # None
    BY <1>6, NotNone
  <2> HIDE DEF rec
  <2> QED BY <1>2, <1>6, <1>7, <2>1, <2>2 DEF Views
<1> HIDE DEF rec, r
<1>9. CASE Enters("poll", r, rec)
  BY <1>1, <1>3, <1>6, <1>7, <1>8, <1>9, PollEnters
<1>10. CASE readings' = r /\ Goes("poll", Idle)
  <2>1. Steps("poll", Idle)
    BY <1>10, IdleFormed, IdlePolls DEF Steps
  <2> HIDE DEF m, v, p
  <2>2. Led(m, r, v, Idle, 0)
    BY <1>2, <1>6, <1>8, IdleFormed, IdlePolls, PollQuiet
  <2> QED BY <1>1, <1>2, <1>4, <1>10, <2>1, <2>2 DEF LedFor, m, v
<1>11. CASE readings' = r /\ Goes("poll", l)
  <2>1. /\ l \in Formeds /\ l.at = "lists" /\ l.left = ListReads /\ l.list = None /\ l.for = "chain"
        /\ l.edits = p.edits /\ l.tried = p.tried /\ l.done = p.done /\ l.rest = p.rest
    BY <1>7, ListingParts
  <2> HIDE DEF l
  <2>2. Steps("poll", l)
    BY <1>11, <2>1 DEF Steps, Queued
  <2> HIDE DEF m, v, p
  <2>3. PollShape(l)
    BY <1>3, <2>1, ReadsAssumption DEF PollShape, Orderly, Only
  <2>4. Led(m, r, v, l, 0)
    BY <1>2, <1>6, <1>8, <2>1, <2>3 DEF Led, ListsRight, StateRight, ListsToCome, StateToCome
  <2> QED BY <1>1, <1>2, <1>4, <1>11, <2>2, <2>4 DEF LedFor, m, v
<1> QED BY <1>1, <1>9, <1>10, <1>11

-----------------------------------------------------------------------------
(* Auto-pilot, and what starts.                                             *)

\* Auto-pilot's request leaves the mode, the lists, the writer and the poll.
LEMMA PilotLed ==
    ASSUME LedInv, NEW w \in Writers, Serving("pilot") \/ Ignored("pilot")
    PROVE  LedFor(w)'
<1> DEFINE c == task["pilot"]
<1>1. /\ HandInv /\ LedFor(w) /\ Sound /\ Types /\ "pilot" \in Tasks /\ c \in Formeds /\ engine \in States
      /\ readings \in Views /\ OneSetter(c) /\ w \in Tasks \ {"pilot"} /\ "poll" \in Tasks \ {"pilot"}
  BY HandApart, TaskFormed DEF LedInv, HandInv, Sound, Types
<1>2. CASE Set("pilot") \/ Ignored("pilot") \/ Check("pilot")
  <2>1. Served("pilot") /\ up /\ up' = up /\ readings' = readings /\ \E s : Steps("pilot", s)
    <3>1. Served("pilot") /\ up /\ up' = up /\ readings' = readings
      BY <1>2 DEF Set, Ignored, Check, Served
    <3>2. \E s : Steps("pilot", s)
      BY <1>1, <1>2, SetSteps, CheckSteps DEF Set, Ignored
    <3> QED BY <3>1, <3>2
  <2>2. engine'.mode = engine.mode
    <3>1. CASE Set("pilot")
      <4>1. Head(c.edits) \in Ops /\ Head(c.edits).setting = "junk_filter"
        BY <1>1, <3>1, FirstOp DEF Set, At, OneSetter
      <4> QED BY <1>1, <3>1, <4>1, TookMode DEF Set
    <3> QED BY <1>2, <3>1 DEF Ignored, Check
  <2>3. PICK s : Steps("pilot", s)
    BY <2>1
  <2>4. task'[w] = task[w] /\ task'["poll"] = task["poll"] /\ (Ahead("poll", w) => Ahead("poll", w)')
    BY <1>1, <2>1, <2>3, ServedPlaces
  <2> QED BY <1>1, <2>1, <2>2, <2>4, LedKept
<1>3. CASE Refresh("pilot")
  <2> DEFINE r == [readings EXCEPT !.state = engine]
             k == Recorded(r, c)
  <2>1. Served("pilot") /\ up /\ up' = up /\ engine' = engine /\ c.tried \cap {"mode", "filter"} = {} /\ "mode" \notin c.done
    BY <1>1, <1>3 DEF Refresh, Served, OneSetter
  <2>2. readings' = k
    BY <1>3, <2>1 DEF Refresh, Bookkeeps
  <2>3. r \in Views /\ r.state = engine /\ r.state # None /\ r.lists = readings.lists
    BY <1>1, StateRead1
  <2> HIDE DEF r
  <2>4. k \in Views /\ k.state = r.state /\ k.lists = r.lists
    BY <1>1, <2>3, RecordedKept
  <2> HIDE DEF k
  <2>5. PICK s : Steps("pilot", s)
    BY <1>1, <1>3, RefreshSteps
  <2>6. task'[w] = task[w] /\ task'["poll"] = task["poll"] /\ (Ahead("poll", w) => Ahead("poll", w)')
    BY <1>1, <2>1, <2>5, ServedPlaces
  <2> QED BY <1>1, <2>1, <2>2, <2>3, <2>4, <2>6, LedKept
<1>4. ~(Reread("pilot") \/ ListsRead("pilot") \/ Fetch("pilot"))
  BY <1>1 DEF Reread, ListsRead, Fetch, At, OneSetter
<1> QED BY <1>2, <1>3, <1>4 DEF Serving

\* A task that takes its place stays where it is for the others.
LEMMA StartsPlaces ==
    ASSUME HandInv, NEW t \in Tasks, NEW s, Starts(t, s)
    PROVE  /\ task' = [task EXCEPT ![t] = s] /\ task'[t] = s /\ (\A u \in Tasks \ {t} : task'[u] = task[u])
           /\ s \in Formeds /\ s.at # "idle" /\ task[t].at = "idle"
           /\ \A a, b : Ahead(a, b) => Ahead(a, b)'
           /\ \A a \in Tasks : task[a].at \in Queued => Ahead(a, t)'
<1>1. Sound /\ task \in [Tasks -> Formeds]
  BY DEF HandInv, Sound, Types
<1>2. task' = [task EXCEPT ![t] = s] /\ queue' = Append(queue, t) /\ s \in Formeds /\ s.at # "idle" /\ task[t].at = "idle"
  BY DEF Starts, Joins, At
<1>3. \A a, b : Ahead(a, b) => Ahead(a, b)'
  BY <1>1, <1>2, JoinsAhead
<1>4. \A a \in Tasks : task[a].at \in Queued => Ahead(a, t)'
  BY <1>1, <1>2, JoinsAhead
<1> QED BY <1>1, <1>2, <1>3, <1>4

LEMMA ActLed ==
    ASSUME LedInv, NEW w \in Writers, NEW want \in Junk, Act(want)
    PROVE  LedFor(w)'
<1> DEFINE fs == {<<"junk_filter", want>>}
           s == Started(readings, Idle, fs, {})
<1>1. HandInv /\ LedFor(w) /\ Types /\ "pilot" \in Tasks /\ w \in Tasks \ {"pilot"} /\ "poll" \in Tasks \ {"pilot"}
      /\ fs \in SUBSET Fields
  BY HandApart, NamedIsField DEF LedInv, HandInv, Sound
<1>2. up /\ up' = up /\ engine' = engine /\ readings' = readings /\ Joins("pilot", s)
  BY DEF Act
<1>3. Starts("pilot", s)
  BY <1>1, <1>2, WriteStarts
<1> HIDE DEF s
<1>4. task'[w] = task[w] /\ task'["poll"] = task["poll"] /\ (Ahead("poll", w) => Ahead("poll", w)')
  BY <1>1, <1>3, StartsPlaces
<1> QED BY <1>1, <1>2, <1>4, LedKept

LEMMA BeatLed ==
    ASSUME LedInv, NEW w \in Writers, Beat
    PROVE  LedFor(w)'
<1> DEFINE s == [Idle EXCEPT !.at = "state", !.for = "heartbeat", !.seen = readings.state]
<1>1. /\ HandInv /\ LedFor(w) /\ "poll" \in Tasks /\ w \in Tasks \ {"poll"} /\ readings.state \in States \cup {None}
      /\ task[w] \in Formeds /\ task["poll"] \in Formeds /\ readings \in Views
  BY HandApart, ViewParts, TaskFormed DEF LedInv, HandInv, Sound, Types
<1>2. up /\ up' = up /\ engine' = engine /\ readings' = readings /\ Joins("poll", s)
  BY DEF Beat
<1>3. s \in Formeds
  BY <1>1, AskingFormed DEF Purposes
<1>4. s.at = "state" /\ s.for = "heartbeat" /\ s.edits = <<>> /\ s.tried = {} /\ s.done = {} /\ s.rest = {} /\ s.list = None
  BY DEF Idle
<1>5. PollShape(s)
  BY <1>4 DEF PollShape, Orderly, Only
<1> HIDE DEF s
<1>6. Starts("poll", s)
  BY <1>2, <1>3, <1>4 DEF Starts, Queued
<1>7. task'["poll"] = s /\ task'[w] = task[w]
  BY <1>1, <1>6, StartsPlaces
<1>8. Led(engine.mode, readings, task[w], s, 0)
  BY <1>1, <1>2, <1>3, <1>4, <1>5, PollQuiet DEF LedFor
<1>9. Led(engine.mode, readings, task[w], s, Lead(w)')
  <2>1. Lead(w)' \in {0, 1} /\ 0 <= Lead(w)'
    BY DEF Lead
  <2> QED BY <1>1, <1>3, <1>8, <2>1, LedAhead
<1> QED BY <1>2, <1>7, <1>9 DEF LedFor

\* A writer with nothing under way: State and lists are those of the mode.
LEMMA WriterIdle ==
    ASSUME NoSource, LedInv, NEW w \in Writers, up, task[w].at = "idle"
    PROVE  /\ Led(engine.mode, readings, task[w], task["poll"], 0) /\ Owed(task[w], engine.mode) <= 1
           /\ readings.lists = engine.mode /\ readings.state # None /\ readings.state.mode = engine.mode
           /\ engine.mode \in Chains
<1>1. w \in Tasks /\ Sound /\ LedFor(w) /\ engine \in States
  BY HandApart DEF LedInv, HandInv, Sound, Types
<1>2. Led(engine.mode, readings, task[w], task["poll"], Lead(w))
  BY <1>1 DEF LedFor
<1>3. ~Ahead("poll", w)
  BY <1>1, AheadWaits DEF Queued
<1>4. task[w].for = "batch"
  BY <1>2 DEF Led, WriterShape
<1>5. Owed(task[w], engine.mode) = 0 /\ ~Switching(task[w], engine.mode)
  BY <1>4 DEF Owed, Switching
<1>6. readings.lists = engine.mode /\ readings.state # None /\ readings.state.mode = engine.mode
  BY <1>2, <1>4, <1>5 DEF Led, ListsRight, StateRight
<1> QED BY <1>1, <1>2, <1>3, <1>5, <1>6, LoadedMode DEF Lead

\* A request of the writer starts.
LEMMA WriterStartsLed ==
    ASSUME NoSource, LedInv, NEW w \in Writers, NEW s, Starts(w, s), SetsOut(s, engine.mode),
           up, up' = up, engine' = engine, readings' = readings
    PROVE  LedFor(w)'
<1> DEFINE m == engine.mode
           p == task["poll"]
           lead == Lead(w)'
<1>1. /\ HandInv /\ w \in Tasks /\ "poll" \in Tasks \ {w} /\ p \in Formeds /\ task[w] \in Formeds /\ readings \in Views
  BY HandApart, TaskFormed DEF LedInv, HandInv, Sound, Types
<1>2. /\ task'[w] = s /\ task'["poll"] = p /\ s \in Formeds /\ task[w].at = "idle"
      /\ (p.at \in Queued => Ahead("poll", w)')
  BY <1>1, StartsPlaces
<1>3. /\ Led(m, readings, task[w], p, 0) /\ Owed(task[w], m) <= 1
      /\ readings.lists = m /\ readings.state # None /\ readings.state.mode = m
  BY <1>2, WriterIdle
<1>4. lead \in {0, 1} /\ (p.at # "idle" => lead = 1)
  <2>1. p.at = "idle" \/ p.at \in Queued
    BY <1>3 DEF Led, PollShape, Queued
  <2> QED BY <1>2, <2>1 DEF Lead
<1> HIDE DEF m, p, lead
<1>5. Led(m, readings, s, p, lead)
  BY <1>1, <1>2, <1>3, <1>4, WriterSetsOut DEF m
<1> QED BY <1>2, <1>5 DEF LedFor, m, p, lead

LEMMA WriteLed ==
    ASSUME NoSource, LedInv, NEW w \in Writers, NEW p \in Edits, Write(w, p)
    PROVE  LedFor(w)'
<1> DEFINE s == Started(readings, Idle, {p}, {})
<1>1. up /\ up' = up /\ engine' = engine /\ readings' = readings /\ Joins(w, s)
  BY DEF Write
<1>2. w \in Tasks /\ Types /\ {p} \in SUBSET Fields /\ {} \in SUBSET Fields /\ OneEach({p}) /\ OneEach({}) /\ readings \in Views
  BY HandApart, EditIsField DEF LedInv, HandInv, Sound, Types, OneEach
<1>3. Starts(w, s)
  BY <1>1, <1>2, WriteStarts
<1>4. task[w].at = "idle"
  BY <1>1 DEF Joins, At
<1>5. SetsOut(s, engine.mode)
  BY <1>1, <1>2, <1>4, WriterIdle, StartedSetsOut
<1> HIDE DEF s
<1> QED BY <1>1, <1>3, <1>5, WriterStartsLed

LEMMA ApplyPresetLed ==
    ASSUME NoSource, LedInv, NEW w \in Writers, NEW fs \in Presets, ApplyPreset(w, fs)
    PROVE  LedFor(w)'
<1> DEFINE s == Routed(readings, Idle, fs)
<1>1. up /\ up' = up /\ engine' = engine /\ readings' = readings /\ Joins(w, s)
  BY DEF ApplyPreset
<1>2. w \in Tasks /\ Types /\ fs \in SUBSET Fields /\ OneEach(fs) /\ readings \in Views
  BY HandApart, EditIsField, PresetsAssumption DEF LedInv, HandInv, Sound, Types, OneEach
<1>3. Starts(w, s)
  BY <1>1, <1>2, PresetStarts
<1>4. task[w].at = "idle"
  BY <1>1 DEF Joins, At
<1>5. SetsOut(s, engine.mode)
  BY <1>1, <1>2, <1>4, WriterIdle, RoutedSetsOut
<1> HIDE DEF s
<1> QED BY <1>1, <1>3, <1>5, WriterStartsLed

\* A resync forgets State; what is on its way to the poll is of the mode.
LEMMA ResyncLed ==
    ASSUME NoSource, LedInv, NEW w \in Writers, Resync(w)
    PROVE  LedFor(w)'
<1> DEFINE m == engine.mode
           p == task["poll"]
           v == task[w]
           s == [Idle EXCEPT !.at = "fetch", !.for = "resync"]
           k == [readings EXCEPT !.state = None, !.memory = Forgotten]
<1>1. up /\ up' = up /\ engine' = engine /\ readings' = k /\ Joins(w, s)
  BY DEF Resync
<1>2. /\ HandInv /\ w \in Tasks /\ "poll" \in Tasks \ {w} /\ p \in Formeds /\ v \in Formeds /\ readings \in Views
      /\ task \in [Tasks -> Formeds]
  BY HandApart, TaskFormed DEF LedInv, HandInv, Sound, Types
<1>3. v.at = "idle" /\ task'[w] = s /\ task'["poll"] = p
  BY <1>1, <1>2 DEF Joins, At
<1>4. /\ Led(m, readings, v, p, 0) /\ Owed(v, m) <= 1 /\ readings.lists = m
  BY <1>1, <1>3, WriterIdle
<1>5. /\ s.at = "fetch" /\ s.for = "resync" /\ s.edits = <<>> /\ s.tried = {} /\ s.done = {} /\ s.rest = {} /\ s.list = None
  BY DEF Idle
<1>6. k.state = None /\ k.lists = readings.lists
  BY <1>2 DEF Views
<1> HIDE DEF m, p, v, s, k
<1>7. WriterShape(s)
  BY <1>5 DEF WriterShape, Orderly, OneEach
<1>8. /\ p.at = "lists" => p.list \in {None, m}
      /\ p.for = "heartbeat" /\ p.at \in {"lists", "status"} => p.seen # None /\ p.seen.mode = m
  BY <1>2, <1>4, AllFresh
<1>9. Led(m, k, s, p, Lead(w)')
  BY <1>4, <1>5, <1>6, <1>7, <1>8 DEF Led, ListsRight, ListsToCome, StateRight, StateToCome, OwnReads, Apt
<1> QED BY <1>1, <1>3, <1>9 DEF LedFor, m, p

-----------------------------------------------------------------------------
(* The environment, and the theorem.                                        *)

\* Nothing of the tasks, the lock or the readings moves.
LEMMA AsideLed ==
    ASSUME LedInv, NEW w \in Writers, engine'.mode = engine.mode, UNCHANGED <<up, readings, queue, task>>
    PROVE  LedFor(w)'
<1>1. HandInv /\ LedFor(w)
  BY DEF LedInv
<1>2. Ahead("poll", w) => Ahead("poll", w)'
  BY DEF Ahead
<1>3. CASE up
  BY <1>1, <1>2, <1>3, LedKept
<1>4. CASE ~up
  BY <1>1, <1>4 DEF LedFor
<1> QED BY <1>3, <1>4

LEMMA LoseLed ==
    ASSUME LedInv, NEW w \in Writers, Lose
    PROVE  LedFor(w)'
<1>1. w \in Tasks /\ "poll" \in Tasks /\ up /\ up' = FALSE /\ Cut(task) /\ LedFor(w)
  BY HandApart DEF Lose, Cut, LedInv
<1>2. WriterShape(task[w]) /\ PollShape(task["poll"])
  BY <1>1 DEF LedFor, Led
<1>3. ~Waits(task[w]) /\ ~Waits(task["poll"])
  BY <1>2 DEF WriterShape, PollShape, Waits
<1>4. task'[w] = GivenUp(task[w]) /\ task'["poll"] = GivenUp(task["poll"])
  BY <1>1 DEF Cut
<1> QED BY <1>1, <1>3, <1>4 DEF LedFor, GivenUp

\* The handshake reads State and lists, with nothing under way.
LEMMA ReconnectLed ==
    ASSUME NoSource, LedInv, NEW w \in Writers, Reconnect
    PROVE  LedFor(w)'
<1> DEFINE m == engine.mode
           r == [state |-> engine, rate |-> RateFamily(engine), lists |-> Loaded(engine), memory |-> Forgotten]
<1>1. /\ readings' = r /\ engine' = engine /\ task' = task /\ up' = TRUE /\ engine \in States
      /\ task[w] = Idle /\ task["poll"] = Idle
  BY DEF Reconnect, LedInv, HandInv, Sound, Types, LedFor
<1>2. r.state = engine /\ r.state # None /\ r.lists = m
  BY <1>1, LoadedMode, NotNone
<1>3. Idle.at = "idle" /\ Idle.for = "batch"
  BY DEF Idle
<1>4. WriterShape(Idle) /\ PollShape(Idle)
  BY IdleSetsOut, IdlePolls DEF SetsOut
<1> HIDE DEF r
<1>5. Led(m, r, Idle, Idle, Lead(w)')
  BY <1>2, <1>3, <1>4 DEF Led, ListsRight, ListsToCome, StateRight, StateToCome, OwnReads, Apt
<1> QED BY <1>1, <1>5 DEF LedFor

LEMMA InitLed == NoSource /\ Init => LedInv
<1> SUFFICES ASSUME NoSource, Init PROVE LedInv
  OBVIOUS
<1>1. HandInv
  BY InitHand
<1>2. ASSUME NEW w \in Writers PROVE LedFor(w)
  <2>1. w \in Tasks /\ "poll" \in Tasks /\ engine \in States
    BY <1>1, HandApart DEF HandInv, Sound, Types
  <2>2. task[w] = Idle /\ task["poll"] = Idle /\ up
    BY <2>1 DEF Init
  <2>3. readings.state = engine /\ readings.state # None /\ readings.lists = engine.mode
    BY <2>1, LoadedMode, NotNone DEF Init
  <2>4. Idle.at = "idle" /\ Idle.for = "batch"
    BY DEF Idle
  <2>5. WriterShape(Idle) /\ PollShape(Idle)
    BY IdleSetsOut, IdlePolls DEF SetsOut
  <2>6. Led(engine.mode, readings, Idle, Idle, Lead(w))
    BY <2>3, <2>4, <2>5 DEF Led, ListsRight, ListsToCome, StateRight, StateToCome, OwnReads, Apt
  <2> QED BY <2>2, <2>6 DEF LedFor
<1> QED BY <1>1, <1>2 DEF LedInv

\* One step per action.
LEMMA NextLed ==
    ASSUME Alone, NoSource, NoRescan, LedInv, [Next]_vars, NEW w \in Writers
    PROVE  LedFor(w)'
<1>1. /\ HandInv /\ Types /\ engine \in States /\ LedFor(w) /\ Tasks = {w, "poll", "pilot"} /\ Writers = {w}
      /\ w # "poll" /\ w # "pilot"
  BY OnlyTasks, HandApart DEF LedInv, HandInv, Sound, Types, Alone
<1>2. CASE UNCHANGED vars
  BY <1>2, AsideLed DEF vars
<1>3. CASE Serving(w) \/ Ignored(w)
  BY <1>3, WriterSetLed, WriterCheckLed, WriterRefreshLed, WriterRereadLed, WriterListsReadLed, WriterFetchLed DEF Serving
<1>4. CASE Serving("poll") \/ Ignored("poll")
  <2>1. ~Refresh("poll") /\ ~Fetch("poll")
    <3>1. Served("poll") => PollShape(task["poll"])
      BY <1>1 DEF LedFor, Led, Served
    <3> QED BY <3>1 DEF Refresh, Fetch, At, PollShape
  <2> QED BY <1>4, <2>1, PollSetLed, PollCheckLed, PollRereadLed, PollListsReadLed DEF Serving
<1>5. CASE Serving("pilot") \/ Ignored("pilot")
  BY <1>5, PilotLed
<1>6. CASE \E p \in Edits : Write(w, p)
  BY <1>6, WriteLed
<1>7. CASE \E fs \in Presets : ApplyPreset(w, fs)
  BY <1>7, ApplyPresetLed
<1>8. CASE Resync(w)
  BY <1>8, ResyncLed
<1>9. ~Rescan(w)
  <2>1. "rescans" \in Bounded /\ spent["rescans"] \in Nat /\ Budget["rescans"] = 0
    BY <1>1 DEF Bounded, Types, Budget, NoRescan
  <2> QED BY <2>1 DEF Rescan, Spend
<1>10. ~(Reload(w) \/ Probe(w) \/ Unreachable(w))
  <2>1. task[w].at \notin {"reload", "away"}
    <3>1. CASE up
      BY <1>1, <3>1 DEF LedFor, Led, WriterShape
    <3>2. CASE ~up
      BY <1>1, <3>2, IdlePolls DEF LedFor
    <3> QED BY <3>1, <3>2
  <2> QED BY <2>1 DEF Reload, Probe, Unreachable, At
<1>11. CASE Beat
  BY <1>11, BeatLed
<1>12. CASE StateRead
  BY <1>12, PollStateReadLed
<1>13. CASE StatusRead
  BY <1>13, PollStatusReadLed
<1>14. CASE \E j \in Junk : Act(j)
  BY <1>14, ActLed
<1>15. CASE Reconnect
  BY <1>15, ReconnectLed
<1>16. CASE Flip \/ Move \/ SwitchOn
  <2>1. engine'.mode = engine.mode
    BY <1>1, <1>16 DEF Flip, Move, SwitchOn, States
  <2> QED BY <1>16, <2>1, AsideLed DEF Flip, Move, SwitchOn
<1>17. CASE Lose
  BY <1>17, LoseLed
<1> QED
  <2>1. CASE \E t \in Tasks : Serving(t) \/ Ignored(t)
    BY <1>1, <1>3, <1>4, <1>5, <2>1
  <2>2. CASE \E t \in Writers : \/ \E p \in Edits : Write(t, p)
                                \/ \E fs \in Presets : ApplyPreset(t, fs)
                                \/ Resync(t) \/ Rescan(t) \/ Reload(t) \/ Probe(t) \/ Unreachable(t)
    BY <1>1, <1>6, <1>7, <1>8, <1>9, <1>10, <2>2
  <2> QED BY <1>2, <1>11, <1>12, <1>13, <1>14, <1>15, <1>16, <1>17, <2>1, <2>2 DEF Next, Environment

\* A setter the readback bears out has the engine play what the batch names.
LEMMA CheckPlays ==
    ASSUME NoSource, LedInv, NEW t \in Writers, Check(t), task'[t].done # task[t].done, task[t].for = "batch",
           NEW p \in task[t].named, Setting(p[1]) \in task'[t].done \ task[t].done
    PROVE  Plays(p)
<1> DEFINE rec == task[t]
           op == Head(rec.edits)
           m == engine.mode
<1>1. /\ Types /\ Sound /\ t \in Tasks /\ rec \in Formeds /\ engine \in States /\ LedFor(t)
      /\ Served(t) /\ rec.at = "check" /\ up
  <2>1. Types /\ Sound /\ t \in Tasks /\ rec \in Formeds /\ LedFor(t)
    BY HandApart, TaskFormed DEF LedInv, HandInv, Sound
  <2>2. engine \in States
    BY <2>1 DEF Types
  <2> QED BY <2>1, <2>2 DEF Check, At, Served
<1>2. PICK s : /\ Steps(t, s) /\ Served(t)
               /\ s.done = rec.done \cup (IF engine[op.setting] = op.value THEN {op.setting} ELSE {})
  BY <1>1, CheckParts
<1>3. task'[t] = s
  BY <1>1, <1>2, ServedPlaces
<1>4. Setting(p[1]) = op.setting /\ engine[op.setting] = op.value
  BY <1>2, <1>3
<1>5. Apt(rec, m) /\ Loaded(engine) = m
  BY <1>1, LoadedMode DEF LedFor, Led
<1>6. op = rec.edits[1] /\ 1 \in 1..Len(rec.edits) /\ op \in Ops
  BY <1>1, FirstOp, RecordParts DEF Formed
<1> HIDE DEF op
<1>7. Means(op, p, m)
  BY <1>1, <1>4, <1>5, <1>6 DEF Apt
<1>8. CASE p[1] \in Routable
  <2>1. op.setting = "filter" /\ engine.filter = op.value
    BY <1>4, <1>8 DEF Setting
  <2> QED BY <1>5, <1>7, <1>8, <2>1 DEF Means, Plays
<1>9. CASE p[1] \notin Routable
  BY <1>4, <1>7, <1>9 DEF Means, Plays, Setting
<1> QED BY <1>8, <1>9

\* With one writer, no [source] mode and no rescan under way, a setter reported as verified
\* has the engine play the IDs the listener named, whatever the poll, auto-pilot, a resync,
\* the connection or the playback does meanwhile: no batch is ever resolved against the
\* lists of a chain that is not loaded.
THEOREM NamedAlwaysPlayed ==
    ASSUME Alone, NoSource, NoRescan
    PROVE  Spec => NamedIsPlayed
<1>1. Init => LedInv
  BY InitLed
<1>2. LedInv /\ [Next]_vars => LedInv'
  <2>1. LedInv /\ [Next]_vars => HandInv'
    BY NextSound, NextHand DEF LedInv, HandInv
  <2> QED BY <2>1, NextLed DEF LedInv
<1>3. LedInv /\ [Next]_vars =>
        [\A t \in Writers :
          /\ spent.rescans = 0 \/ Unmoved
          /\ Check(t) /\ task'[t].done # task[t].done /\ task[t].for = "batch"
          => \A p \in task[t].named : Setting(p[1]) \in task'[t].done \ task[t].done => Plays(p)]_vars
  BY CheckPlays
<1> QED BY <1>1, <1>2, <1>3, PTL DEF Spec, NamedIsPlayed

-----------------------------------------------------------------------------
(* While playback stands still and nothing is resynced, a heartbeat reads the lists of a *)
(* switch only.                                                             *)

\* The switch has been sent, and State is not read since.
Early(rec, m) == Switching(rec, m) /\ rec.at \in {"check", "refresh"}

Stopped(e, r, w, p) ==
    /\ ~e.playing /\ r.state # None /\ ~r.state.playing /\ w.for # "resync"
    /\ p.for = "heartbeat" => p.seen # None /\ ~p.seen.playing
StateKept(m, r, w) == r.state.mode = m \/ Early(w, m)

\* What a heartbeat compares with is of the mode, but for a switch it may still meet.
Compared(m, r, w, p, lead) ==
    /\ p.at = "state" => \/ p.seen.mode = m \/ Early(w, m)
                         \/ Switching(w, m) /\ w.at = "lists" /\ w.left = ListReads /\ lead = 1
    /\ p.at = "state" \/ (p.at = "status" /\ ~p.moved) => (p.seen.mode = m => r.state.mode = m)
    /\ p.for = "heartbeat" /\ p.at = "lists" => p.moved

\* The poll reads lists and sends what is held within a switch of the writer.
Within(m, w, p, lead) ==
    /\ p.for = "heartbeat" /\ p.at = "lists" => p.left <= Slack(w, m, lead)
    /\ p.for = "chain" => /\ p.at = "lists" => p.left + 1 < Slack(w, m, lead)
                          /\ p.at = "set" => 1 < Slack(w, m, lead)
    /\ p.at \in {"set", "check"} => Len(p.edits) <= 1

\* The State on its way to be published is the engine's, or a setter not read back came after it.
Published(e, w, p, lead) ==
    p.for = "heartbeat" /\ p.at \in {"lists", "status"} =>
        \/ p.seen.mode = e.mode /\ p.seen.filter = e.filter
        \/ p.at = "status" /\ w.at = "check" /\ lead = 1 /\ (p.seen.mode # e.mode => Switching(w, e.mode))

\* The pair State names is the engine's, but for a setter whose State is still to be read.
PairKnown(e, r, w) ==
    \/ r.state.filter = e.filter \/ Owed(w, e.mode) > 0
    \/ w.for = "batch" /\ (w.at \in {"check", "refresh"} \/ (w.at = "set" /\ w.tried # {}))

\* The half a batch does not name is sent as the engine has it.
FilterFirst(rec) == \A i \in 1..Len(rec.edits) : i # 1 => rec.edits[i].setting # "filter"
Completed(e, w) ==
    /\ w.for = "batch" => FilterFirst(w)
    /\ w.for = "batch" /\ w.at = "set" /\ Head(w.edits).setting = "filter" =>
        \A a \in Arguments : HalfNamed(a, w.named) \/ Head(w.edits).value[a] = e.filter[a]

Steady(e, r, w, p, lead) ==
    /\ Stopped(e, r, w, p) /\ StateKept(e.mode, r, w) /\ Compared(e.mode, r, w, p, lead)
    /\ Within(e.mode, w, p, lead) /\ Published(e, w, p, lead) /\ PairKnown(e, r, w) /\ Completed(e, w)

\* With no switch under way the poll has nothing of another mode, and sends nothing.
LEMMA NoSwitch ==
    ASSUME NEW e \in States, NEW r \in Views, NEW w \in Formeds, NEW p \in Formeds,
           NEW lead \in {0, 1}, w.at = "check" => lead = 0,
           Led(e.mode, r, w, p, lead), Steady(e, r, w, p, lead), Slack(w, e.mode, lead) <= 0
    PROVE  /\ ~Switching(w, e.mode) /\ r.state.mode = e.mode
           /\ p.for = "heartbeat" => p.at # "lists"
           /\ p.for = "chain" => p.at \notin {"lists", "set"}
           /\ p.at = "state" => p.seen.mode = e.mode
           /\ p.at = "status" => p.seen.mode = e.mode /\ p.seen.filter = e.filter
<1>1. ~Switching(w, e.mode)
  <2>1. Switching(w, e.mode) => Owed(w, e.mode) >= 2
    <3>1. w.at = "lists" => w.left >= 1
      BY DEF Led, WriterShape, Orderly
    <3> QED BY <3>1, OwedTyped DEF Owed, Switching
  <2> QED BY <2>1, OwedTyped DEF Slack
<1>2. r.state.mode = e.mode
  BY <1>1 DEF Steady, StateKept, Early
<1>3. Slack(w, e.mode, lead) \in Int /\ p.left \in Int /\ (p.at = "lists" => p.left >= 1)
  BY OwedTyped DEF Slack, Led, PollShape, Orderly
<1>4. (p.for = "heartbeat" => p.at # "lists") /\ (p.for = "chain" => p.at \notin {"lists", "set"})
  BY <1>3 DEF Steady, Within
<1>5. p.at = "state" => p.seen.mode = e.mode
  BY <1>1 DEF Steady, Compared, Early
<1>6. p.at = "status" => p.for = "heartbeat"
  BY DEF Led, PollShape
<1>7. p.at = "status" => p.seen.mode = e.mode /\ p.seen.filter = e.filter
  BY <1>6 DEF Steady, Published
<1> QED BY <1>1, <1>2, <1>4, <1>5, <1>7

\* A setter took, or was ignored.
LEMMA SteadySets ==
    ASSUME NEW e \in States, NEW r \in Views, NEW w \in Formeds, NEW p \in Formeds,
           Led(e.mode, r, w, p, 0), Steady(e, r, w, p, 0), w.at = "set",
           NEW f \in States, ~f.playing,
           f.mode # e.mode => (Head(w.edits).setting = "mode" /\ f.mode = Head(w.edits).value),
           NEW s \in Formeds, s.at = "check", s.for = w.for, s.edits = w.edits,
           NEW lead \in {0, 1}, p.at # "idle" => lead = 1
    PROVE  Steady(f, r, s, p, lead)
<1>1. Slack(w, e.mode, 0) <= 0
  BY OwedTyped DEF Slack, Owed, Switching
<1>2. /\ r.state.mode = e.mode
      /\ p.for = "heartbeat" => p.at # "lists"
      /\ p.for = "chain" => p.at \notin {"lists", "set"}
      /\ p.at = "state" => p.seen.mode = e.mode
      /\ p.at = "status" => p.seen.mode = e.mode
  BY <1>1, NoSwitch
<1>3. f.mode # e.mode => Switching(s, f.mode)
  <2>1. Head(w.edits) = w.edits[1] /\ 1 \in 1..Len(w.edits)
    BY RecordParts DEF Formed
  <2>2. w.for = "chain" => w.edits[1].setting = "filter"
    BY <2>1 DEF Led, WriterShape, Only
  <2>3. w.for \in {"batch", "chain"}
    BY DEF Led, WriterShape
  <2> QED BY <2>1, <2>2, <2>3 DEF Switching
<1>4. Stopped(f, r, s, p)
  BY DEF Steady, Stopped
<1>5. StateKept(f.mode, r, s)
  BY <1>2, <1>3 DEF StateKept, Early
<1>6. Compared(f.mode, r, s, p, lead)
  BY <1>2, <1>3 DEF Compared, Early
<1>7. Within(f.mode, s, p, lead)
  BY <1>2 DEF Steady, Within
<1>8. Published(f, s, p, lead)
  BY <1>2, <1>3 DEF Published
<1>9. PairKnown(f, r, s)
  <2>1. s.for \in {"batch", "chain"}
    BY DEF Led, WriterShape
  <2> QED BY <2>1 DEF PairKnown, Owed
<1>10. Completed(f, s)
  BY DEF Steady, Completed, FilterFirst
<1> QED BY <1>4, <1>5, <1>6, <1>7, <1>8, <1>9, <1>10 DEF Steady

\* The writer goes on within its switch, or has none.
LEMMA SteadyOn ==
    ASSUME NEW e \in States, NEW r \in Views, NEW w \in Formeds, NEW p \in Formeds,
           Led(e.mode, r, w, p, 0), Steady(e, r, w, p, 0),
           NEW s \in Formeds, NEW lead \in {0, 1}, p.at # "idle" /\ s.at # "idle" => lead = 1,
           Owed(w, e.mode) <= 1 \/ (Owed(s, e.mode) >= Owed(w, e.mode) - 1 /\ s.at # "idle")
    PROVE  Within(e.mode, s, p, lead) /\ Published(e, s, p, lead)
<1>1. Published(e, s, p, lead)
  BY DEF Steady, Published
<1>2. CASE Owed(w, e.mode) <= 1
  <2>1. Slack(w, e.mode, 0) <= 0
    BY <1>2, OwedTyped DEF Slack
  <2>2. /\ p.for = "heartbeat" => p.at # "lists"
        /\ p.for = "chain" => p.at \notin {"lists", "set"}
    BY <2>1, NoSwitch
  <2> QED BY <1>1, <2>2 DEF Within, Steady
<1>3. CASE Owed(s, e.mode) >= Owed(w, e.mode) - 1 /\ s.at # "idle"
  <2>1. p.at # "idle" => Slack(s, e.mode, lead) >= Slack(w, e.mode, 0)
    BY <1>3, OwedTyped DEF Slack
  <2>2. Slack(s, e.mode, lead) \in Int /\ Slack(w, e.mode, 0) \in Int /\ p.left \in Int
    BY OwedTyped DEF Slack
  <2> QED BY <1>1, <2>1, <2>2 DEF Steady, Within
<1> QED BY <1>2, <1>3

\* A setter is read back.
LEMMA SteadyChecks ==
    ASSUME NEW e \in States, NEW r \in Views, NEW w \in Formeds, NEW p \in Formeds,
           Led(e.mode, r, w, p, 0), Steady(e, r, w, p, 0), w.at = "check",
           NEW s \in Formeds, s.at = (IF Tail(w.edits) = <<>> THEN Sent(w) ELSE "set"),
           s.for = w.for, s.edits = Tail(w.edits), s.tried # {},
           Switching(w, e.mode) => "mode" \in s.done,
           NEW lead \in {0, 1}, p.at # "idle" => lead = 1
    PROVE  Steady(e, r, s, p, lead)
<1> DEFINE m == e.mode
<1>1. w.edits \in Seq(Ops) /\ w.edits # <<>>
  BY RecordParts DEF Formed
<1>2. /\ Len(w.edits) \in Nat \ {0} /\ Len(s.edits) = Len(w.edits) - 1
      /\ \A i \in 1..Len(s.edits) : i + 1 \in 1..Len(w.edits) /\ s.edits[i] = w.edits[i + 1]
  BY <1>1
<1>3. Switching(w, m) => s.at = "refresh" /\ s.for = "batch" /\ Switching(s, m)
  <2>1. Switching(w, m) => w.for = "batch" /\ w.edits[1].setting = "mode" /\ 1 \in 1..Len(w.edits)
    BY <1>1 DEF Switching
  <2>2. Switching(w, m) => Len(w.edits) = 1
    BY <2>1 DEF Led, WriterShape
  <2>3. Switching(w, m) => Tail(w.edits) = <<>>
    BY <1>1, <1>2, <2>2, EmptySeq
  <2> QED BY <2>1, <2>3 DEF Sent, Switching
<1>4. Owed(w, m) <= 1 \/ (Owed(s, m) >= Owed(w, m) - 1 /\ s.at # "idle")
  <2>1. ~Switching(w, m) => Owed(w, m) <= 1
    BY DEF Owed
  <2>2. Switching(w, m) => w.for = "batch" /\ Owed(w, m) = ListReads + 3
    BY DEF Owed, Switching
  <2>3. Switching(w, m) => Owed(s, m) = ListReads + 2
    BY <1>3 DEF Owed
  <2> QED BY <1>3, <2>1, <2>2, <2>3, ReadsAssumption
<1>5. s.at # "idle"
  BY DEF Sent
<1>6. Within(m, s, p, lead) /\ Published(e, s, p, lead)
  BY <1>4, <1>5, SteadyOn
<1>7. Stopped(e, r, s, p)
  BY DEF Steady, Stopped
<1>8. StateKept(m, r, s) /\ Compared(m, r, s, p, lead)
  BY <1>3 DEF Steady, StateKept, Compared, Early
<1>9. PairKnown(e, r, s)
  <2>1. s.for \in {"batch", "chain"}
    BY DEF Led, WriterShape
  <2> QED BY <2>1 DEF PairKnown, Owed, Sent
<1>10. Completed(e, s)
  <2>1. w.for = "batch" => \A i \in 1..Len(s.edits) : s.edits[i].setting # "filter"
    BY <1>2 DEF Steady, Completed, FilterFirst
  <2>2. s.at = "set" => Head(s.edits) = s.edits[1] /\ 1 \in 1..Len(s.edits)
    <3>1. s.at = "set" => s.edits \in Seq(Ops) /\ s.edits # <<>>
      BY RecordParts DEF Formed
    <3> QED BY <3>1
  <2> QED BY <2>1, <2>2 DEF Completed, FilterFirst
<1> QED BY <1>6, <1>7, <1>8, <1>9, <1>10 DEF Steady

\* The writer begins to enumerate.
LEMMA SteadyLists ==
    ASSUME NEW e \in States, NEW r \in Views, NEW w \in Formeds, NEW p \in Formeds,
           Led(e.mode, r, w, p, 0), Steady(e, r, w, p, 0), w.at = "refresh",
           NEW k \in Views, k.state = e,
           NEW s \in Formeds, s.at = "lists", s.left = ListReads, s.for = w.for, s.edits = w.edits,
           s.done = w.done, NEW lead \in {0, 1}, p.at # "idle" => lead = 1
    PROVE  Steady(e, k, s, p, lead)
<1> DEFINE m == e.mode
<1>1. w.for = "batch"
  BY DEF Led, WriterShape
<1>2. Switching(w, m) <=> Switching(s, m)
  BY <1>1 DEF Switching
<1>3. Owed(w, m) <= 1 \/ (Owed(s, m) >= Owed(w, m) - 1 /\ s.at # "idle")
  <2>1. ~Switching(w, m) => Owed(w, m) <= 1
    BY <1>1 DEF Owed
  <2>2. Switching(w, m) => Owed(w, m) = ListReads + 2 /\ Owed(s, m) = ListReads + 1
    BY <1>1, <1>2 DEF Owed
  <2> QED BY <2>1, <2>2, ReadsAssumption
<1>4. Within(m, s, p, lead) /\ Published(e, s, p, lead)
  BY <1>3, SteadyOn
<1>5. Stopped(e, k, s, p)
  BY NoneAssumption DEF Steady, Stopped
<1>6. StateKept(m, k, s)
  BY DEF StateKept
<1>7. Compared(m, k, s, p, lead)
  <2>1. p.at = "state" => p.seen.mode = m \/ (Switching(s, m) /\ lead = 1)
    BY <1>2 DEF Steady, Compared, Early
  <2> QED BY <2>1 DEF Steady, Compared
<1>8. PairKnown(e, k, s)
  BY DEF PairKnown
<1>9. Completed(e, s)
  BY DEF Steady, Completed, FilterFirst
<1> QED BY <1>4, <1>5, <1>6, <1>7, <1>8, <1>9 DEF Steady

\* At the lists, State is of the mode.
LEMMA SteadyAtLists ==
    ASSUME NEW e \in States, NEW r \in Views, NEW w \in Formeds, NEW p \in Formeds,
           Led(e.mode, r, w, p, 0), Steady(e, r, w, p, 0), w.at = "lists"
    PROVE  /\ w.for = "batch" /\ r.state # None /\ ~r.state.playing /\ r.state.mode = e.mode
           /\ p.at = "state" => p.seen.mode = e.mode
           /\ r.state.filter = e.filter \/ Switching(w, e.mode)
           /\ Owed(w, e.mode) = IF Switching(w, e.mode) THEN w.left + 1 ELSE 0
<1>1. w.for = "batch"
  BY DEF Led, WriterShape, Steady, Stopped
<1>2. ~Early(w, e.mode)
  BY DEF Early
<1>3. Owed(w, e.mode) = IF Switching(w, e.mode) THEN w.left + 1 ELSE 0
  BY <1>1 DEF Owed
<1>4. r.state.filter = e.filter \/ Switching(w, e.mode)
  BY <1>1, <1>3 DEF Steady, PairKnown
<1>5. r.state # None /\ ~r.state.playing /\ r.state.mode = e.mode
  BY <1>2 DEF Steady, Stopped, StateKept
<1>6. p.at = "state" => p.seen.mode = e.mode
  BY <1>2 DEF Steady, Compared
<1> QED BY <1>1, <1>3, <1>4, <1>5, <1>6

\* A request of the writer's enumeration.
LEMMA SteadyListing ==
    ASSUME NEW e \in States, NEW r \in Views, NEW w \in Formeds, NEW p \in Formeds,
           Led(e.mode, r, w, p, 0), Steady(e, r, w, p, 0), w.at = "lists", w.left > 1,
           NEW s \in Formeds, s.at = "lists", s.left = w.left - 1, s.for = w.for, s.edits = w.edits, s.done = w.done,
           NEW lead \in {0, 1}, p.at # "idle" => lead = 1
    PROVE  Steady(e, r, s, p, lead)
<1> DEFINE m == e.mode
<1>1. /\ w.for = "batch" /\ r.state # None /\ ~r.state.playing /\ r.state.mode = m
      /\ p.at = "state" => p.seen.mode = m
      /\ r.state.filter = e.filter \/ Switching(w, m)
      /\ Owed(w, m) = IF Switching(w, m) THEN w.left + 1 ELSE 0
  BY SteadyAtLists
<1>2. Switching(w, m) <=> Switching(s, m)
  BY <1>1 DEF Switching
<1>3. Owed(s, m) = IF Switching(w, m) THEN s.left + 1 ELSE 0
  BY <1>1, <1>2 DEF Owed
<1>0. w.left \in Int
  BY OwedTyped
<1>4. Owed(w, m) <= 1 \/ (Owed(s, m) >= Owed(w, m) - 1 /\ s.at # "idle")
  BY <1>0, <1>1, <1>3
<1>5. Within(m, s, p, lead) /\ Published(e, s, p, lead)
  BY <1>4, SteadyOn
<1>6. Stopped(e, r, s, p) /\ StateKept(m, r, s) /\ Compared(m, r, s, p, lead)
  BY <1>1 DEF Steady, Stopped, StateKept, Compared
<1>7. PairKnown(e, r, s)
  BY <1>0, <1>1, <1>3 DEF PairKnown
<1>8. Completed(e, s)
  BY DEF Steady, Completed, FilterFirst
<1> QED BY <1>5, <1>6, <1>7, <1>8 DEF Steady

\* The lists of a switch are read, and what is held is sent.
LEMMA SteadyReasserts ==
    ASSUME NEW e \in States, NEW r \in Views, NEW w \in Formeds, NEW p \in Formeds,
           Led(e.mode, r, w, p, 0), Steady(e, r, w, p, 0), w.at = "lists", w.left = 1, "mode" \in w.done,
           NEW k \in Views, k.state = r.state,
           NEW s \in Formeds, s.at \in {"set", "reread"}, s.for = "chain",
           NEW lead \in {0, 1}, p.at # "idle" => lead = 1
    PROVE  Steady(e, k, s, p, lead)
<1> DEFINE m == e.mode
<1>1. /\ w.for = "batch" /\ r.state # None /\ ~r.state.playing /\ r.state.mode = m
      /\ p.at = "state" => p.seen.mode = m
      /\ Owed(w, m) = IF Switching(w, m) THEN w.left + 1 ELSE 0
  BY SteadyAtLists
<1>2. Switching(w, m)
  BY <1>1 DEF Switching
<1>3. Owed(s, m) = 1
  BY DEF Owed
<1>4. Owed(w, m) <= 1 \/ (Owed(s, m) >= Owed(w, m) - 1 /\ s.at # "idle")
  BY <1>1, <1>2, <1>3
<1>5. Within(m, s, p, lead) /\ Published(e, s, p, lead)
  BY <1>4, SteadyOn
<1>6. Stopped(e, k, s, p) /\ StateKept(m, k, s) /\ Compared(m, k, s, p, lead)
  BY <1>1 DEF Steady, Stopped, StateKept, Compared
<1>7. PairKnown(e, k, s)
  BY <1>3 DEF PairKnown
<1>8. Completed(e, s)
  BY DEF Completed
<1> QED BY <1>5, <1>6, <1>7, <1>8 DEF Steady

\* A batch starts, or the request is answered.
LEMMA SteadySetsOut ==
    ASSUME NEW e \in States, NEW r \in Views, NEW w \in Formeds, NEW p \in Formeds,
           Led(e.mode, r, w, p, 0), Steady(e, r, w, p, 0), Owed(w, e.mode) <= 1,
           NEW k \in Views, k.state # None, ~k.state.playing, k.state.mode = e.mode, k.state.filter = e.filter,
           NEW s \in Formeds, SetsOut(s, e.mode), Completed(e, s),
           NEW lead \in {0, 1}, p.at # "idle" /\ s.at # "idle" => lead = 1
    PROVE  Steady(e, k, s, p, lead)
<1> DEFINE m == e.mode
<1>1. Slack(w, m, 0) <= 0
  BY OwedTyped DEF Slack
<1>2. /\ p.for = "heartbeat" => p.at # "lists"
      /\ p.at = "state" => p.seen.mode = m
  BY <1>1, NoSwitch
<1>3. Within(m, s, p, lead) /\ Published(e, s, p, lead)
  BY SteadyOn
<1>4. s.for = "batch"
  BY DEF SetsOut
<1>5. Stopped(e, k, s, p) /\ StateKept(m, k, s) /\ Compared(m, k, s, p, lead) /\ PairKnown(e, k, s)
  BY <1>2, <1>4 DEF Steady, Stopped, StateKept, Compared, PairKnown
<1> QED BY <1>3, <1>5 DEF Steady

\* A step of neither.
LEMMA SteadyAside ==
    ASSUME NEW e \in States, NEW r \in Views, NEW w \in Formeds, NEW p \in Formeds, NEW lead \in {0, 1},
           Steady(e, r, w, p, lead),
           NEW f \in States, f.mode = e.mode, f.filter = e.filter, f.playing = e.playing,
           NEW k \in Views, \/ k.state = r.state
                            \/ k.state # None /\ ~k.state.playing /\ k.state.mode = e.mode /\ k.state.filter = e.filter,
           NEW more \in {0, 1}, lead <= more
    PROVE  Steady(f, k, w, p, more)
<1> DEFINE m == e.mode
<1>1. Stopped(f, k, w, p) /\ StateKept(m, k, w) /\ Compared(m, k, w, p, more)
  BY DEF Steady, Stopped, StateKept, Compared
<1>2. Slack(w, m, more) >= Slack(w, m, lead) /\ Slack(w, m, more) \in Int /\ Slack(w, m, lead) \in Int /\ p.left \in Int
  <2>1. Owed(w, m) \in Int /\ p.left \in Int
    BY OwedTyped
  <2>2. Slack(w, m, more) = Owed(w, m) - 1 + more /\ Slack(w, m, lead) = Owed(w, m) - 1 + lead
    BY DEF Slack
  <2> HIDE DEF m
  <2> QED BY <2>1, <2>2
<1>3. Within(m, w, p, more)
  BY <1>2 DEF Steady, Within
<1>4. Published(f, w, p, more) /\ PairKnown(f, k, w) /\ Completed(f, w)
  BY DEF Steady, Published, PairKnown, Completed
<1> QED BY <1>1, <1>3, <1>4 DEF Steady

\* A heartbeat begins.
LEMMA SteadyBeats ==
    ASSUME NEW e \in States, NEW r \in Views, NEW w \in Formeds, NEW p \in Formeds, NEW lead \in {0, 1},
           Steady(e, r, w, p, lead),
           NEW s \in Formeds, s.at = "state", s.for = "heartbeat", s.seen = r.state
    PROVE  Steady(e, r, w, s, 0)
<1>1. Stopped(e, r, w, s) /\ StateKept(e.mode, r, w) /\ Compared(e.mode, r, w, s, 0)
  BY DEF Steady, Stopped, StateKept, Compared
<1>2. Within(e.mode, w, s, 0) /\ Published(e, w, s, 0) /\ PairKnown(e, r, w) /\ Completed(e, w)
  BY DEF Steady, Within, Published
<1> QED BY <1>1, <1>2 DEF Steady

\* What the poll has to do before the writer's next request.
LEMMA SlackLess ==
    ASSUME NEW m, NEW w \in Formeds, WriterShape(w), NEW lead \in {0, 1}, w.at # "idle" => lead = 1
    PROVE  /\ Slack(w, m, 0) \in Int /\ Slack(w, m, lead) \in Int /\ Slack(w, m, 0) = Owed(w, m) - 1
           /\ Slack(w, m, lead) >= 1 => Slack(w, m, 0) = Slack(w, m, lead) - 1
<1>1. Owed(w, m) \in Int
  BY OwedTyped
<1>2. Slack(w, m, 0) = Owed(w, m) - 1 /\ Slack(w, m, lead) = Owed(w, m) - 1 + lead
  BY <1>1 DEF Slack
<1>3. w.at = "idle" => Owed(w, m) = 0
  BY DEF Owed, Switching, WriterShape
<1> QED BY <1>1, <1>2, <1>3

\* Early in a switch the poll has time for a whole enumeration.
LEMMA EarlyOwed ==
    ASSUME NEW m, NEW w \in Formeds, Switching(w, m)
    PROVE  /\ w.at = "check" => Owed(w, m) = ListReads + 3
           /\ w.at = "refresh" => Owed(w, m) = ListReads + 2
           /\ w.at = "lists" => Owed(w, m) = w.left + 1
  BY DEF Owed, Switching

\* The heartbeat has read State, and compares it with the one before.
LEMMA SteadyStateRead ==
    ASSUME NEW e \in States, NEW r \in Views, NEW w \in Formeds, NEW p \in Formeds, NEW lead \in {0, 1},
           Led(e.mode, r, w, p, lead), Steady(e, r, w, p, lead), w.at # "idle" => lead = 1, p.at = "state",
           NEW s \in Formeds, s.for = p.for, s.seen = e, s.moved = (p.seen.mode # e.mode),
           s.at = (IF s.moved THEN "lists" ELSE "status"), s.at = "lists" => s.left = ListReads
    PROVE  Steady(e, r, w, s, 0)
<1> DEFINE m == e.mode
<1>1. p.for = "heartbeat"
  BY DEF Led, PollShape
<1>2. Stopped(e, r, w, s)
  BY <1>1, NoneAssumption DEF Steady, Stopped
<1>3. Compared(m, r, w, s, 0)
  BY <1>1 DEF Steady, Compared
<1>4. s.moved => ListReads <= Slack(w, m, 0)
  <2>1. s.moved => Switching(w, m) /\ (w.at \in {"check", "refresh"} \/ (w.at = "lists" /\ w.left = ListReads))
    BY DEF Steady, Compared, Early
  <2>2. Slack(w, m, 0) = Owed(w, m) - 1 /\ Owed(w, m) \in Int
    BY OwedTyped DEF Slack
  <2>3. s.moved => Owed(w, m) >= ListReads + 1
    BY <2>1, EarlyOwed, ReadsAssumption
  <2> QED BY <2>2, <2>3, ReadsAssumption
<1>5. Within(m, w, s, 0)
  BY <1>1, <1>4 DEF Within
<1>6. Published(e, w, s, 0)
  BY DEF Published
<1> QED BY <1>2, <1>3, <1>5, <1>6 DEF Steady

\* A request of the poll's enumeration.
LEMMA SteadyPollLists ==
    ASSUME NEW e \in States, NEW r \in Views, NEW w \in Formeds, NEW p \in Formeds, NEW lead \in {0, 1},
           Led(e.mode, r, w, p, lead), Steady(e, r, w, p, lead), w.at # "idle" => lead = 1, p.at = "lists", p.left > 1,
           NEW s \in Formeds, s.for = p.for, s.seen = p.seen, s.moved = p.moved, s.at = "lists", s.left = p.left - 1
    PROVE  Steady(e, r, w, s, 0)
<1> DEFINE m == e.mode
<1>1. Stopped(e, r, w, s) /\ Compared(m, r, w, s, 0)
  BY DEF Steady, Stopped, Compared
<1>2. p.left \in Int
  BY OwedTyped
<1>3. Within(m, w, s, 0)
  <2>1. p.for = "heartbeat" => p.left <= Slack(w, m, lead)
    BY DEF Steady, Within
  <2>2. p.for = "chain" => p.left + 1 < Slack(w, m, lead)
    BY DEF Steady, Within
  <2>3. /\ Slack(w, m, 0) \in Int /\ Slack(w, m, lead) \in Int
        /\ Slack(w, m, lead) >= 1 => Slack(w, m, 0) = Slack(w, m, lead) - 1
    BY SlackLess DEF Led
  <2>4. (p.for = "heartbeat" => s.left <= Slack(w, m, 0)) /\ (p.for = "chain" => s.left + 1 < Slack(w, m, 0))
    <3> HIDE DEF m
    <3> QED BY <1>2, <2>1, <2>2, <2>3
  <2> QED BY <2>4 DEF Within
<1>4. Published(e, w, s, 0)
  BY DEF Steady, Published
<1> QED BY <1>1, <1>3, <1>4 DEF Steady

\* The heartbeat has enumerated.
LEMMA SteadyListed ==
    ASSUME NEW e \in States, NEW r \in Views, NEW w \in Formeds, NEW p \in Formeds, NEW lead \in {0, 1},
           Steady(e, r, w, p, lead), p.at = "lists", p.for = "heartbeat",
           NEW k \in Views, k.state = r.state,
           NEW s \in Formeds, s.for = p.for, s.seen = p.seen, s.moved = p.moved, s.at = "status"
    PROVE  Steady(e, k, w, s, 0)
<1>1. Stopped(e, k, w, s) /\ StateKept(e.mode, k, w) /\ Compared(e.mode, k, w, s, 0)
  BY DEF Steady, Stopped, StateKept, Compared
<1>2. Within(e.mode, w, s, 0) /\ Published(e, w, s, 0) /\ PairKnown(e, k, w) /\ Completed(e, w)
  BY DEF Steady, Within, Published, PairKnown
<1> QED BY <1>1, <1>2 DEF Steady

\* The poll sends what is held, reads lists for it, or is done, within a switch.
LEMMA SteadyChain ==
    ASSUME NEW e \in States, NEW r \in Views, NEW w \in Formeds, NEW p \in Formeds, NEW lead \in {0, 1},
           Steady(e, r, w, p, lead),
           NEW k \in Views, k.state # None, ~k.state.playing, StateKept(e.mode, k, w), PairKnown(e, k, w),
           NEW s \in Formeds, s.at \in {"idle", "lists", "set", "check", "reread"},
           s.for = (IF s.at = "idle" THEN "batch" ELSE "chain"),
           s.at = "lists" => s.left + 1 < Slack(w, e.mode, 0), s.at = "set" => 1 < Slack(w, e.mode, 0),
           s.at \in {"set", "check"} => Len(s.edits) <= 1
    PROVE  Steady(e, k, w, s, 0)
<1>1. Stopped(e, k, w, s) /\ Compared(e.mode, k, w, s, 0)
  BY DEF Steady, Stopped, Compared
<1>2. Within(e.mode, w, s, 0) /\ Published(e, w, s, 0)
  BY DEF Within, Published
<1> QED BY <1>1, <1>2 DEF Steady

\* The heartbeat publishes State: what it does next, and within which switch.
LEMMA SteadyStatus ==
    ASSUME NEW e \in States, NEW r \in Views, NEW w \in Formeds, NEW p \in Formeds, NEW lead \in {0, 1},
           Led(e.mode, r, w, p, lead), Steady(e, r, w, p, lead), w.at # "idle" => lead = 1, p.at = "status",
           NEW k \in Views, k.state = p.seen
    PROVE  /\ k.state # None /\ ~k.state.playing /\ StateKept(e.mode, k, w) /\ PairKnown(e, k, w)
           /\ k.state.mode # r.state.mode => 1 < Slack(w, e.mode, 0)
           /\ k.state.mode # r.state.mode /\ ~p.moved => ListReads + 1 < Slack(w, e.mode, 0)
<1> DEFINE m == e.mode
<1>1. p.for = "heartbeat"
  BY DEF Led, PollShape
<1>2. k.state # None /\ ~k.state.playing
  BY <1>1 DEF Steady, Stopped
<1>3. \/ p.seen.mode = m /\ p.seen.filter = e.filter
      \/ w.at = "check" /\ (p.seen.mode # m => Switching(w, m))
  BY <1>1 DEF Steady, Published
<1>4. StateKept(m, k, w)
  BY <1>3 DEF StateKept, Early
<1>5. PairKnown(e, k, w)
  <2>1. w.at = "check" => w.for = "batch" \/ (w.for = "chain" /\ Owed(w, m) = 1)
    BY DEF Led, WriterShape, Owed
  <2> QED BY <1>3, <2>1 DEF PairKnown
<1>6. Slack(w, m, 0) = Owed(w, m) - 1 /\ Owed(w, m) \in Int
  BY OwedTyped DEF Slack
<1>7. p.seen.mode # m => Slack(w, m, 0) = ListReads + 2
  <2>1. p.seen.mode # m => Owed(w, m) = ListReads + 3
    BY <1>3, EarlyOwed
  <2> QED BY <1>6, <2>1, ReadsAssumption
<1>8. r.state.mode # m => Slack(w, m, 0) >= ListReads + 1
  <2>1. r.state.mode # m => Switching(w, m) /\ w.at \in {"check", "refresh"}
    BY DEF Steady, StateKept, Early
  <2>2. r.state.mode # m => Owed(w, m) \in {ListReads + 2, ListReads + 3}
    BY <2>1, EarlyOwed
  <2> QED BY <1>6, <2>2, ReadsAssumption
<1>9. ~p.moved => (p.seen.mode = m => r.state.mode = m)
  BY DEF Steady, Compared
<1> HIDE DEF m
<1>10. k.state.mode # r.state.mode => 1 < Slack(w, m, 0)
  BY <1>6, <1>7, <1>8, ReadsAssumption
<1>11. k.state.mode # r.state.mode /\ ~p.moved => ListReads + 1 < Slack(w, m, 0)
  BY <1>6, <1>7, <1>9, ReadsAssumption
<1> QED BY <1>2, <1>4, <1>5, <1>10, <1>11 DEF m

\* The poll sends a filter, within a switch.
LEMMA SteadyPollSets ==
    ASSUME NEW e \in States, NEW r \in Views, NEW w \in Formeds, NEW p \in Formeds, NEW lead \in {0, 1},
           Led(e.mode, r, w, p, lead), Steady(e, r, w, p, lead), p.at = "set",
           NEW f \in States, f.mode = e.mode, ~f.playing,
           NEW s \in Formeds, s.at = "check", s.for = "chain", Len(s.edits) <= 1
    PROVE  Switching(w, e.mode) /\ Steady(f, r, w, s, 0)
<1> DEFINE m == e.mode
<1>1. p.for = "chain"
  BY DEF Led, PollShape
<1>2. 1 < Slack(w, m, lead)
  BY <1>1 DEF Steady, Within
<1>3. Owed(w, m) >= 2
  <2>1. Slack(w, m, lead) = Owed(w, m) - 1 + lead /\ Owed(w, m) \in Int
    BY OwedTyped DEF Slack
  <2> HIDE DEF m
  <2> QED BY <1>2, <2>1
<1>4. Switching(w, m)
  BY <1>3, OwedSwitches
<1>5. Stopped(f, r, w, s) /\ Compared(f.mode, r, w, s, 0) /\ StateKept(f.mode, r, w)
  BY DEF Steady, Stopped, Compared
<1>6. Within(f.mode, w, s, 0) /\ Published(f, w, s, 0)
  BY DEF Within, Published
<1>7. PairKnown(f, r, w)
  <2>1. Owed(w, m) > 0
    BY <1>3, OwedTyped
  <2> QED BY <2>1 DEF PairKnown
<1>8. Completed(f, w)
  BY <1>4 DEF Steady, Completed, Switching
<1> QED BY <1>4, <1>5, <1>6, <1>7, <1>8 DEF Steady

-----------------------------------------------------------------------------
(* What is remembered.                                                      *)

OneChain(fs) == \A p, q \in fs : {p[1], q[1]} \subseteq Routable => ROUTABLE[p[1]].chain = ROUTABLE[q[1]].chain

\* What is remembered for a chain is of its fields.
Own(r) == \A c \in Chains, f \in Routable : r.memory[c][f] # None => ROUTABLE[f].chain = c

LEMMA RememberMemory ==
    ASSUME NEW r \in Views, NEW c \in Chains, NEW ps \in SUBSET Fields, NEW k, k = Remember(r, c, ps)
    PROVE  /\ \A d \in Chains : d # c => k.memory[d] = r.memory[d]
           /\ \A f \in Routable : IF \E p \in ps : p[1] = f THEN \E p \in ps : p[1] = f /\ k.memory[c][f] = p[2]
                                  ELSE k.memory[c][f] = r.memory[c][f]
<1> DEFINE m == [f \in Routable |-> IF \E p \in ps : p[1] = f THEN (CHOOSE p \in ps : p[1] = f)[2] ELSE r.memory[c][f]]
<1>1. k = [r EXCEPT !.memory = [@ EXCEPT ![c] = m]]
  BY DEF Remember, Views, Memories
<1>2. \A f \in Routable : IF \E p \in ps : p[1] = f THEN \E p \in ps : p[1] = f /\ m[f] = p[2] ELSE m[f] = r.memory[c][f]
  OBVIOUS
<1> HIDE DEF m
<1>3. r.memory \in Memories
  BY ViewParts
<1>4. k.memory = [r.memory EXCEPT ![c] = m]
  BY <1>1 DEF Views
<1>5. k.memory[c] = m /\ \A d \in Chains : d # c => k.memory[d] = r.memory[d]
  BY <1>3, <1>4 DEF Memories
<1> QED BY <1>2, <1>5

LEMMA DroppedMemory ==
    ASSUME NEW r \in Views, NEW c \in Chains, NEW k, k = Dropped(r, c)
    PROVE  /\ \A d \in Chains, f \in Routable : k.memory[d][f] \in {r.memory[d][f], None}
           /\ \A f \in Routable : k.memory[c][f] # None => IndexOf(r, k.memory[c][f]) # 0 /\ k.memory[c][f] = r.memory[c][f]
<1> DEFINE m == [f \in Routable |-> IF IndexOf(r, r.memory[c][f]) # 0 THEN r.memory[c][f] ELSE None]
<1>1. k = [r EXCEPT !.memory = [@ EXCEPT ![c] = m]]
  BY NotNone DEF Dropped, Views, Memories
<1>2. \A f \in Routable : /\ m[f] \in {r.memory[c][f], None}
                          /\ m[f] # None => IndexOf(r, m[f]) # 0 /\ m[f] = r.memory[c][f]
  OBVIOUS
<1> HIDE DEF m
<1>3. r.memory \in Memories
  BY ViewParts
<1>4. k.memory = [r.memory EXCEPT ![c] = m]
  BY <1>1 DEF Views
<1>5. k.memory[c] = m /\ \A d \in Chains : d # c => k.memory[d] = r.memory[d]
  BY <1>3, <1>4 DEF Memories
<1> QED BY <1>2, <1>5

AppliedHere(rec) == {p \in Applied(rec) : p[1] \in Routable}

\* What was held is remembered for the other chain, what was applied for this one.
LEMMA RecordedMemory ==
    ASSUME NEW r \in Views, NEW rec \in Formeds, NEW k, k = Recorded(r, rec), NEW m \in Chains, ActiveChain(r) = m,
           \A p \in rec.held : ROUTABLE[p[1]].chain # m,
           \A p \in AppliedHere(rec) : ROUTABLE[p[1]].chain = m
    PROVE  /\ \A f \in Routable : IF \E p \in AppliedHere(rec) : p[1] = f
                                  THEN \E p \in AppliedHere(rec) : p[1] = f /\ k.memory[m][f] = p[2]
                                  ELSE k.memory[m][f] = r.memory[m][f]
           /\ Own(r) => Own(k)
<1> DEFINE pcm == {p \in rec.held : ROUTABLE[p[1]].chain = "pcm"}
           sdm == {p \in rec.held : ROUTABLE[p[1]].chain = "sdm"}
           applied == AppliedHere(rec)
           one == Remember(r, "pcm", pcm)
           two == Remember(one, "sdm", sdm)
<1>1. pcm \in SUBSET Fields /\ sdm \in SUBSET Fields /\ applied \in SUBSET Fields /\ "pcm" \in Chains /\ "sdm" \in Chains
  BY DEF Formeds, Records, Applied, AppliedHere, Chains
<1>2. k = Remember(two, m, applied)
  BY NotNone DEF Recorded, AppliedHere
<1>3. one \in Views /\ two \in Views
  BY <1>1, RememberTyped
<1>4. (m = "pcm" => pcm = {}) /\ (m = "sdm" => sdm = {}) /\ m \in {"pcm", "sdm"}
  BY DEF Chains
<1>5. /\ \A p \in pcm : p[1] \in Routable /\ ROUTABLE[p[1]].chain = "pcm"
      /\ \A p \in sdm : p[1] \in Routable /\ ROUTABLE[p[1]].chain = "sdm"
  BY DEF Formeds, Formed
<1>0. \A p \in applied : ROUTABLE[p[1]].chain = m
  OBVIOUS
<1> HIDE DEF pcm, sdm, applied
<1>6. /\ \A d \in Chains : d # "pcm" => one.memory[d] = r.memory[d]
      /\ \A f \in Routable : IF \E p \in pcm : p[1] = f THEN \E p \in pcm : p[1] = f /\ one.memory["pcm"][f] = p[2]
                             ELSE one.memory["pcm"][f] = r.memory["pcm"][f]
  BY <1>1, RememberMemory
<1> HIDE DEF one
<1>7. /\ \A d \in Chains : d # "sdm" => two.memory[d] = one.memory[d]
      /\ \A f \in Routable : IF \E p \in sdm : p[1] = f THEN \E p \in sdm : p[1] = f /\ two.memory["sdm"][f] = p[2]
                             ELSE two.memory["sdm"][f] = one.memory["sdm"][f]
  BY <1>1, <1>3, RememberMemory
<1> HIDE DEF two
<1>8. /\ \A d \in Chains : d # m => k.memory[d] = two.memory[d]
      /\ \A f \in Routable : IF \E p \in applied : p[1] = f THEN \E p \in applied : p[1] = f /\ k.memory[m][f] = p[2]
                             ELSE k.memory[m][f] = two.memory[m][f]
  BY <1>1, <1>2, <1>3, RememberMemory
<1>9. \A f \in Routable : two.memory[m][f] = r.memory[m][f]
  BY <1>1, <1>4, <1>6, <1>7
<1>10. ASSUME Own(r), NEW c \in Chains, NEW f \in Routable, k.memory[c][f] # None PROVE ROUTABLE[f].chain = c
  <2>1. c = "pcm" \/ c = "sdm"
    BY DEF Chains
  <2>2. two.memory[c][f] # None => ROUTABLE[f].chain = c
    <3>1. one.memory[c][f] # None => ROUTABLE[f].chain = c
      BY <1>1, <1>5, <1>6, <1>10, <2>1 DEF Own
    <3> QED BY <1>1, <1>5, <1>7, <3>1, <2>1
  <2> QED BY <1>0, <1>8, <1>10, <2>2
<1>11. Own(r) => Own(k)
  BY <1>10 DEF Own
<1> QED BY <1>8, <1>9, <1>11 DEF applied

\* What is re-asserted is what is remembered.
LEMMA ReassertingOne ==
    ASSUME NEW r \in Views, NEW rec \in Formeds, NEW s, s = Reasserting(r, rec)
    PROVE  Len(s.edits) <= 1
<1> DEFINE ps == Carried(r, ActiveChain(r))
           edits == IF Resolves(r, ps) THEN Setters(r, ps) ELSE <<>>
           at == IF ps # {} /\ Resolves(r, ps) THEN "set" ELSE "reread"
<1>1. \A p \in ps : p[1] \in Routable
  BY ActiveChainType, CarriedFields
<1>2. edits \in {<<Op("filter", FilterPair(r, ps))>>, <<>>}
  <2> HIDE DEF ps
  <2>1. (\A p \in ps : p[1] # "mode") /\ ~(\E p \in ps : p[1] = "junk_filter")
    BY <1>1, RoutableFields
  <2> QED BY <2>1, SettersOf
<1>3. Len(edits) <= 1
  <2> HIDE DEF ps, edits
  <2> DEFINE op == Op("filter", FilterPair(r, ps))
  <2>1. edits \in {<<op>>, <<>>}
    BY <1>2
  <2> HIDE DEF op
  <2>2. CASE edits = <<op>>
    <3>1. Len(<<op>>) = 1
      OBVIOUS
    <3> QED BY <2>2, <3>1
  <2>3. CASE edits = <<>>
    BY <2>3
  <2> QED BY <2>1, <2>2, <2>3
<1>4. s = [rec EXCEPT !.for = "chain", !.edits = edits, !.at = at]
  BY DEF Reasserting
<1> HIDE DEF ps, edits, at
<1>5. s.edits = edits
  BY <1>4 DEF Formeds, Records
<1> QED BY <1>3, <1>5

LEMMA ReassertingSends ==
    ASSUME NEW r \in Views, NEW rec \in Formeds, NEW s, s = Reasserting(r, rec), NEW m \in Chains, ActiveChain(r) = m,
           r.lists = m, r.state # None, Own(r), NEW k, k = Dropped(r, m),
           NEW f \in Routable, k.memory[m][f] # None
    PROVE  s.at = "set" /\ Lists[m][Head(s.edits).value[ROUTABLE[f].arg]] = k.memory[m][f]
<1> DEFINE ps == Carried(r, m)
           p == <<f, k.memory[m][f]>>
<1>1. m # None
  BY NotNone
<1>2. IndexOf(r, k.memory[m][f]) # 0 /\ k.memory[m][f] = r.memory[m][f]
  BY DroppedMemory
<1>3. p \in ps
  BY <1>1, <1>2 DEF Carried, Held
<1>4. ps \in SUBSET Fields /\ \A q \in ps : q[1] \in Routable
  BY CarriedFields
<1>5. OneEach(ps) /\ (\A q \in ps : ROUTABLE[q[1]].chain = m) /\ \A q \in ps : IndexOf(r, q[2]) # 0
  BY <1>1 DEF Carried, Held, OneEach, Own
<1>6. Resolves(r, ps)
  <2> HIDE DEF ps
  <2> QED BY <1>4, <1>5, RoutableFields DEF Resolves
<1>7. s.edits = Setters(r, ps) /\ s.at = "set"
  <2>1. Resolves(r, Carried(r, ActiveChain(r))) /\ Carried(r, ActiveChain(r)) # {}
    BY <1>3, <1>6
  <2> DEFINE es == Setters(r, ps)
  <2>2. s = [rec EXCEPT !.for = "chain", !.edits = es, !.at = "set"]
    BY <2>1 DEF Reasserting
  <2> HIDE DEF es
  <2>3. s.edits = es /\ s.at = "set"
    BY <2>2 DEF Formeds, Records
  <2> QED BY <2>3 DEF es
<1> HIDE DEF ps
<1>8. Lists[m][FilterPair(r, ps)[ROUTABLE[f].arg]] = k.memory[m][f]
  <2>1. \A q \in ps : q[1] \in Routable => Lists[m][FilterPair(r, ps)[ROUTABLE[q[1]].arg]] = q[2]
    BY <1>4, <1>5, <1>6, PairMeans
  <2>2. p[1] = f /\ p[2] = k.memory[m][f]
    OBVIOUS
  <2> HIDE DEF p
  <2> QED BY <1>3, <2>1, <2>2
<1>9. Setters(r, ps) = <<Op("filter", FilterPair(r, ps))>>
  <2>1. (\A q \in ps : q[1] # "mode") /\ ~(\E q \in ps : q[1] = "junk_filter") /\ \E q \in ps : q[1] \in Routable
    BY <1>3, <1>4, RoutableFields
  <2> QED BY <2>1, SettersOf
<1>10. Head(s.edits).value = FilterPair(r, ps)
  BY <1>7, <1>9 DEF Op
<1> QED BY <1>7, <1>8, <1>10

-----------------------------------------------------------------------------
(* What a batch holds and names.                                            *)

Sends(rec, x) == x \in rec.tried \/ \E i \in 1..Len(rec.edits) : rec.edits[i].setting = x
Batch(m, w) ==
    /\ OneChain(w.rest)
    /\ w.at = "idle" => w.tried = {}
    /\ w.for = "chain" => Len(w.edits) <= 1
    /\ w.for = "batch" =>
          /\ \A p \in w.held : ROUTABLE[p[1]].chain # m
          /\ \A p \in w.named : p[1] \in Routable => ROUTABLE[p[1]].chain = m
          /\ w.held # {} => ~Sends(w, "mode") /\ ~Sends(w, "filter")
          /\ Sends(w, "mode") => \A p \in w.named : p[1] \notin Routable
          /\ \A i \in 1..Len(w.edits) : w.edits[i].setting = "filter" => "filter" \notin w.tried

\* A batch that sets out with nothing sent, on the pair State has.
Begun(k, s, m) == Batch(m, s) /\ s.tried = {} /\ Completed(k.state, s)

LEMMA SettersShape ==
    ASSUME NEW r, NEW fs, (\E p \in fs : p[1] = "mode") => \A p \in fs : p[1] = "mode"
    PROVE  \A i \in 1..Len(Setters(r, fs)) :
              /\ Setters(r, fs)[i].setting = "filter" =>
                    /\ i = 1 /\ Setters(r, fs)[1].value = FilterPair(r, fs)
                    /\ \E p \in fs : p[1] \in Routable
              /\ Setters(r, fs)[i].setting = "mode" => \E p \in fs : p[1] = "mode"
<1> DEFINE pair == FilterPair(r, fs)
           junk == ValueOf(fs, "junk_filter")
           mode == ValueOf(fs, "mode")
<1>1. CASE \E p \in fs : p[1] = "mode"
  <2>1. Setters(r, fs) = <<Op("mode", mode)>>
    BY <1>1, SettersOf
  <2> HIDE DEF mode
  <2> QED BY <1>1, <2>1 DEF Op
<1>2. CASE ~\E p \in fs : p[1] = "mode"
  <2>1. Setters(r, fs) =
           IF \E p \in fs : p[1] \in Routable
           THEN IF \E p \in fs : p[1] = "junk_filter"
                THEN <<Op("filter", pair), Op("junk_filter", junk)>>
                ELSE <<Op("filter", pair)>>
           ELSE IF \E p \in fs : p[1] = "junk_filter"
                THEN <<Op("junk_filter", junk)>>
                ELSE <<>>
    BY <1>2, SettersOf
  <2> HIDE DEF pair, junk
  <2>2. \/ Setters(r, fs) = <<Op("filter", pair), Op("junk_filter", junk)>> /\ \E p \in fs : p[1] \in Routable
        \/ Setters(r, fs) = <<Op("filter", pair)>> /\ \E p \in fs : p[1] \in Routable
        \/ Setters(r, fs) \in {<<Op("junk_filter", junk)>>, <<>>}
    BY <2>1
  <2>3. CASE Setters(r, fs) = <<Op("filter", pair), Op("junk_filter", junk)>> /\ \E p \in fs : p[1] \in Routable
    BY <2>3 DEF Op, pair
  <2>4. CASE Setters(r, fs) = <<Op("filter", pair)>> /\ \E p \in fs : p[1] \in Routable
    BY <2>4 DEF Op, pair
  <2>5. CASE Setters(r, fs) = <<Op("junk_filter", junk)>>
    BY <2>5 DEF Op
  <2>6. CASE Setters(r, fs) = <<>>
    BY <2>6
  <2> QED BY <2>2, <2>3, <2>4, <2>5, <2>6
<1> QED BY <1>1, <1>2

LEMMA IdleBegun == \A k, m : Begun(k, Idle, m)
<1>1. /\ Idle.at = "idle" /\ Idle.for = "batch" /\ Idle.edits = <<>> /\ Idle.tried = {} /\ Idle.named = {} /\ Idle.held = {}
      /\ Idle.rest = {}
  BY DEF Idle
<1>2. \A i \in 1..Len(Idle.edits) : FALSE
  BY <1>1
<1> QED BY <1>1, <1>2 DEF Begun, Batch, OneChain, Completed, FilterFirst

LEMMA StartedHeld ==
    ASSUME NEW r, NEW rec, NEW fs, NEW more, NEW s, s = Started(r, rec, fs, more)
    PROVE  s = Idle \/ s.held = {p \in fs : OffChain(r, p)}
<1> DEFINE out == {p \in fs : OffChain(r, p)}
           live == fs \ out
           at == IF live = {} THEN "refresh" ELSE "set"
           ss == Setters(r, live)
           snap == rec.snap
           landed == rec.landed
           res == [Idle EXCEPT !.at = at, !.edits = ss, !.named = live, !.held = out, !.rest = more, !.snap = snap,
                             !.landed = landed]
<1>1. CASE ~Resolves(r, live)
  BY <1>1 DEF Started
<1>2. CASE Resolves(r, live)
  <2>1. s = res
    BY <1>2 DEF Started
  <2> HIDE DEF at, ss, out, live, snap, landed
  <2>2. res.held = out
    BY DEF Idle
  <2> QED BY <2>1, <2>2 DEF out
<1> QED BY <1>1, <1>2

\* The setters of a batch complete the pair from State.
LEMMA StartedCompleted ==
    ASSUME NEW m \in Chains, NEW k \in Views, k.lists = m, k.state # None, k.state.mode = m,
           NEW rec, NEW fs \in SUBSET Fields, NEW more, OneEach(fs),
           (\E p \in fs : p[1] = "mode") => \A p \in fs : p[1] = "mode",
           NEW s, s = Started(k, rec, fs, more)
    PROVE  s.tried = {} /\ Completed(k.state, s)
<1> DEFINE live == Live(k, fs)
<1>1. ActiveChain(k) = m
  BY DEF ActiveChain
<1>2. /\ live \in SUBSET Fields /\ OneEach(live)
      /\ \A p \in live : p[1] \in Routable => ROUTABLE[p[1]].chain = m
      /\ (\E p \in live : p[1] = "mode") => \A p \in live : p[1] = "mode"
  BY <1>1 DEF OneEach, OffChain, Live
<1>3. \/ s = Idle
      \/ /\ Resolves(k, live)
         /\ s.at = IF live = {} THEN "refresh" ELSE "set"
         /\ s.edits = Setters(k, live) /\ s.tried = {} /\ s.named = live
  BY StartedRecord
<1> HIDE DEF live
<1>4. CASE s = Idle
  BY <1>4, IdleBegun DEF Begun
<1>5. CASE s # Idle
  <2>1. \A i \in 1..Len(s.edits) :
           s.edits[i].setting = "filter" => i = 1 /\ s.edits[1].value = FilterPair(k, live) /\ \E p \in live : p[1] \in Routable
    BY <1>2, <1>3, <1>5, SettersShape
  <2>2. FilterFirst(s)
    BY <2>1 DEF FilterFirst
  <2>3. \A a \in Arguments : HalfNamed(a, live) \/ FilterPair(k, live)[a] = k.state.filter[a]
    BY <1>2, <1>3, <1>5, PairMeans
  <2>4. s.at = "set" => Head(s.edits) = s.edits[1] /\ 1 \in 1..Len(s.edits)
    <3>1. s.at = "set" => live # {}
      BY <1>3, <1>5
    <3>2. s.edits \in Seq(Ops)
      BY <1>2, <1>3, <1>5, SettersTyped
    <3>3. s.at = "set" => s.edits # <<>>
      BY <1>2, <1>3, <1>5, <3>1, SettersTyped
    <3> QED BY <3>2, <3>3
  <2> QED BY <1>3, <1>5, <2>1, <2>2, <2>3, <2>4 DEF Completed
<1> QED BY <1>4, <1>5

LEMMA StartedBegun ==
    ASSUME NEW m \in Chains, NEW k \in Views, k.lists = m, k.state # None, k.state.mode = m,
           NEW rec, NEW fs \in SUBSET Fields, NEW more \in SUBSET Fields, OneEach(fs), OneChain(fs), OneChain(more),
           (\E p \in fs : p[1] = "mode") => \A p \in fs : p[1] = "mode",
           NEW s, s = Started(k, rec, fs, more)
    PROVE  Begun(k, s, m)
<1> DEFINE live == Live(k, fs)
           out == {p \in fs : OffChain(k, p)}
<1>1. ActiveChain(k) = m
  BY DEF ActiveChain
<1>2. /\ live \in SUBSET Fields
      /\ \A p \in live : p[1] \in Routable => ROUTABLE[p[1]].chain = m
      /\ (\E p \in live : p[1] = "mode") => \A p \in live : p[1] = "mode"
  BY <1>1 DEF OffChain, Live
<1>3. \A p \in out : p[1] \in Routable /\ ROUTABLE[p[1]].chain # m /\ p[1] # "mode"
  BY <1>1, RoutableFields DEF OffChain
<1>4. out # {} => \A p \in live : p[1] \notin Routable /\ p[1] # "mode"
  BY <1>2, <1>3 DEF OneChain, Live
<1>5. \/ s = Idle
      \/ /\ s.at = IF live = {} THEN "refresh" ELSE "set"
         /\ s.for = "batch" /\ s.edits = Setters(k, live) /\ s.named = live /\ s.rest = more
  BY StartedRecord
<1>6. s = Idle \/ s.held = out
  BY StartedHeld
<1>7. (\E p \in live : p[1] = "mode") => \A p \in live : p[1] \notin Routable
  BY <1>2, RoutableFields
<1>8. s.tried = {} /\ Completed(k.state, s)
  BY StartedCompleted
<1> HIDE DEF live, out
<1>9. CASE s = Idle
  BY <1>9, IdleBegun
<1>10. CASE s # Idle
  <2>1. \A i \in 1..Len(s.edits) :
              /\ s.edits[i].setting = "filter" => \E p \in live : p[1] \in Routable
              /\ s.edits[i].setting = "mode" => \E p \in live : p[1] = "mode"
    BY <1>2, <1>5, <1>10, SettersShape
  <2>2. Batch(m, s)
    BY <1>2, <1>3, <1>4, <1>5, <1>6, <1>7, <1>8, <1>10, <2>1 DEF Batch, Sends
  <2> QED BY <1>8, <2>2 DEF Begun
<1> QED BY <1>9, <1>10

LEMMA RoutedBegun ==
    ASSUME NEW m \in Chains, NEW k \in Views, k.lists = m, k.state # None, k.state.mode = m,
           NEW rec, NEW fs \in SUBSET Fields, OneEach(fs), OneChain(fs), NEW s, s = Routed(k, rec, fs)
    PROVE  Begun(k, s, m)
<1> DEFINE mode == {p \in fs : p[1] = "mode"}
           rest == fs \ mode
<1>1. /\ mode \in SUBSET Fields /\ rest \in SUBSET Fields /\ {} \in SUBSET Fields
      /\ OneEach(mode) /\ OneEach(rest) /\ OneEach({})
      /\ (\A p \in mode : p[1] = "mode") /\ (\A p \in rest : p[1] # "mode")
  BY DEF OneEach
<1>6. OneChain(mode) /\ OneChain(rest) /\ OneChain({})
  BY DEF OneChain
<1>2. \/ (mode = {} \/ mode = fs) /\ s = Started(k, rec, fs, {})
      \/ s = Started(k, rec, rest, {})
      \/ s = Started(k, rec, mode, rest)
  BY DEF Routed
<1>3. CASE (mode = {} \/ mode = fs) /\ s = Started(k, rec, fs, {})
  <2>1. (\E p \in fs : p[1] = "mode") => \A p \in fs : p[1] = "mode"
    BY <1>3
  <2> HIDE DEF mode, rest
  <2> QED BY <1>1, <1>3, <1>6, <2>1, StartedBegun
<1> HIDE DEF mode, rest
<1>4. CASE s = Started(k, rec, rest, {})
  BY <1>1, <1>4, <1>6, StartedBegun
<1>5. CASE s = Started(k, rec, mode, rest)
  BY <1>1, <1>5, <1>6, StartedBegun
<1> QED BY <1>2, <1>3, <1>4, <1>5

-----------------------------------------------------------------------------
(* What is remembered for the chain loaded is played.                       *)

On(e, f, v) == Lists[e.mode][e.filter[ROUTABLE[f].arg]] = v

\* With no setter ignored, what was sent is on the engine.
Landed(e, w) ==
    /\ w.at = "check" => /\ Head(w.edits).setting = "filter" => e.filter = Head(w.edits).value
                         /\ Head(w.edits).setting = "mode" => e.mode = Head(w.edits).value
    /\ w.for = "batch" => \A x \in {"mode", "filter"} : x \in w.tried => x \in w.done

\* The batch's filters are on the engine; it will replace what is remembered of them.
FilterSent(w) == w.for = "batch" /\ ("filter" \in w.tried \/ (w.at = "check" /\ Head(w.edits).setting = "filter"))

\* It is played, or about to be sent, or replaced.
Resends(w) == w.for = "chain" /\ w.at = "set"
Stands(e, r, w, f) ==
    \/ r.memory[e.mode][f] = None \/ Switching(w, e.mode)
    \/ Resends(w) /\ Lists[e.mode][Head(w.edits).value[ROUTABLE[f].arg]] = r.memory[e.mode][f]
    \/ ~Resends(w) /\ On(e, f, r.memory[e.mode][f])
    \/ FilterSent(w) /\ \E p \in w.named : p[1] = f

Kept(e, r, w) ==
    /\ Own(r) /\ Batch(e.mode, w) /\ Landed(e, w)
    /\ FilterSent(w) => \A p \in w.named : p[1] \in Routable => On(e, p[1], p[2])
    /\ \A f \in FieldsOf(e.mode) : Stands(e, r, w, f)

\* Nothing is under way.
Settled(e, r) == Own(r) /\ \A f \in FieldsOf(e.mode) : r.memory[e.mode][f] # None => On(e, f, r.memory[e.mode][f])

LEMMA KeptSettled ==
    ASSUME NEW e \in States, NEW r \in Views, NEW w \in Formeds, Kept(e, r, w),
           \/ w.at = "idle" /\ WriterShape(w)
           \/ w.at = "reread" /\ w.for = "chain"
    PROVE  Settled(e, r)
<1>1. ~Switching(w, e.mode) /\ ~Resends(w) /\ ~FilterSent(w)
  BY DEF Switching, Resends, FilterSent, WriterShape, Kept, Batch
<1> QED BY <1>1 DEF Kept, Settled, Stands

LEMMA KeptBegun ==
    ASSUME NEW e \in States, NEW r \in Views, Settled(e, r), NEW k, NEW s \in Formeds, SetsOut(s, e.mode), Begun(k, s, e.mode)
    PROVE  Kept(e, r, s)
<1>1. ~FilterSent(s) /\ ~Resends(s)
  BY DEF FilterSent, Resends, SetsOut, Begun
<1>2. Landed(e, s)
  BY DEF Landed, SetsOut, Begun
<1> QED BY <1>1, <1>2 DEF Kept, Settled, Stands, Begun

\* The poll forgets what the lists do not carry, or reads something.
LEMMA KeptPoll ==
    ASSUME NEW e \in States, NEW r \in Views, NEW w \in Formeds, Kept(e, r, w),
           NEW f \in States, f.mode = e.mode, f.filter = e.filter,
           NEW k \in Views, \A c \in Chains, x \in Routable : k.memory[c][x] \in {r.memory[c][x], None},
           e.mode \in Chains
    PROVE  Kept(f, k, w)
<1>1. Own(k)
  BY DEF Kept, Own
<1>2. Landed(f, w) /\ (FilterSent(w) => \A p \in w.named : p[1] \in Routable => On(f, p[1], p[2]))
  BY DEF Kept, Landed, On
<1>3. ASSUME NEW x \in FieldsOf(e.mode) PROVE Stands(f, k, w, x)
  <2>1. Stands(e, r, w, x) /\ x \in Routable
    BY DEF Kept, FieldsOf
  <2>2. k.memory[e.mode][x] = None \/ k.memory[e.mode][x] = r.memory[e.mode][x]
    BY <2>1
  <2> QED BY <2>1, <2>2 DEF Stands, On
<1> QED BY <1>1, <1>2, <1>3 DEF Kept

LEMMA KeptPollSets ==
    ASSUME NEW e \in States, NEW r \in Views, NEW w \in Formeds, Kept(e, r, w), Switching(w, e.mode),
           WriterShape(w), NEW f \in States, f.mode = e.mode
    PROVE  Kept(f, r, w)
<1>1. Sends(w, "mode")
  <2>1. w.at = "check" => Head(w.edits) = w.edits[1] /\ 1 \in 1..Len(w.edits)
    BY RecordParts DEF Formed
  <2> QED BY <2>1 DEF Switching, Sends, WriterShape, Orderly
<1>2. \A p \in w.named : p[1] \notin Routable
  BY <1>1 DEF Kept, Batch, Switching
<1>3. w.at = "check" => Head(w.edits).setting # "filter"
  BY DEF Switching
<1>4. Landed(f, w)
  BY <1>3 DEF Kept, Landed
<1> QED BY <1>2, <1>4 DEF Kept, Stands

\* The writer reads lists.
LEMMA KeptLists ==
    ASSUME NEW e \in States, NEW r \in Views, NEW w \in Formeds, Kept(e, r, w), w.at \in {"refresh", "lists"},
           w.for = "batch", NEW k \in Views, k.memory = r.memory,
           NEW s \in Formeds, s.at = "lists", s.for = w.for, s.edits = w.edits, s.tried = w.tried, s.done = w.done,
           s.named = w.named, s.held = w.held, s.rest = w.rest
    PROVE  Kept(e, k, s)
<1>1. (Switching(w, e.mode) <=> Switching(s, e.mode)) /\ (FilterSent(w) <=> FilterSent(s)) /\ ~Resends(w) /\ ~Resends(s)
  BY DEF Switching, FilterSent, Resends
<1>2. Batch(e.mode, s) /\ Landed(e, s) /\ Own(k)
  BY DEF Kept, Batch, Sends, Landed, Own
<1>3. \A f \in FieldsOf(e.mode) : Stands(e, k, s, f)
  BY <1>1 DEF Kept, Stands
<1> QED BY <1>1, <1>2, <1>3 DEF Kept

\* A setter took.
LEMMA KeptSets ==
    ASSUME NEW e \in States, e.mode \in Chains, NEW r \in Views, NEW w \in Formeds, Kept(e, r, w), WriterShape(w),
           Apt(w, e.mode), Completed(e, w), w.at = "set",
           NEW f \in States, f.mode \in Chains,
           Head(w.edits).setting = "mode" => f.mode = Head(w.edits).value,
           Head(w.edits).setting = "filter" => f.mode = e.mode /\ f.filter = Head(w.edits).value,
           Head(w.edits).setting = "junk_filter" => f.mode = e.mode /\ f.filter = e.filter,
           NEW s \in Formeds, s.at = "check", s.for = w.for, s.edits = w.edits, s.tried = w.tried, s.done = w.done,
           s.named = w.named, s.held = w.held, s.rest = w.rest
    PROVE  Kept(f, r, s)
<1> DEFINE op == Head(w.edits)
<1>1. op = w.edits[1] /\ 1 \in 1..Len(w.edits) /\ op \in Ops /\ op.setting \in {"mode", "filter", "junk_filter"}
  <2>1. op = w.edits[1] /\ 1 \in 1..Len(w.edits)
    BY RecordParts DEF Formed
  <2>2. op \in Ops
    BY FirstOp
  <2> QED BY <2>1, <2>2, OpTypes DEF Settings
<1>2. w.for \in {"batch", "chain"} /\ (w.for = "chain" => op.setting = "filter")
  BY <1>1 DEF WriterShape, Only
<1>3. ~Switching(w, e.mode)
  BY DEF Switching
<1>4. CASE op.setting = "mode"
  <2>1. w.for = "batch" /\ Sends(w, "mode")
    BY <1>1, <1>2, <1>4 DEF Sends
  <2>2. w.held = {} /\ \A p \in w.named : p[1] \notin Routable
    BY <2>1 DEF Kept, Batch
  <2>3. Batch(f.mode, s)
    BY <2>1, <2>2 DEF Kept, Batch, Sends
  <2>4. Switching(s, f.mode)
    BY <1>4, <2>1 DEF Switching
  <2>5. Landed(f, s)
    BY <1>4 DEF Kept, Landed
  <2> QED BY <2>2, <2>3, <2>4, <2>5 DEF Kept, Stands
<1>5. CASE op.setting = "filter"
  <2>1. Landed(f, s) /\ Batch(f.mode, s)
    BY <1>5 DEF Kept, Landed, Batch, Sends
  <2>2. CASE w.for = "chain"
    <3>1. Resends(w) /\ ~Resends(s) /\ ~FilterSent(w) /\ ~FilterSent(s)
      BY <2>2 DEF Resends, FilterSent
    <3>2. \A x \in FieldsOf(e.mode) : Stands(f, r, s, x)
      BY <1>3, <1>5, <3>1 DEF Kept, Stands, On
    <3> QED BY <1>5, <2>1, <3>1, <3>2 DEF Kept
  <2>3. CASE w.for = "batch"
    <3>1. ~Resends(w) /\ ~Resends(s) /\ FilterSent(s) /\ ~FilterSent(w)
      BY <1>1, <1>5, <2>3 DEF Resends, FilterSent, Kept, Batch
    <3>2. \A p \in w.named : p[1] \in Routable => /\ ROUTABLE[p[1]].chain = e.mode
                                                  /\ Lists[e.mode][op.value[ROUTABLE[p[1]].arg]] = p[2]
      BY <1>1, <1>5, <2>3 DEF Apt, Means, Setting
    <3>3. ASSUME NEW x \in FieldsOf(e.mode) PROVE Stands(f, r, s, x)
      <4>1. x \in Routable /\ ROUTABLE[x].chain = e.mode /\ ROUTABLE[x].arg \in Arguments
        BY RoutableFields DEF FieldsOf, Arguments
      <4>2. HalfNamed(ROUTABLE[x].arg, w.named) \/ op.value[ROUTABLE[x].arg] = e.filter[ROUTABLE[x].arg]
        BY <1>5, <2>3, <4>1 DEF Completed
      <4>3. HalfNamed(ROUTABLE[x].arg, w.named) => \E p \in w.named : p[1] = x
        <5>1. \A y, z \in Routable : ROUTABLE[y].chain = ROUTABLE[z].chain /\ ROUTABLE[y].arg = ROUTABLE[z].arg => y = z
          BY RoutableFields DEF ROUTABLE
        <5> QED BY <3>2, <4>1, <5>1 DEF HalfNamed
      <4>4. r.memory[e.mode][x] = None \/ On(e, x, r.memory[e.mode][x])
        BY <1>3, <3>1 DEF Kept, Stands
      <4> QED BY <1>5, <3>1, <4>2, <4>3, <4>4 DEF Stands, On
    <3>4. \A p \in s.named : p[1] \in Routable => On(f, p[1], p[2])
      BY <1>5, <3>2 DEF On
    <3> QED BY <1>5, <2>1, <3>3, <3>4 DEF Kept
  <2> QED BY <1>2, <2>2, <2>3
<1>6. CASE op.setting = "junk_filter"
  <2>1. Landed(f, s) /\ Batch(f.mode, s)
    BY <1>6 DEF Kept, Landed, Batch, Sends
  <2>2. ~Resends(w) /\ ~Resends(s) /\ (FilterSent(w) <=> FilterSent(s))
    BY <1>2, <1>6 DEF Resends, FilterSent
  <2>3. \A x \in FieldsOf(e.mode) : Stands(f, r, s, x)
    BY <1>3, <1>6, <2>2 DEF Kept, Stands, On
  <2> QED BY <1>6, <2>1, <2>2, <2>3 DEF Kept, On
<1> QED BY <1>1, <1>4, <1>5, <1>6

LEMMA LastOne ==
    ASSUME NEW es \in Seq(Ops), es # <<>>
    PROVE  /\ Len(es) = 1 => Tail(es) = <<>> /\ Len(Tail(es)) <= 1
           /\ Len(es) <= 1 => Len(es) = 1
<1>1. Len(es) \in Nat \ {0} /\ Len(Tail(es)) = Len(es) - 1 /\ Tail(es) \in Seq(Ops)
  OBVIOUS
<1> QED BY <1>1, EmptySeq

\* A setter is read back.
LEMMA KeptChecks ==
    ASSUME NEW e \in States, NEW r \in Views, NEW w \in Formeds, Kept(e, r, w), WriterShape(w), Completed(e, w), w.at = "check",
           NEW s \in Formeds, s.at = (IF Tail(w.edits) = <<>> THEN Sent(w) ELSE "set"), s.edits = Tail(w.edits),
           s.tried = w.tried \cup {Head(w.edits).setting},
           s.done = w.done \cup (IF e[Head(w.edits).setting] = Head(w.edits).value THEN {Head(w.edits).setting} ELSE {}),
           s.for = w.for, s.named = w.named, s.held = w.held, s.rest = w.rest
    PROVE  Kept(e, r, s)
<1> DEFINE m == e.mode
           op == Head(w.edits)
<1>1. w.edits \in Seq(Ops) /\ w.edits # <<>> /\ op = w.edits[1] /\ 1 \in 1..Len(w.edits)
  BY RecordParts DEF Formed
<1>2. /\ Len(w.edits) \in Nat \ {0} /\ Len(s.edits) = Len(w.edits) - 1
      /\ \A i \in 1..Len(s.edits) : i + 1 \in 1..Len(w.edits) /\ s.edits[i] = w.edits[i + 1] /\ i + 1 # 1
  BY <1>1
<1>3. (Len(w.edits) = 1 => Tail(w.edits) = <<>>) /\ (w.for = "chain" => Len(w.edits) = 1)
  <2>1. w.for = "chain" => Len(w.edits) <= 1
    BY DEF Kept, Batch
  <2> QED BY <1>1, <2>1, LastOne
<1>4. w.for \in {"batch", "chain"} /\ s.at # "check" /\ s.at # "idle"
  BY DEF WriterShape, Sent
<1>5. Landed(e, s)
  BY <1>4 DEF Kept, Landed
<1>6. Switching(w, m) => Switching(s, m)
  <2>1. Switching(w, m) => w.for = "batch" /\ op.setting = "mode" /\ op.value = m
    BY DEF Switching
  <2>2. Switching(w, m) => Len(w.edits) = 1 /\ "mode" \in s.done
    BY <1>1, <2>1 DEF WriterShape
  <2> QED BY <1>3, <2>1, <2>2 DEF Sent, Switching
<1>7. ~Resends(w) /\ ~Resends(s) /\ (FilterSent(w) <=> FilterSent(s))
  BY <1>3, <1>4 DEF Resends, Sent, FilterSent
<1>8. Batch(m, s)
  <2>1. \A x : Sends(s, x) => Sends(w, x)
    BY <1>1, <1>2 DEF Sends
  <2>2. w.for = "batch" => \A i \in 1..Len(s.edits) : s.edits[i].setting # "filter"
    BY <1>2 DEF Completed, FilterFirst
  <2>3. w.for = "chain" => Len(s.edits) <= 1
    BY <1>1, <1>3, LastOne
  <2> QED BY <1>4, <2>1, <2>2, <2>3 DEF Kept, Batch
<1>9. \A f \in FieldsOf(m) : Stands(e, r, s, f)
  BY <1>6, <1>7 DEF Kept, Stands
<1> QED BY <1>5, <1>7, <1>8, <1>9 DEF Kept

\* What is recorded of a batch.
LEMMA BatchRecorded ==
    ASSUME NEW e \in States, e.mode \in Chains, NEW r \in Views, NEW w \in Formeds, Kept(e, r, w), w.done \subseteq w.tried,
           w.for = "batch", w.at \in {"refresh", "lists"},
           NEW h \in Views, h.memory = r.memory, ActiveChain(h) = e.mode, NEW k, k = Recorded(h, w)
    PROVE  /\ Own(k)
           /\ \A f \in Routable : IF \E p \in AppliedHere(w) : p[1] = f
                                  THEN \E p \in AppliedHere(w) : p[1] = f /\ k.memory[e.mode][f] = p[2]
                                  ELSE k.memory[e.mode][f] = r.memory[e.mode][f]
           /\ \A p \in AppliedHere(w) : p \in w.named /\ FilterSent(w)
           /\ "mode" \in w.done => AppliedHere(w) = {}
<1> DEFINE m == e.mode
<1>1. \A p \in AppliedHere(w) : p \in w.named \cup w.held /\ "filter" \in w.done /\ p[1] \in Routable
  BY DEF AppliedHere, Applied, Setting
<1>3. \A p \in AppliedHere(w) : p \in w.named /\ FilterSent(w)
  BY <1>1 DEF Kept, Batch, Sends, FilterSent
<1>4. "mode" \in w.done => AppliedHere(w) = {}
  BY <1>1, <1>3 DEF Kept, Batch, Sends
<1>5. /\ \A p \in AppliedHere(w) : ROUTABLE[p[1]].chain = m
      /\ \A p \in w.held : ROUTABLE[p[1]].chain # m
  BY <1>1, <1>3 DEF Kept, Batch
<1>6. Own(h)
  BY DEF Kept, Own
<1> HIDE DEF m
<1>7. /\ \A f \in Routable : IF \E p \in AppliedHere(w) : p[1] = f
                             THEN \E p \in AppliedHere(w) : p[1] = f /\ k.memory[m][f] = p[2]
                             ELSE k.memory[m][f] = h.memory[m][f]
      /\ Own(h) => Own(k)
  <2>1. m \in Chains /\ ActiveChain(h) = m
    BY DEF m
  <2> QED BY <1>5, <2>1, RecordedMemory
<1> QED BY <1>3, <1>4, <1>6, <1>7 DEF m

\* The bookkeeping of a batch without a mode.
LEMMA KeptBooks ==
    ASSUME NEW e \in States, e.mode \in Chains, NEW r \in Views, NEW w \in Formeds, Kept(e, r, w), w.done \subseteq w.tried,
           w.for = "batch", w.at \in {"refresh", "lists"}, "mode" \notin w.done,
           NEW h \in Views, h.memory = r.memory, ActiveChain(h) = e.mode, NEW k, k = Recorded(h, w)
    PROVE  Settled(e, k)
<1>1. /\ Own(k)
      /\ \A f \in Routable : IF \E p \in AppliedHere(w) : p[1] = f
                             THEN \E p \in AppliedHere(w) : p[1] = f /\ k.memory[e.mode][f] = p[2]
                             ELSE k.memory[e.mode][f] = r.memory[e.mode][f]
      /\ \A p \in AppliedHere(w) : p \in w.named /\ FilterSent(w)
  BY BatchRecorded
<1>2. ~Switching(w, e.mode) /\ ~Resends(w)
  BY DEF Switching, Resends
<1>3. FilterSent(w) => "filter" \in w.done
  BY DEF FilterSent, Kept, Landed
<1>4. ASSUME NEW f \in FieldsOf(e.mode), k.memory[e.mode][f] # None PROVE On(e, f, k.memory[e.mode][f])
  <2>1. f \in Routable
    BY DEF FieldsOf
  <2>2. CASE \E p \in AppliedHere(w) : p[1] = f
    BY <1>1, <2>1, <2>2 DEF Kept
  <2>3. CASE ~\E p \in AppliedHere(w) : p[1] = f
    <3>1. k.memory[e.mode][f] = r.memory[e.mode][f]
      BY <1>1, <2>1, <2>3
    <3>2. ~(FilterSent(w) /\ \E p \in w.named : p[1] = f)
      BY <1>3, <2>1, <2>3 DEF AppliedHere, Applied, Setting
    <3>3. Stands(e, r, w, f)
      BY DEF Kept
    <3> QED BY <1>2, <1>4, <3>1, <3>2, <3>3 DEF Stands
  <2> QED BY <2>2, <2>3
<1> QED BY <1>1, <1>4 DEF Settled

\* That of a mode, and what is held for the chain it loaded is sent.
LEMMA KeptReasserts ==
    ASSUME NEW e \in States, e.mode \in Chains, NEW r \in Views, NEW w \in Formeds, Kept(e, r, w), w.done \subseteq w.tried,
           w.for = "batch", w.at = "lists", "mode" \in w.done,
           NEW h \in Views, h.memory = r.memory, h.lists = e.mode, h.state # None, ActiveChain(h) = e.mode,
           NEW q, q = Recorded(h, w), NEW k, k = Dropped(q, e.mode), NEW s, s = Reasserting(q, w)
    PROVE  Kept(e, k, s)
<1> DEFINE m == e.mode
<1>1. q \in Views /\ q.state = h.state /\ q.rate = h.rate /\ q.lists = h.lists
  BY RecordedKept
<1>2. ActiveChain(q) = m
  BY <1>1 DEF ActiveChain
<1>3. Own(q)
  BY BatchRecorded
<1>4. /\ s \in Formeds /\ s.at \in {"set", "reread"} /\ s.for = "chain" /\ s.rest = w.rest /\ Len(s.edits) <= 1
  BY <1>1, ReassertingParts, ReassertingOne
<1>5. \A c \in Chains, f \in Routable : k.memory[c][f] \in {q.memory[c][f], None}
  BY <1>1, DroppedMemory
<1>6. Own(k)
  BY <1>3, <1>5 DEF Own
<1>7. Batch(m, s) /\ Landed(e, s) /\ ~FilterSent(s)
  BY <1>4 DEF Kept, Batch, Landed, FilterSent
<1>8. ASSUME NEW f \in FieldsOf(m) PROVE Stands(e, k, s, f)
  <2>1. f \in Routable
    BY DEF FieldsOf
  <2>2. k.memory[m][f] # None => s.at = "set" /\ Lists[m][Head(s.edits).value[ROUTABLE[f].arg]] = k.memory[m][f]
    <3>1. q.lists = m /\ q.state # None /\ m \in Chains
      BY <1>1
    <3> HIDE DEF m
    <3>2. k = Dropped(q, m)
      BY DEF m
    <3> QED BY <1>1, <1>2, <1>3, <2>1, <3>1, <3>2, ReassertingSends
  <2> QED BY <1>4, <2>2 DEF Stands, Resends
<1> QED BY <1>6, <1>7, <1>8 DEF Kept

-----------------------------------------------------------------------------
(* The writer's requests again.                                             *)

Quiet == Unmoved /\ spent.ignored = 0

SteadyFor(w) == Unmoved => ~engine.playing /\ (up => Steady(engine, readings, task[w], task["poll"], Lead(w)))
KeptFor(w) == Quiet /\ up => Kept(engine, readings, task[w])
HeldInv == LedInv /\ task["pilot"].held = {} /\ \A w \in Writers : SteadyFor(w) /\ KeptFor(w)

\* The environment has spent no less.
Since == (Unmoved' => Unmoved) /\ (Quiet' => Quiet)

LEMMA SpentSince == UNCHANGED spent => Since
  BY DEF Since, Unmoved, Quiet

\* The writer is served.
LEMMA WriterFacts ==
    ASSUME NoSource, HeldInv, NEW w \in Writers, Served(w), NEW s, Steps(w, s)
    PROVE  /\ Led(engine.mode, readings, task[w], task["poll"], 0)
           /\ Unmoved => ~engine.playing /\ Steady(engine, readings, task[w], task["poll"], 0)
           /\ Quiet => Kept(engine, readings, task[w])
           /\ task'[w] = s /\ task'["poll"] = task["poll"] /\ s \in Formeds
           /\ task[w] \in Formeds /\ task["poll"] \in Formeds /\ readings \in Views
           /\ engine \in States /\ engine.mode \in Chains /\ w \in Tasks /\ up /\ Types
           /\ Lead(w)' \in {0, 1} /\ (task["poll"].at # "idle" /\ s.at # "idle" => Lead(w)' = 1)
           /\ WriterShape(task[w]) /\ Apt(task[w], engine.mode)
<1>1. HandInv /\ LedFor(w) /\ Types /\ engine \in States /\ w \in Tasks /\ up /\ SteadyFor(w) /\ KeptFor(w)
  BY HandApart DEF HeldInv, LedInv, HandInv, Sound, Types, Served
<1>2. /\ Led(engine.mode, readings, task[w], task["poll"], 0)
      /\ task'[w] = s /\ task'["poll"] = task["poll"] /\ s \in Formeds
      /\ task[w] \in Formeds /\ task["poll"] \in Formeds /\ readings \in Views
      /\ Lead(w)' \in {0, 1} /\ (task["poll"].at # "idle" /\ s.at # "idle" => Lead(w)' = 1)
  BY <1>1, WriterServed
<1>3. Lead(w) = 0
  <2>1. "poll" \in Tasks \ {w} /\ Sound
    BY HandApart DEF HeldInv, LedInv, HandInv
  <2>2. ~Ahead("poll", w)
    BY <1>1, <2>1, ServedPlaces
  <2> QED BY <2>2 DEF Lead
<1>4. Unmoved => ~engine.playing /\ Steady(engine, readings, task[w], task["poll"], 0)
  BY <1>1, <1>3 DEF SteadyFor
<1>5. (Quiet => Kept(engine, readings, task[w])) /\ engine.mode \in Chains
  BY <1>1, LoadedMode DEF KeptFor
<1> QED BY <1>1, <1>2, <1>4, <1>5 DEF Led

\* What the step leaves behind.
LEMMA WriterHolds ==
    ASSUME NEW w \in Writers, Since, NEW f, engine' = f, NEW k, readings' = k, NEW s, task'[w] = s,
           NEW p, task'["poll"] = p,
           Unmoved => ~f.playing /\ Steady(f, k, s, p, Lead(w)'), Quiet' => Kept(f, k, s)
    PROVE  SteadyFor(w)' /\ KeptFor(w)'
  BY DEF Since, SteadyFor, KeptFor

LEMMA TookFilter ==
    ASSUME NEW e \in States, NoSource, NEW op \in Ops, NEW f, f = Took(e, op)
    PROVE  /\ f \in States /\ f.playing = e.playing
           /\ op.setting = "mode" => f.mode = op.value
           /\ op.setting = "filter" => f.mode = e.mode /\ f.filter = op.value
           /\ op.setting = "junk_filter" => f.mode = e.mode /\ f.filter = e.filter
<1> DEFINE g == [e EXCEPT ![op.setting] = op.value]
<1>1. op.setting \in Settings /\ f \in States
  BY OpTypes, TookTyped
<1>2. /\ g.playing = e.playing /\ g.source = e.source
      /\ g.mode = (IF op.setting = "mode" THEN op.value ELSE e.mode)
      /\ g.filter = (IF op.setting = "filter" THEN op.value ELSE e.filter)
      /\ "filter" \in DOMAIN g
  BY <1>1 DEF States, Settings
<1>3. f = (IF Loaded(g) = Loaded(e) THEN g ELSE [g EXCEPT !.filter = Booted(e.source).filter])
  BY DEF Took
<1>4. op.setting # "mode" => Loaded(g) = Loaded(e)
  BY <1>2 DEF Loaded
<1> HIDE DEF g
<1>5. f.playing = e.playing /\ f.mode = g.mode
  BY <1>2, <1>3
<1> QED BY <1>1, <1>2, <1>3, <1>4, <1>5

LEMMA WriterSetHeld ==
    ASSUME NoSource, HeldInv, NEW w \in Writers, Set(w)
    PROVE  SteadyFor(w)' /\ KeptFor(w)'
<1> DEFINE s == [task[w] EXCEPT !.at = "check"]
           e == engine
           f == engine'
           r == readings
           rec == task[w]
           p == task["poll"]
           lead == Lead(w)'
           op == Head(rec.edits)
<1>1. /\ Served(w) /\ rec.at = "set" /\ rec \in Formeds /\ Goes(w, s) /\ readings' = r
      /\ f = Took(e, op) /\ UNCHANGED spent /\ Types /\ w \in Tasks
  BY HandApart, TaskFormed DEF HeldInv, LedInv, HandInv, Sound, Types, Set, At
<1>2. Steps(w, s)
  BY <1>1, SetSteps DEF At
<1>3. /\ s.at = "check" /\ s.for = rec.for /\ s.edits = rec.edits /\ s.tried = rec.tried /\ s.done = rec.done
      /\ s.named = rec.named /\ s.held = rec.held /\ s.rest = rec.rest
  BY <1>1 DEF Formeds, Records
<1> HIDE DEF s
<1>4. /\ Led(e.mode, r, rec, p, 0)
      /\ Unmoved => ~e.playing /\ Steady(e, r, rec, p, 0)
      /\ Quiet => Kept(e, r, rec)
      /\ task'[w] = s /\ task'["poll"] = p /\ s \in Formeds /\ p \in Formeds /\ r \in Views
      /\ e \in States /\ e.mode \in Chains
      /\ lead \in {0, 1} /\ (p.at # "idle" => lead = 1) /\ WriterShape(rec) /\ Apt(rec, e.mode)
  BY <1>1, <1>2, <1>3, WriterFacts
<1>5. op \in Ops
  BY <1>1, FirstOp
<1>6. /\ f \in States /\ f.playing = e.playing
      /\ op.setting = "mode" => f.mode = op.value
      /\ op.setting = "filter" => f.mode = e.mode /\ f.filter = op.value
      /\ op.setting = "junk_filter" => f.mode = e.mode /\ f.filter = e.filter
  BY <1>1, <1>4, <1>5, TookFilter
<1>7. f.mode # e.mode => op.setting = "mode" /\ f.mode = op.value
  BY <1>5, <1>6, OpTypes DEF Settings
<1>8. f.mode \in Chains
  BY <1>6, LoadedMode
<1> HIDE DEF e, f, r, rec, p, lead
<1>9. Unmoved => ~f.playing /\ Steady(f, r, s, p, lead)
  BY <1>1, <1>3, <1>4, <1>6, <1>7, SteadySets
<1>10. Quiet => Kept(f, r, s)
  <2>1. Quiet => Completed(e, rec)
    BY <1>4 DEF Quiet, Steady
  <2> QED BY <1>1, <1>3, <1>4, <1>6, <1>8, <2>1, KeptSets
<1>11. Since
  BY <1>1, SpentSince
<1>12. Quiet' => Kept(f, r, s)
  BY <1>10, <1>11 DEF Since
<1>13. engine' = f /\ readings' = r /\ task'[w] = s /\ task'["poll"] = p /\ Lead(w)' = lead
  BY <1>1, <1>4 DEF f, r, p, lead
<1> HIDE DEF f
<1> QED BY <1>9, <1>11, <1>12, <1>13, WriterHolds

LEMMA WriterIgnoredHeld ==
    ASSUME NoSource, HeldInv, NEW w \in Writers, Ignored(w)
    PROVE  SteadyFor(w)' /\ KeptFor(w)'
<1> DEFINE s == [task[w] EXCEPT !.at = "check"]
           e == engine
           r == readings
           rec == task[w]
           p == task["poll"]
           lead == Lead(w)'
<1>1. /\ Served(w) /\ rec.at = "set" /\ rec \in Formeds /\ Goes(w, s) /\ readings' = r /\ engine' = e
      /\ Spend("ignored") /\ Types /\ w \in Tasks
  BY HandApart, TaskFormed DEF HeldInv, LedInv, HandInv, Sound, Types, Ignored, At
<1>2. Steps(w, s)
  BY <1>1, SetSteps DEF At
<1>3. s.at = "check" /\ s.for = rec.for /\ s.edits = rec.edits
  BY <1>1 DEF Formeds, Records
<1> HIDE DEF s
<1>4. /\ Led(e.mode, r, rec, p, 0)
      /\ Unmoved => ~e.playing /\ Steady(e, r, rec, p, 0)
      /\ task'[w] = s /\ task'["poll"] = p /\ s \in Formeds /\ p \in Formeds /\ r \in Views
      /\ e \in States /\ lead \in {0, 1} /\ (p.at # "idle" => lead = 1) /\ Types
  BY <1>1, <1>2, <1>3, WriterFacts
<1>5. (Unmoved' => Unmoved) /\ ~Quiet'
  BY <1>1, <1>4 DEF Spend, Types, Unmoved, Quiet, Bounded
<1> HIDE DEF e, r, rec, p, lead
<1>6. Unmoved => ~e.playing /\ Steady(e, r, s, p, lead)
  BY <1>1, <1>3, <1>4, SteadySets
<1> QED BY <1>1, <1>4, <1>5, <1>6 DEF SteadyFor, KeptFor, e, r, p, lead

LEMMA WriterCheckHeld ==
    ASSUME NoSource, HeldInv, NEW w \in Writers, Check(w)
    PROVE  SteadyFor(w)' /\ KeptFor(w)'
<1> DEFINE e == engine
           r == readings
           rec == task[w]
           p == task["poll"]
           lead == Lead(w)'
           op == Head(rec.edits)
<1>1. /\ Types /\ w \in Tasks /\ Since /\ readings' = r /\ engine' = e
  BY HandApart, SpentSince DEF HeldInv, LedInv, HandInv, Sound, Check
<1>2. PICK s : /\ Steps(w, s) /\ rec.at = "check" /\ Served(w)
               /\ s.at = (IF Tail(rec.edits) = <<>> THEN Sent(rec) ELSE "set")
               /\ s.edits = Tail(rec.edits) /\ s.tried = rec.tried \cup {op.setting}
               /\ s.done = rec.done \cup (IF e[op.setting] = op.value THEN {op.setting} ELSE {})
               /\ s.for = rec.for /\ s.named = rec.named /\ s.held = rec.held /\ s.rest = rec.rest
               /\ s.list = rec.list /\ s.seen = rec.seen /\ s.left = rec.left
  BY <1>1, CheckParts
<1>3. s.at # "idle"
  BY <1>2 DEF Sent
<1>4. /\ Led(e.mode, r, rec, p, 0)
      /\ Unmoved => ~e.playing /\ Steady(e, r, rec, p, 0)
      /\ Quiet => Kept(e, r, rec)
      /\ task'[w] = s /\ task'["poll"] = p /\ s \in Formeds /\ rec \in Formeds /\ p \in Formeds /\ r \in Views
      /\ e \in States /\ lead \in {0, 1} /\ (p.at # "idle" => lead = 1) /\ WriterShape(rec)
  BY <1>2, <1>3, WriterFacts
<1>5. Switching(rec, e.mode) => "mode" \in s.done
  BY <1>2 DEF Switching
<1>6. s.tried # {}
  BY <1>2
<1>7. readings' = r /\ engine' = e /\ Lead(w)' = lead
  BY <1>1
<1> HIDE DEF e, r, rec, p, lead, op
<1>8. Unmoved => ~e.playing /\ Steady(e, r, s, p, lead)
  <2>1. rec.at = "check" /\ s.at = (IF Tail(rec.edits) = <<>> THEN Sent(rec) ELSE "set") /\ s.for = rec.for /\ s.edits = Tail(rec.edits)
    BY <1>2
  <2>2. SUFFICES ASSUME Unmoved PROVE Steady(e, r, s, p, lead)
    BY <1>4
  <2>3. Led(e.mode, r, rec, p, 0) /\ Steady(e, r, rec, p, 0)
    BY <1>4, <2>2
  <2> QED BY <1>4, <1>5, <1>6, <2>1, <2>3, SteadyChecks
<1>9. Quiet => Completed(e, rec)
  BY <1>4 DEF Quiet, Steady
<1>10. Quiet => Kept(e, r, s)
  BY <1>2, <1>4, <1>9, KeptChecks DEF op
<1>11. Quiet' => Kept(e, r, s)
  BY <1>1, <1>10 DEF Since
<1> QED BY <1>1, <1>4, <1>7, <1>8, <1>11, WriterHolds DEF p

\* The request is over, or the rest of it follows.
LEMMA WriterEndsHeld ==
    ASSUME NoSource, HeldInv, Since, NEW w \in Writers, Served(w), Owed(task[w], engine.mode) <= 1,
           NEW r \in Views, r.lists = engine.mode, r.state # None, r.state.mode = engine.mode,
           Unmoved => ~r.state.playing /\ r.state.filter = engine.filter,
           NEW rec \in Formeds, OneEach(rec.rest), \A p \in rec.rest : p[1] # "mode",
           Quiet => Settled(engine, r) /\ OneChain(rec.rest),
           Ends(w, r, rec), readings' = r, engine' = engine
    PROVE  SteadyFor(w)' /\ KeptFor(w)'
<1> DEFINE e == engine
           m == e.mode
           p == task["poll"]
           lead == Lead(w)'
           last == [rec EXCEPT !.landed = @ \cup rec.done]
           more == Started(r, last, rec.rest, {})
<1>1. PICK s : Steps(w, s)
  BY EndsSteps DEF HeldInv, LedInv, HandInv, Sound
<1>2. /\ Led(m, readings, task[w], p, 0)
      /\ Unmoved => ~e.playing /\ Steady(e, readings, task[w], p, 0)
      /\ task'[w] = s /\ task'["poll"] = p /\ s \in Formeds /\ task[w] \in Formeds /\ p \in Formeds /\ readings \in Views
      /\ e \in States /\ m \in Chains /\ lead \in {0, 1} /\ (p.at # "idle" /\ s.at # "idle" => lead = 1)
      /\ Types /\ w \in Tasks
  BY <1>1, WriterFacts
<1>3. rec.rest \in SUBSET Fields /\ {} \in SUBSET Fields /\ OneEach({}) /\ OneChain({})
  BY RecordParts DEF OneEach, OneChain
<1> HIDE DEF last
<1>4. SetsOut(more, m) /\ more.tried = {} /\ Completed(r.state, more)
  BY <1>2, <1>3, StartedSetsOut, StartedCompleted
<1>5. Quiet => Begun(r, more, m)
  BY <1>2, <1>3, StartedBegun
<1> HIDE DEF more
<1>6. Goes(w, more) \/ Goes(w, Idle)
  BY DEF Ends, more, last
<1>7. s = more \/ s = Idle
  BY <1>2, <1>6 DEF Goes, Types
<1>8. SetsOut(s, m) /\ Completed(r.state, s) /\ (Quiet => Begun(r, s, m))
  BY <1>4, <1>5, <1>7, IdleSetsOut, IdleBegun DEF Begun
<1>9. readings' = r /\ engine' = e /\ Lead(w)' = lead /\ task["poll"] = p
  OBVIOUS
<1>0. /\ r.lists = m /\ r.state # None /\ r.state.mode = m /\ Owed(task[w], m) <= 1
      /\ Unmoved => ~r.state.playing /\ r.state.filter = e.filter
      /\ Quiet => Settled(e, r)
  OBVIOUS
<1>10. Unmoved => Completed(e, s)
  BY <1>0, <1>8 DEF Completed
<1> HIDE DEF e, p, lead
<1>11. Unmoved => ~e.playing /\ Steady(e, r, s, p, lead)
  BY <1>0, <1>2, <1>8, <1>10, SteadySetsOut
<1>12. Quiet' => Kept(e, r, s)
  BY <1>0, <1>2, <1>8, KeptBegun DEF Since
<1> QED BY <1>2, <1>9, <1>11, <1>12, WriterHolds

LEMMA WriterRereadHeld ==
    ASSUME NoSource, HeldInv, NEW w \in Writers, Reread(w)
    PROVE  SteadyFor(w)' /\ KeptFor(w)'
<1> DEFINE m == engine.mode
           rec == task[w]
           r == [readings EXCEPT !.state = engine]
<1>1. /\ HandInv /\ LedFor(w) /\ Types /\ w \in Tasks /\ rec \in Formeds /\ engine \in States /\ readings \in Views
      /\ Served(w) /\ rec.at = "reread" /\ engine' = engine /\ up /\ Since /\ SteadyFor(w) /\ KeptFor(w)
      /\ readings' = r /\ Ends(w, r, rec)
  BY HandApart, TaskFormed, SpentSince DEF HeldInv, LedInv, HandInv, Sound, Types, Reread, At, Served
<1>2. Led(m, readings, rec, task["poll"], Lead(w))
  BY <1>1 DEF LedFor
<1>3. rec.for = "chain" /\ WriterShape(rec) /\ ~Switching(rec, m) /\ Owed(rec, m) <= 1
  BY <1>1, <1>2 DEF Led, WriterShape, Switching, Owed
<1>4. r \in Views /\ r.state = engine /\ r.state # None /\ r.lists = m /\ r.memory = readings.memory
  BY <1>1, <1>2, <1>3, StateRead1 DEF Led, ListsRight
<1>5. OneEach(rec.rest) /\ \A q \in rec.rest : q[1] # "mode"
  BY <1>3 DEF WriterShape
<1> HIDE DEF r
<1>6. Unmoved => ~r.state.playing /\ r.state.filter = engine.filter
  BY <1>1, <1>4 DEF SteadyFor
<1>7. Quiet => Settled(engine, r) /\ OneChain(rec.rest)
  <2>1. Quiet => Kept(engine, readings, rec)
    BY <1>1 DEF KeptFor
  <2>2. Quiet => Settled(engine, readings)
    BY <1>1, <1>3, <2>1, KeptSettled
  <2> QED BY <1>4, <2>1, <2>2 DEF Settled, Own, Kept, Batch
<1> QED BY <1>1, <1>3, <1>4, <1>5, <1>6, <1>7, WriterEndsHeld

LEMMA WriterRefreshHeld ==
    ASSUME NoSource, HeldInv, NEW w \in Writers, Refresh(w)
    PROVE  SteadyFor(w)' /\ KeptFor(w)'
<1> DEFINE e == engine
           rec == task[w]
           p == task["poll"]
           lead == Lead(w)'
           r == [readings EXCEPT !.state = engine]
<1>1. /\ HandInv /\ LedFor(w) /\ Types /\ w \in Tasks /\ rec \in Formeds /\ e \in States /\ readings \in Views
      /\ Served(w) /\ rec.at = "refresh" /\ engine' = e /\ up /\ Since /\ SteadyFor(w) /\ KeptFor(w) /\ e.mode \in Chains
  BY HandApart, TaskFormed, SpentSince, LoadedMode DEF HeldInv, LedInv, HandInv, Sound, Types, Refresh, At, Served
<1>2. Led(e.mode, readings, rec, p, Lead(w))
  BY <1>1 DEF LedFor
<1>3. rec.for = "batch" /\ WriterShape(rec)
  BY <1>1, <1>2 DEF Led, WriterShape
<1>4. r \in Views /\ r.state = e /\ r.state # None /\ r.lists = readings.lists /\ r.memory = readings.memory
  BY <1>1, StateRead1
<1> HIDE DEF r
<1>5. CASE rec.tried \cap {"mode", "filter"} # {}
  <2> DEFINE s == Listing(rec)
  <2>1. readings' = r /\ Goes(w, s)
    BY <1>5 DEF Refresh, r
  <2>2. /\ s \in Formeds /\ s.at = "lists" /\ s.left = ListReads /\ s.list = rec.list /\ s.for = rec.for
        /\ s.edits = rec.edits /\ s.tried = rec.tried /\ s.done = rec.done /\ s.rest = rec.rest
        /\ s.named = rec.named /\ s.held = rec.held
    BY <1>1, ListingParts
  <2> HIDE DEF s
  <2>3. Steps(w, s)
    BY <2>1, <2>2 DEF Steps, Queued
  <2>4. /\ Led(e.mode, readings, rec, p, 0)
        /\ Unmoved => ~e.playing /\ Steady(e, readings, rec, p, 0)
        /\ Quiet => Kept(e, readings, rec)
        /\ task'[w] = s /\ task'["poll"] = p /\ p \in Formeds
        /\ lead \in {0, 1} /\ (p.at # "idle" => lead = 1)
    BY <1>1, <2>2, <2>3, WriterFacts
  <2>5. readings' = r /\ engine' = e /\ Lead(w)' = lead /\ task'["poll"] = p
    BY <1>1, <2>1, <2>4
  <2> HIDE DEF e, rec, p, lead
  <2>6. Unmoved => ~e.playing /\ Steady(e, r, s, p, lead)
    BY <1>1, <1>4, <2>2, <2>4, SteadyLists
  <2>7. Quiet => Kept(e, r, s)
    BY <1>1, <1>3, <1>4, <2>2, <2>4, KeptLists
  <2>8. Quiet' => Kept(e, r, s)
    BY <1>1, <2>7 DEF Since
  <2> QED BY <1>1, <2>4, <2>5, <2>6, <2>8, WriterHolds
<1>6. CASE rec.tried \cap {"mode", "filter"} = {}
  <2> DEFINE k == Recorded(r, rec)
  <2>1. Bookkeeps(w, r, rec)
    BY <1>6 DEF Refresh, r
  <2>2. "mode" \notin rec.done /\ rec.done \subseteq rec.tried
    BY <1>3, <1>6 DEF WriterShape, Orderly
  <2>3. readings' = k /\ Ends(w, k, rec)
    BY <2>1, <2>2 DEF Bookkeeps
  <2>4. k \in Views /\ k.state = e /\ k.state # None /\ k.lists = readings.lists
    BY <1>1, <1>4, RecordedKept
  <2>5. Owed(rec, e.mode) <= 1 /\ readings.lists = e.mode
    BY <1>1, <1>2, <1>3, <2>2 DEF Led, ListsRight, Owed, Switching
  <2>6. OneEach(rec.rest) /\ \A q \in rec.rest : q[1] # "mode"
    BY <1>3 DEF WriterShape
  <2>7. Quiet => Kept(e, readings, rec)
    BY <1>1 DEF KeptFor
  <2>8. Quiet => Settled(e, k)
    <3>1. ActiveChain(r) = e.mode
      BY <1>1, <1>4 DEF ActiveChain
    <3> HIDE DEF e, rec
    <3> QED BY <1>1, <1>3, <1>4, <2>2, <2>7, <3>1, KeptBooks
  <2>9. Quiet => OneChain(rec.rest)
    BY <2>7 DEF Kept, Batch
  <2>10. Unmoved => ~k.state.playing /\ k.state.filter = e.filter
    BY <1>1, <2>4 DEF SteadyFor
  <2> HIDE DEF k
  <2> QED BY <1>1, <2>3, <2>4, <2>5, <2>6, <2>8, <2>9, <2>10, WriterEndsHeld
<1> QED BY <1>5, <1>6

\* Only a resync fetches.
LEMMA WriterResyncs ==
    ASSUME HeldInv, NEW w \in Writers, up, task[w].for = "resync", UNCHANGED spent
    PROVE  SteadyFor(w)' /\ KeptFor(w)'
<1>1. ~Unmoved
  BY DEF HeldInv, SteadyFor, Steady, Stopped
<1> QED BY <1>1, SpentSince DEF Since, SteadyFor, KeptFor, Quiet

LEMMA WriterFetchHeld ==
    ASSUME NoSource, HeldInv, NEW w \in Writers, Fetch(w)
    PROVE  SteadyFor(w)' /\ KeptFor(w)'
<1>1. up /\ task[w].at = "fetch" /\ LedFor(w) /\ UNCHANGED spent
  BY DEF Fetch, Served, At, HeldInv, LedInv
<1>2. task[w].for = "resync"
  BY <1>1 DEF LedFor, Led, WriterShape
<1> QED BY <1>1, <1>2, WriterResyncs

LEMMA WriterListsReadHeld ==
    ASSUME NoSource, HeldInv, NEW w \in Writers, ListsRead(w)
    PROVE  SteadyFor(w)' /\ KeptFor(w)'
<1> DEFINE e == engine
           m == e.mode
           rec == task[w]
           p == task["poll"]
           lead == Lead(w)'
<1>1. /\ HandInv /\ LedFor(w) /\ Types /\ w \in Tasks /\ rec \in Formeds /\ e \in States /\ readings \in Views
      /\ Served(w) /\ rec.at = "lists" /\ engine' = e /\ up /\ task \in [Tasks -> Formeds] /\ UNCHANGED spent
      /\ SteadyFor(w) /\ KeptFor(w) /\ m \in Chains
  BY HandApart, TaskFormed, LoadedMode DEF HeldInv, LedInv, HandInv, Sound, Types, ListsRead, At, Served
<1>2. Led(m, readings, rec, p, Lead(w)) /\ m # None /\ Since
  BY <1>1, NotNone, SpentSince DEF LedFor
<1>3. WriterShape(rec) /\ rec.for \in {"batch", "resync"} /\ rec.left \in 1..ListReads /\ rec.done \subseteq rec.tried
  BY <1>1, <1>2 DEF Led, WriterShape, Orderly
<1>4. m = IF rec.list = None THEN Loaded(engine) ELSE rec.list
  BY <1>1, <1>2, LoadedMode DEF Led, OwnReads
<1>0. CASE rec.for = "resync"
  BY <1>0, <1>1, WriterResyncs
<1>5. CASE rec.for = "batch" /\ rec.left > 1
  <2>1. PICK s : /\ s \in Formeds /\ s.at = "lists" /\ Goes(w, s) /\ s.left = rec.left - 1 /\ s.list = m
                 /\ s.for = rec.for /\ s.edits = rec.edits /\ s.tried = rec.tried
                 /\ s.done = rec.done /\ s.rest = rec.rest /\ s.seen = rec.seen
                 /\ s.named = rec.named /\ s.held = rec.held /\ readings' = readings
    <3>1. rec.left \in Int /\ ~(rec.left <= 1)
      BY <1>3, <1>5
    <3> HIDE DEF m
    <3> QED BY <1>1, <1>4, <3>1, ListsReadParts
  <2>2. Steps(w, s)
    BY <2>1 DEF Steps, Queued
  <2>3. /\ Led(m, readings, rec, p, 0)
        /\ Unmoved => ~e.playing /\ Steady(e, readings, rec, p, 0)
        /\ Quiet => Kept(e, readings, rec)
        /\ task'[w] = s /\ task'["poll"] = p /\ p \in Formeds
        /\ lead \in {0, 1} /\ (p.at # "idle" => lead = 1)
    BY <1>1, <2>1, <2>2, WriterFacts
  <2>4. engine' = e /\ Lead(w)' = lead
    BY <1>1
  <2> HIDE DEF e, rec, p, lead
  <2>5. Unmoved => ~e.playing /\ Steady(e, readings, s, p, lead)
    <3>1. s.left = rec.left - 1 /\ s.at = "lists" /\ s.for = rec.for /\ s.edits = rec.edits /\ s.done = rec.done /\ s \in Formeds
      BY <2>1
    <3> QED BY <1>1, <1>5, <2>3, <3>1, SteadyListing
  <2>6. Quiet => Kept(e, readings, s)
    BY <1>1, <1>5, <2>1, <2>3, KeptLists
  <2>7. Quiet' => Kept(e, readings, s)
    BY <1>2, <2>6 DEF Since
  <2> QED BY <1>2, <2>1, <2>3, <2>4, <2>5, <2>7, WriterHolds
<1>6. CASE rec.for = "batch" /\ rec.left = 1
  <2>1. PICK r, s : /\ r \in Views /\ r.lists = m /\ r.state = readings.state /\ r.rate = readings.rate
                    /\ r.memory = readings.memory
                    /\ s \in Formeds /\ s.at = "lists" /\ s.list = None
                    /\ s.for = rec.for /\ s.edits = rec.edits /\ s.tried = rec.tried
                    /\ s.done = rec.done /\ s.rest = rec.rest /\ s.seen = rec.seen
                    /\ s.named = rec.named /\ s.held = rec.held
                    /\ HandsOn(w, r, s)
    <3>1. ~(rec.left > 1)
      BY <1>6
    <3> HIDE DEF m
    <3> QED BY <1>1, <1>4, <3>1, ListsReadParts
  <2>2. Quiet => Kept(e, r, s)
    <3>1. Quiet => Kept(e, readings, rec)
      BY <1>1 DEF KeptFor
    <3> HIDE DEF e, rec
    <3> QED BY <1>1, <1>6, <2>1, <3>1, KeptLists
  <2>3. \E x : Steps(w, x)
    BY <1>1, ListsReadSteps
  <2>4. /\ Led(m, readings, rec, p, 0) /\ p \in Formeds
        /\ Unmoved => ~e.playing /\ Steady(e, readings, rec, p, 0)
    BY <1>1, <2>3, WriterFacts
  <2>5. Unmoved => r.state # None /\ ~r.state.playing /\ r.state.mode = m /\ (r.state.filter = e.filter \/ Switching(rec, m))
    <3> HIDE DEF e, rec, p
    <3> QED BY <1>1, <2>1, <2>4, SteadyAtLists
  <2>6. r.state # None => (r.state.mode \in Chains => ActiveChain(r) = r.state.mode)
    BY DEF ActiveChain
  <2>7. CASE "mode" \in rec.done
    <3> DEFINE q == Recorded(r, s)
               k == Dropped(q, ActiveChain(q))
               x == Reasserting(q, s)
    <3>1. readings' = k /\ Goes(w, x)
      BY <1>6, <2>1, <2>7 DEF HandsOn, Bookkeeps
    <3>2. q \in Views /\ q.state = r.state /\ q.lists = m
      BY <2>1, RecordedKept
    <3>3. q = Recorded(r, s)
      OBVIOUS
    <3> HIDE DEF q
    <3>4. /\ x \in Formeds /\ x.at \in {"set", "reread"} /\ x.for = "chain"
      BY <2>1, <3>2, ReassertingParts
    <3>5. k \in Views /\ k.state = r.state
      BY <3>2, ActiveChainType, DroppedTyped, ReadingsKept
    <3>6. x = Reasserting(q, s) /\ k = Dropped(q, ActiveChain(q))
      OBVIOUS
    <3> HIDE DEF x, k
    <3>7. Steps(w, x)
      BY <3>1, <3>4 DEF Steps, Queued
    <3>8. /\ task'[w] = x /\ task'["poll"] = p /\ p \in Formeds
          /\ lead \in {0, 1} /\ (p.at # "idle" => lead = 1)
      BY <1>1, <3>4, <3>7, WriterFacts
    <3>9. engine' = e /\ Lead(w)' = lead
      BY <1>1
    <3>10. Unmoved => ~e.playing /\ Steady(e, k, x, p, lead)
      <4> HIDE DEF e, rec, p, lead
      <4> QED BY <1>1, <1>6, <2>1, <2>4, <2>7, <3>4, <3>5, <3>8, SteadyReasserts
    <3>11. Quiet => Kept(e, k, x)
      <4>1. SUFFICES ASSUME Quiet PROVE Kept(e, k, x)
        OBVIOUS
      <4>2. r.state # None /\ r.state.mode = m /\ ActiveChain(r) = m
        BY <1>1, <2>5, <2>6, <4>1 DEF Quiet
      <4>3. ActiveChain(q) = m
        BY <1>1, <3>2, <4>2 DEF ActiveChain
      <4>4. k = Dropped(q, e.mode)
        BY <3>6, <4>3
      <4>5. s.done \subseteq s.tried
        BY <1>3, <2>1
      <4>6. s.for = "batch" /\ s.at = "lists" /\ "mode" \in s.done
        BY <1>6, <2>1, <2>7
      <4>7. Kept(e, r, s) /\ r.memory = r.memory /\ r.lists = e.mode /\ e \in States /\ e.mode \in Chains /\ r \in Views /\ s \in Formeds
        BY <1>1, <2>1, <2>2, <4>1
      <4> HIDE DEF e, rec
      <4> QED BY <3>3, <3>6, <4>2, <4>4, <4>5, <4>6, <4>7, KeptReasserts DEF m
    <3>12. Quiet' => Kept(e, k, x)
      BY <1>2, <3>11 DEF Since
    <3> HIDE DEF e, rec, p, lead
    <3> QED BY <1>2, <3>1, <3>8, <3>9, <3>10, <3>12, WriterHolds
  <2>8. CASE "mode" \notin rec.done
    <3> DEFINE k == Recorded(r, s)
    <3>1. readings' = k /\ Ends(w, k, s)
      BY <1>6, <2>1, <2>8 DEF HandsOn, Bookkeeps
    <3>2. Owed(rec, m) <= 1 /\ Owed(rec, m) = 0 /\ ~Switching(rec, m)
      BY <1>1, <1>6, <2>8 DEF Owed, Switching
    <3>3. k \in Views /\ k.state = readings.state /\ k.lists = m
      BY <2>1, RecordedKept
    <3>4. k = Recorded(r, s)
      OBVIOUS
    <3> HIDE DEF k
    <3>5. k.state # None /\ k.state.mode = m
      BY <1>2, <1>6, <3>2, <3>3 DEF Led, StateRight
    <3>6. OneEach(s.rest) /\ \A q \in s.rest : q[1] # "mode"
      BY <1>3, <2>1 DEF WriterShape
    <3>7. Unmoved => ~k.state.playing /\ k.state.filter = e.filter
      BY <2>1, <2>5, <3>2, <3>3
    <3>8. Quiet => Settled(e, k) /\ OneChain(s.rest)
      <4>1. SUFFICES ASSUME Quiet PROVE Settled(e, k) /\ OneChain(s.rest)
        OBVIOUS
      <4>2. ActiveChain(r) = m
        BY <1>1, <2>1, <2>6, <3>3, <3>5
      <4>3. s.done \subseteq s.tried /\ s.for = "batch" /\ s.at = "lists" /\ "mode" \notin s.done
        BY <1>3, <1>6, <2>1, <2>8
      <4>4. Kept(e, r, s) /\ r.memory = r.memory /\ e \in States /\ e.mode \in Chains /\ r \in Views /\ s \in Formeds
        BY <1>1, <2>1, <2>2, <4>1
      <4>5. OneChain(s.rest)
        BY <4>4 DEF Kept, Batch
      <4> HIDE DEF e, rec
      <4> QED BY <3>4, <4>2, <4>3, <4>4, <4>5, KeptBooks DEF m
    <3>9. Served(w) /\ s \in Formeds /\ engine' = e
      BY <1>1, <2>1
    <3> QED BY <1>2, <3>1, <3>2, <3>3, <3>5, <3>6, <3>7, <3>8, <3>9, WriterEndsHeld
  <2> QED BY <2>7, <2>8
<1> QED BY <1>3, <1>0, <1>5, <1>6

-----------------------------------------------------------------------------
(* The poll's requests again.                                               *)

\* The poll is served.
LEMMA PollFacts ==
    ASSUME NoSource, HeldInv, NEW w \in Writers, Served("poll"), NEW s, Steps("poll", s)
    PROVE  /\ Led(engine.mode, readings, task[w], task["poll"], Lead(w))
           /\ Unmoved => ~engine.playing /\ Steady(engine, readings, task[w], task["poll"], Lead(w))
           /\ Quiet => Kept(engine, readings, task[w])
           /\ task'["poll"] = s /\ task'[w] = task[w] /\ s \in Formeds
           /\ task[w] \in Formeds /\ task["poll"] \in Formeds /\ readings \in Views
           /\ Lead(w) \in {0, 1} /\ (task[w].at # "idle" => Lead(w) = 1) /\ Lead(w)' = 0
           /\ engine \in States /\ engine.mode \in Chains /\ WriterShape(task[w]) /\ PollShape(task["poll"])
<1>1. HandInv /\ LedFor(w) /\ engine \in States /\ up /\ SteadyFor(w) /\ KeptFor(w)
  BY DEF HeldInv, LedInv, HandInv, Sound, Types, Served
<1>2. /\ Led(engine.mode, readings, task[w], task["poll"], Lead(w))
      /\ task'["poll"] = s /\ task'[w] = task[w] /\ s \in Formeds
      /\ task[w] \in Formeds /\ task["poll"] \in Formeds /\ readings \in Views
      /\ Lead(w) \in {0, 1} /\ (task[w].at # "idle" => Lead(w) = 1) /\ Lead(w)' = 0
  BY <1>1, PollServed
<1>3. engine.mode \in Chains
  BY <1>1, LoadedMode
<1> QED BY <1>1, <1>2, <1>3 DEF SteadyFor, KeptFor, Led

LEMMA IgnoredSince == Types /\ Spend("ignored") => Since /\ ~Quiet'
  BY DEF Types, Spend, Bounded, Since, Unmoved, Quiet

LEMMA PollSetHeld ==
    ASSUME NoSource, HeldInv, NEW w \in Writers, Set("poll") \/ Ignored("poll")
    PROVE  SteadyFor(w)' /\ KeptFor(w)'
<1> DEFINE e == engine
           f == engine'
           r == readings
           p == task["poll"]
           v == task[w]
           lead == Lead(w)
           s == [p EXCEPT !.at = "check"]
           op == Head(p.edits)
<1>1. Served("poll") /\ p.at = "set" /\ Goes("poll", s) /\ readings' = r
  BY DEF Set, Ignored, At
<1>2. /\ Types /\ "poll" \in Tasks /\ p \in Formeds /\ e \in States
  BY HandApart, TaskFormed DEF HeldInv, LedInv, HandInv, Sound, Types
<1>3. Steps("poll", s)
  BY <1>1, <1>2, SetSteps DEF At
<1>4. s.at = "check" /\ s.for = p.for /\ s.edits = p.edits
  BY <1>2 DEF Formeds, Records
<1> HIDE DEF s
<1>5. /\ Led(e.mode, r, v, p, lead)
      /\ Unmoved => ~e.playing /\ Steady(e, r, v, p, lead)
      /\ Quiet => Kept(e, r, v)
      /\ task'["poll"] = s /\ task'[w] = v /\ s \in Formeds /\ v \in Formeds /\ r \in Views
      /\ lead \in {0, 1} /\ Lead(w)' = 0 /\ WriterShape(v) /\ PollShape(p)
  BY <1>1, <1>3, PollFacts
<1>6. p.for = "chain" /\ Only(p, "filter")
  BY <1>1, <1>5 DEF PollShape
<1>7. op \in Ops /\ op.setting = "filter"
  <2>1. op = p.edits[1] /\ 1 \in 1..Len(p.edits)
    BY <1>1, <1>2, RecordParts DEF Formed
  <2> QED BY <1>1, <1>2, <1>6, <2>1, FirstOp DEF Only
<1>8. f \in States /\ f.mode = e.mode /\ f.playing = e.playing
  <2>1. CASE Set("poll")
    <3>1. f = Took(e, op)
      BY <2>1 DEF Set
    <3> HIDE DEF f, e, op
    <3> QED BY <1>2, <1>7, <3>1, TookFilter
  <2>2. CASE Ignored("poll")
    BY <1>2, <2>2 DEF Ignored
  <2> QED BY <2>1, <2>2
<1>9. Since /\ (Quiet' => Set("poll"))
  BY <1>2, SpentSince, IgnoredSince DEF Set, Ignored
<1>10. engine' = f
  OBVIOUS
<1> HIDE DEF e, f, r, p, v, lead, op
<1>11. Unmoved => Switching(v, e.mode) /\ ~f.playing /\ Steady(f, r, v, s, 0)
  <2>1. SUFFICES ASSUME Unmoved PROVE Switching(v, e.mode) /\ ~f.playing /\ Steady(f, r, v, s, 0)
    OBVIOUS
  <2>2. Steady(e, r, v, p, lead) /\ ~f.playing
    BY <1>5, <1>8, <2>1
  <2>3. Len(s.edits) <= 1
    BY <1>1, <1>4, <2>2 DEF Steady, Within
  <2> QED BY <1>1, <1>2, <1>4, <1>5, <1>6, <1>8, <2>2, <2>3, SteadyPollSets
<1>12. Quiet => Kept(f, r, v)
  <2>1. Quiet => Unmoved
    BY DEF Quiet
  <2> QED BY <1>2, <1>5, <1>8, <1>11, <2>1, KeptPollSets
<1>13. Quiet' => Kept(f, r, v)
  BY <1>9, <1>12 DEF Since
<1> QED BY <1>1, <1>5, <1>9, <1>10, <1>11, <1>13, WriterHolds DEF r

\* With what the poll sends next, and the readings it leaves.
LEMMA PollHolds ==
    ASSUME NoSource, HeldInv, NEW w \in Writers, Served("poll"), UNCHANGED <<engine, spent>>,
           NEW k \in Views, readings' = k, NEW s \in Formeds, Steps("poll", s),
           \A c \in Chains, x \in Routable : k.memory[c][x] \in {readings.memory[c][x], None},
           Unmoved => Steady(engine, k, task[w], s, 0)
    PROVE  SteadyFor(w)' /\ KeptFor(w)'
<1>1. /\ Unmoved => ~engine.playing
      /\ Quiet => Kept(engine, readings, task[w])
      /\ task'["poll"] = s /\ task'[w] = task[w] /\ task[w] \in Formeds /\ readings \in Views
      /\ Lead(w)' = 0 /\ engine \in States /\ engine.mode \in Chains /\ Since
  BY PollFacts, SpentSince
<1>2. Quiet => Kept(engine, k, task[w])
  BY <1>1, KeptPoll
<1>3. Quiet' => Kept(engine, k, task[w])
  BY <1>1, <1>2 DEF Since
<1> QED BY <1>1, <1>3, WriterHolds

LEMMA PollCheckHeld ==
    ASSUME NoSource, HeldInv, NEW w \in Writers, Check("poll")
    PROVE  SteadyFor(w)' /\ KeptFor(w)'
<1> DEFINE e == engine
           r == readings
           p == task["poll"]
           v == task[w]
           lead == Lead(w)
<1>1. Served("poll") /\ p.at = "check" /\ readings' = r /\ UNCHANGED <<engine, spent>>
  BY DEF Check, At
<1>2. Types /\ "poll" \in Tasks
  BY HandApart DEF HeldInv, LedInv, HandInv, Sound
<1>3. PICK s : /\ Steps("poll", s)
               /\ s.at = (IF Tail(p.edits) = <<>> THEN Sent(p) ELSE "set")
               /\ s.edits = Tail(p.edits) /\ s.for = p.for
  BY <1>2, CheckParts
<1>4. /\ Led(e.mode, r, v, p, lead)
      /\ Unmoved => ~e.playing /\ Steady(e, r, v, p, lead)
      /\ s \in Formeds /\ p \in Formeds /\ v \in Formeds /\ r \in Views
      /\ lead \in {0, 1} /\ e \in States /\ PollShape(p)
  BY <1>1, <1>3, PollFacts
<1>5. p.for = "chain"
  BY <1>1, <1>4 DEF PollShape
<1>6. p.edits \in Seq(Ops) /\ p.edits # <<>>
  BY <1>1, <1>4, RecordParts DEF Formed
<1>7. ASSUME Unmoved PROVE Steady(e, r, v, s, 0)
  <2>1. Len(p.edits) <= 1
    BY <1>1, <1>4, <1>7 DEF Steady, Within
  <2>2. s.at = "reread"
    BY <1>3, <1>5, <1>6, <2>1, LastOne DEF Sent
  <2>3. r.state # None /\ ~r.state.playing /\ StateKept(e.mode, r, v) /\ PairKnown(e, r, v) /\ Steady(e, r, v, p, lead)
    BY <1>4, <1>7 DEF Steady, Stopped
  <2> HIDE DEF e, r, p, v, lead
  <2> QED BY <1>3, <1>4, <1>5, <2>2, <2>3, SteadyChain
<1>8. \A c \in Chains, x \in Routable : r.memory[c][x] \in {r.memory[c][x], None}
  OBVIOUS
<1> QED BY <1>1, <1>3, <1>4, <1>7, <1>8, PollHolds

LEMMA PollRereadHeld ==
    ASSUME NoSource, HeldInv, NEW w \in Writers, Reread("poll")
    PROVE  SteadyFor(w)' /\ KeptFor(w)'
<1> DEFINE e == engine
           p == task["poll"]
           v == task[w]
           lead == Lead(w)
           r == [readings EXCEPT !.state = engine]
<1>1. Served("poll") /\ readings' = r /\ Ends("poll", r, p) /\ UNCHANGED <<engine, spent>>
  BY DEF Reread
<1>2. PollShape(p)
  BY <1>1, PollPlaces DEF HeldInv
<1>3. Goes("poll", Idle)
  BY <1>1, <1>2 DEF PollShape, Ends
<1>4. Steps("poll", Idle)
  BY <1>3, IdleFormed, IdlePolls DEF Steps
<1>5. /\ Unmoved => ~e.playing /\ Steady(e, readings, v, p, lead)
      /\ p \in Formeds /\ v \in Formeds /\ readings \in Views /\ Idle \in Formeds
      /\ lead \in {0, 1} /\ e \in States
  BY <1>1, <1>4, PollFacts
<1>6. r \in Views /\ r.state = e /\ r.state # None /\ r.memory = readings.memory
  BY <1>5, StateRead1
<1> HIDE DEF r
<1>7. Unmoved => Steady(e, r, v, Idle, 0)
  <2>1. StateKept(e.mode, r, v) /\ PairKnown(e, r, v)
    BY <1>6 DEF StateKept, PairKnown
  <2>2. Idle.at = "idle" /\ Idle.for = "batch"
    BY DEF Idle
  <2> HIDE DEF e, p, v, lead
  <2> QED BY <1>5, <1>6, <2>1, <2>2, SteadyChain
<1>8. \A c \in Chains, x \in Routable : r.memory[c][x] \in {readings.memory[c][x], None}
  BY <1>6
<1> QED BY <1>1, <1>4, <1>5, <1>6, <1>7, <1>8, PollHolds

LEMMA BeatHeld ==
    ASSUME NoSource, HeldInv, NEW w \in Writers, Beat
    PROVE  SteadyFor(w)' /\ KeptFor(w)'
<1> DEFINE e == engine
           r == readings
           v == task[w]
           p == task["poll"]
           lead == Lead(w)
           more == Lead(w)'
           s == [Idle EXCEPT !.at = "state", !.for = "heartbeat", !.seen = readings.state]
<1>1. /\ HandInv /\ "poll" \in Tasks /\ w \in Tasks \ {"poll"} /\ r.state \in States \cup {None} /\ SteadyFor(w) /\ KeptFor(w)
      /\ v \in Formeds /\ p \in Formeds /\ r \in Views /\ e \in States
  BY HandApart, ViewParts, TaskFormed DEF HeldInv, LedInv, HandInv, Sound, Types
<1>2. up /\ engine' = e /\ readings' = r /\ Joins("poll", s) /\ Since
  BY SpentSince DEF Beat
<1>3. s \in Formeds
  BY <1>1, AskingFormed DEF Purposes
<1>4. s.at = "state" /\ s.for = "heartbeat" /\ s.seen = r.state
  BY DEF Idle
<1> HIDE DEF s
<1>5. Starts("poll", s)
  BY <1>2, <1>3, <1>4 DEF Starts, Queued
<1>6. task'["poll"] = s /\ task'[w] = v
  BY <1>1, <1>5, StartsPlaces
<1>7. lead \in {0, 1} /\ more \in {0, 1} /\ 0 \in {0, 1} /\ 0 <= more
  BY DEF Lead
<1>8. (Unmoved => ~e.playing /\ Steady(e, r, v, p, lead)) /\ (Quiet' => Kept(e, r, v))
  BY <1>1, <1>2 DEF SteadyFor, KeptFor, Since
<1>9. Lead(w)' = more
  OBVIOUS
<1> HIDE DEF e, r, v, p, lead, more
<1>10. Unmoved => Steady(e, r, v, s, 0)
  BY <1>1, <1>3, <1>4, <1>7, <1>8, SteadyBeats
<1>11. Unmoved => Steady(e, r, v, s, more)
  BY <1>1, <1>3, <1>7, <1>10, SteadyAside
<1> QED BY <1>2, <1>6, <1>8, <1>9, <1>11, WriterHolds

\* The poll found another chain loaded, within a switch of the writer.
LEMMA PollEntersHeld ==
    ASSUME NoSource, HeldInv, NEW w \in Writers, Served("poll"), UNCHANGED <<engine, spent>>,
           NEW r \in Views, r.memory = readings.memory, NEW rec \in Formeds, Enters("poll", r, rec),
           Unmoved => /\ r.state # None /\ ~r.state.playing
                      /\ StateKept(engine.mode, r, task[w]) /\ PairKnown(engine, r, task[w])
                      /\ 1 < Slack(task[w], engine.mode, 0)
    PROVE  SteadyFor(w)' /\ KeptFor(w)'
<1> DEFINE e == engine
           v == task[w]
           p == task["poll"]
           lead == Lead(w)
           q == Reasserting(r, rec)
           s == IF q.at = "set" THEN q ELSE Idle
           k == Dropped(r, ActiveChain(r))
<1>1. readings' = k /\ Goes("poll", s)
  BY DEF Enters
<1>2. k \in Views /\ k.state = r.state
  BY ActiveChainType, DroppedTyped, ReadingsKept
<1>3. \A c \in Chains, x \in Routable : k.memory[c][x] \in {readings.memory[c][x], None}
  <2>1. CASE ActiveChain(r) = None
    BY <2>1 DEF Dropped
  <2>2. CASE ActiveChain(r) \in Chains
    BY <2>2, DroppedMemory
  <2> QED BY <2>1, <2>2, ActiveChainType
<1>4. q \in Formeds /\ q.for = "chain" /\ Len(q.edits) <= 1
  BY ReassertingParts, ReassertingOne
<1> HIDE DEF q, k
<1>5. Idle.at = "idle" /\ Idle.for = "batch"
  BY DEF Idle
<1>6. /\ s \in Formeds /\ s.at \in {"set", "idle"} /\ s.for = (IF s.at = "idle" THEN "batch" ELSE "chain")
      /\ s.at \in {"set", "check"} => Len(s.edits) <= 1
  BY <1>4, <1>5, IdleFormed
<1> HIDE DEF s
<1>7. Steps("poll", s)
  BY <1>1, <1>6 DEF Steps, Queued
<1>8. /\ Unmoved => Steady(e, readings, v, p, lead)
      /\ p \in Formeds /\ v \in Formeds /\ readings \in Views /\ lead \in {0, 1} /\ e \in States
  BY <1>7, PollFacts
<1>9. ASSUME Unmoved PROVE Steady(e, k, v, s, 0)
  <2>1. StateKept(e.mode, k, v) /\ PairKnown(e, k, v) /\ k.state # None /\ ~k.state.playing /\ 1 < Slack(v, e.mode, 0)
    BY <1>2, <1>9 DEF StateKept, PairKnown
  <2>2. Steady(e, readings, v, p, lead)
    BY <1>8, <1>9
  <2> HIDE DEF e, v, p, lead
  <2> QED BY <1>2, <1>6, <1>8, <2>1, <2>2, SteadyChain
<1> QED BY <1>1, <1>2, <1>3, <1>6, <1>7, <1>9, PollHolds

LEMMA PollListsReadHeld ==
    ASSUME NoSource, HeldInv, NEW w \in Writers, ListsRead("poll")
    PROVE  SteadyFor(w)' /\ KeptFor(w)'
<1> DEFINE e == engine
           m == e.mode
           v == task[w]
           p == task["poll"]
           lead == Lead(w)
           list == IF p.list = None THEN Loaded(engine) ELSE p.list
<1>1. /\ Served("poll") /\ p.at = "lists" /\ UNCHANGED <<engine, spent>> /\ Types /\ "poll" \in Tasks
      /\ engine \in States /\ readings \in Views
  BY HandApart DEF ListsRead, At, HeldInv, LedInv, HandInv, Sound, Types
<1>2. \E x : Steps("poll", x)
  BY <1>1, ListsReadSteps
<1>3. /\ Led(m, readings, v, p, lead)
      /\ Unmoved => Steady(e, readings, v, p, lead)
      /\ p \in Formeds /\ v \in Formeds
      /\ lead \in {0, 1} /\ (v.at # "idle" => lead = 1) /\ PollShape(p)
  BY <1>1, <1>2, PollFacts
<1>4. p.for \in {"heartbeat", "chain"} /\ p.left \in 1..ListReads
  BY <1>1, <1>3 DEF PollShape, Orderly
<1>5. CASE p.left > 1
  <2>1. p.left \in Int /\ ~(p.left <= 1)
    BY <1>4, <1>5
  <2>2. PICK s : /\ s \in Formeds /\ s.at = "lists" /\ Goes("poll", s) /\ s.left = p.left - 1
                 /\ s.for = p.for /\ s.seen = p.seen /\ s.moved = p.moved /\ readings' = readings
    BY <1>1, <2>1, ListsReadParts
  <2>3. Steps("poll", s)
    BY <2>2 DEF Steps, Queued
  <2>4. ASSUME Unmoved PROVE Steady(e, readings, v, s, 0)
    <3>1. Steady(e, readings, v, p, lead)
      BY <1>3, <2>4
    <3> HIDE DEF e, v, p, lead
    <3> QED BY <1>1, <1>3, <1>5, <2>2, <3>1, SteadyPollLists DEF e
  <2>5. \A c \in Chains, x \in Routable : readings.memory[c][x] \in {readings.memory[c][x], None}
    OBVIOUS
  <2> QED BY <1>1, <2>2, <2>3, <2>4, <2>5, PollHolds
<1>6. CASE p.left = 1
  <2>1. ~(p.left > 1)
    BY <1>6
  <2>2. PICK r, s : /\ r \in Views /\ r.lists = list /\ r.state = readings.state /\ r.rate = readings.rate
                    /\ r.memory = readings.memory
                    /\ s \in Formeds /\ s.at = "lists" /\ s.list = None
                    /\ s.for = p.for /\ s.seen = p.seen /\ s.moved = p.moved
                    /\ HandsOn("poll", r, s)
    BY <1>1, <2>1, ListsReadParts
  <2> HIDE DEF list
  <2>3. CASE p.for = "chain"
    <3>1. Enters("poll", r, s)
      BY <2>2, <2>3 DEF HandsOn
    <3>2. ASSUME Unmoved
          PROVE  /\ r.state # None /\ ~r.state.playing /\ StateKept(m, r, v) /\ PairKnown(e, r, v)
                 /\ 1 < Slack(v, m, 0)
      <4>1. r.state # None /\ ~r.state.playing /\ StateKept(m, r, v) /\ PairKnown(e, r, v)
        BY <1>3, <2>2, <3>2 DEF Steady, Stopped, StateKept, PairKnown
      <4>2. p.left + 1 < Slack(v, m, lead)
        BY <1>1, <1>3, <2>3, <3>2 DEF Steady, Within
      <4>3. /\ Slack(v, m, 0) \in Int /\ Slack(v, m, lead) \in Int
            /\ Slack(v, m, lead) >= 1 => Slack(v, m, 0) = Slack(v, m, lead) - 1
        <5>1. WriterShape(v)
          BY <1>3 DEF Led
        <5> HIDE DEF e, v, lead
        <5> QED BY <1>3, <5>1, SlackLess
      <4>4. 1 < Slack(v, m, 0)
        <5> DEFINE more == Slack(v, m, lead)
                   less == Slack(v, m, 0)
        <5>1. 1 + 1 < more /\ more \in Int /\ less \in Int /\ (more >= 1 => less = more - 1)
          BY <1>6, <4>2, <4>3
        <5> HIDE DEF more, less
        <5>2. 1 < less
          BY <5>1
        <5> QED BY <5>2 DEF less
      <4> QED BY <4>1, <4>4
    <3> QED BY <1>1, <2>2, <3>1, <3>2, PollEntersHeld
  <2>4. CASE p.for = "heartbeat"
    <3> DEFINE n == [s EXCEPT !.at = "status"]
    <3>1. readings' = r /\ Goes("poll", n)
      BY <2>2, <2>4 DEF HandsOn
    <3>2. n \in Formeds
      BY <2>2, PlacedFormed
    <3>3. n.at = "status" /\ n.for = p.for /\ n.seen = p.seen /\ n.moved = p.moved
      BY <2>2 DEF Formeds, Records
    <3> HIDE DEF n
    <3>4. Steps("poll", n)
      BY <3>1, <3>2, <3>3 DEF Steps, Queued
    <3>5. ASSUME Unmoved PROVE Steady(e, r, v, n, 0)
      <4>1. Steady(e, readings, v, p, lead)
        BY <1>3, <3>5
      <4> HIDE DEF e, v, p, lead
      <4> QED BY <1>1, <1>3, <2>2, <2>4, <3>2, <3>3, <4>1, SteadyListed DEF e
    <3>6. \A c \in Chains, x \in Routable : r.memory[c][x] \in {readings.memory[c][x], None}
      BY <2>2
    <3> QED BY <1>1, <2>2, <3>1, <3>2, <3>4, <3>5, <3>6, PollHolds
  <2> QED BY <1>4, <2>3, <2>4
<1> QED BY <1>4, <1>5, <1>6

LEMMA PollStateReadHeld ==
    ASSUME NoSource, HeldInv, NEW w \in Writers, StateRead
    PROVE  SteadyFor(w)' /\ KeptFor(w)'
<1> DEFINE p == task["poll"]
           e == engine
           v == task[w]
           lead == Lead(w)
           moved == readings.state # None /\ Differs(p.seen, engine)
           rec == [p EXCEPT !.seen = engine, !.moved = moved]
           n == IF moved THEN Listing(rec) ELSE [rec EXCEPT !.at = "status"]
<1>1. /\ Served("poll") /\ p.at = "state" /\ UNCHANGED <<engine, spent>> /\ readings' = readings /\ Goes("poll", n)
      /\ Types /\ "poll" \in Tasks /\ p \in Formeds /\ engine \in States /\ readings \in Views
  BY HandApart, TaskFormed DEF StateRead, At, HeldInv, LedInv, HandInv, Sound, Types
<1>2. moved \in BOOLEAN
  BY DEF Differs
<1>3. readings.state # None /\ p.seen # None /\ ~p.seen.playing /\ ~e.playing => moved = (p.seen.mode # e.mode)
  BY <1>1, RecordParts DEF Differs, States
<1> HIDE DEF moved
<1>4. /\ rec \in Formeds /\ rec.for = p.for /\ rec.seen = engine /\ rec.moved = moved
  <2>1. p \in Records /\ Formed(p)
    BY <1>1 DEF Formeds
  <2>2. /\ rec \in Records /\ rec.at = p.at /\ rec.for = p.for /\ rec.edits = p.edits
        /\ rec.seen = engine /\ rec.held = p.held /\ rec.moved = moved
    <3> HIDE DEF p
    <3> QED BY <1>1, <1>2, <2>1 DEF Records
  <2> HIDE DEF rec, p
  <2> QED BY <2>1, <2>2 DEF Formeds, Formed
<1> HIDE DEF rec
<1>5. /\ n \in Formeds /\ n.at = (IF n.moved THEN "lists" ELSE "status") /\ (n.at = "lists" => n.left = ListReads)
      /\ n.for = p.for /\ n.seen = e /\ n.moved = moved
  <2>1. CASE moved
    BY <1>4, <2>1, ListingParts
  <2>2. CASE ~moved
    <3>1. [rec EXCEPT !.at = "status"] \in Formeds
      BY <1>4, PlacedFormed
    <3> QED BY <1>4, <2>2, <3>1 DEF Formeds, Records
  <2> QED BY <2>1, <2>2
<1> HIDE DEF n
<1>6. Steps("poll", n)
  BY <1>1, <1>2, <1>5 DEF Steps, Queued
<1>7. /\ Led(e.mode, readings, v, p, lead)
      /\ Unmoved => ~e.playing /\ Steady(e, readings, v, p, lead)
      /\ v \in Formeds /\ lead \in {0, 1} /\ (v.at # "idle" => lead = 1) /\ PollShape(p)
  BY <1>1, <1>6, PollFacts
<1>8. ASSUME Unmoved PROVE Steady(e, readings, v, n, 0)
  <2>1. Steady(e, readings, v, p, lead) /\ p.for = "heartbeat"
    BY <1>1, <1>7, <1>8 DEF PollShape
  <2>2. moved = (p.seen.mode # e.mode)
    BY <1>3, <1>7, <1>8, <2>1 DEF Steady, Stopped
  <2>3. n.moved = (p.seen.mode # e.mode)
    BY <1>5, <2>2
  <2>4. e \in States /\ n.for = p.for /\ n.seen = e /\ n.at = (IF n.moved THEN "lists" ELSE "status")
    BY <1>1, <1>5
  <2> HIDE DEF e, v, p, lead
  <2> QED BY <1>1, <1>5, <1>7, <2>1, <2>3, <2>4, SteadyStateRead
<1>9. \A c \in Chains, x \in Routable : readings.memory[c][x] \in {readings.memory[c][x], None}
  OBVIOUS
<1> QED BY <1>1, <1>5, <1>6, <1>8, <1>9, PollHolds

LEMMA PollStatusReadHeld ==
    ASSUME NoSource, HeldInv, NEW w \in Writers, StatusRead
    PROVE  SteadyFor(w)' /\ KeptFor(w)'
<1> DEFINE p == task["poll"]
           e == engine
           m == e.mode
           v == task[w]
           lead == Lead(w)
           rec == [p EXCEPT !.for = "chain"]
           r == [readings EXCEPT !.state = rec.seen, !.rate = RateFamily(engine)]
           l == Listing(rec)
<1>1. /\ Served("poll") /\ p.at = "status" /\ UNCHANGED <<engine, spent>>
      /\ \/ readings' = r /\ Goes("poll", Idle)
         \/ Enters("poll", r, rec) /\ ActiveChain(r) \notin {None, ActiveChain(readings)}
         \/ readings' = r /\ Goes("poll", l) /\ ActiveChain(r) \notin {None, ActiveChain(readings)} /\ ~rec.moved
      /\ Types /\ "poll" \in Tasks
  BY HandApart DEF StatusRead, At, HeldInv, LedInv, HandInv, Sound
<1>2. \E x : Steps("poll", x)
  BY <1>1, StatusReadSteps
<1>3. /\ Led(m, readings, v, p, lead)
      /\ Unmoved => ~e.playing /\ Steady(e, readings, v, p, lead)
      /\ p \in Formeds /\ v \in Formeds /\ readings \in Views /\ e \in States /\ m \in Chains
      /\ lead \in {0, 1} /\ (v.at # "idle" => lead = 1) /\ PollShape(p)
  BY <1>1, <1>2, PollFacts
<1>4. /\ rec \in Formeds /\ rec.at = p.at /\ rec.for = "chain" /\ rec.edits = p.edits
      /\ rec.seen = p.seen /\ rec.moved = p.moved
  BY <1>3, RecordParts DEF Formeds, Records, Formed, Purposes
<1>5. r.lists = readings.lists /\ r.state = p.seen /\ r.memory = readings.memory
  <2> HIDE DEF rec
  <2> QED BY <1>3, <1>4 DEF Views
<1>6. r \in Views
  <2>1. RateFamily(engine) \in Chains \cup {None}
    BY <1>3, RateFamilyChain
  <2>2. rec.seen \in States \cup {None}
    BY <1>3, <1>4, RecordParts
  <2> HIDE DEF rec
  <2> QED BY <1>3, <2>1, <2>2 DEF Views
<1> HIDE DEF rec, r
<1>7. ASSUME Unmoved
      PROVE  /\ r.state # None /\ ~r.state.playing /\ StateKept(m, r, v) /\ PairKnown(e, r, v)
             /\ r.state.mode # readings.state.mode => 1 < Slack(v, m, 0)
             /\ r.state.mode # readings.state.mode /\ ~p.moved => ListReads + 1 < Slack(v, m, 0)
  <2>1. Steady(e, readings, v, p, lead)
    BY <1>3, <1>7
  <2> HIDE DEF e, v, p, lead
  <2> QED BY <1>1, <1>3, <1>5, <1>6, <2>1, SteadyStatus DEF p
<1>8. ASSUME Unmoved, ActiveChain(r) # ActiveChain(readings) PROVE r.state.mode # readings.state.mode
  <2>1. readings.state # None
    BY <1>3, <1>8 DEF Steady, Stopped
  <2>2. readings.state \in States /\ readings.state.mode \in Chains
    BY <1>3, <2>1, ViewParts, LoadedMode
  <2> QED BY <1>7, <1>8, <2>1, <2>2 DEF ActiveChain
<1>9. \A c \in Chains, x \in Routable : r.memory[c][x] \in {readings.memory[c][x], None}
  BY <1>5
<1>10. CASE Enters("poll", r, rec) /\ ActiveChain(r) \notin {None, ActiveChain(readings)}
  <2>1. Unmoved => /\ r.state # None /\ ~r.state.playing /\ StateKept(m, r, v) /\ PairKnown(e, r, v)
                   /\ 1 < Slack(v, m, 0)
    BY <1>7, <1>8, <1>10
  <2> QED BY <1>1, <1>4, <1>5, <1>6, <1>10, <2>1, PollEntersHeld
<1>11. CASE readings' = r /\ Goes("poll", Idle)
  <2>1. Steps("poll", Idle)
    BY <1>11, IdleFormed, IdlePolls DEF Steps
  <2>2. Idle.at = "idle" /\ Idle.for = "batch" /\ Idle \in Formeds
    BY IdleFormed DEF Idle
  <2>3. ASSUME Unmoved PROVE Steady(e, r, v, Idle, 0)
    <3>1. Steady(e, readings, v, p, lead) /\ r.state # None /\ ~r.state.playing /\ StateKept(m, r, v) /\ PairKnown(e, r, v)
      BY <1>3, <1>7, <2>3
    <3> HIDE DEF e, v, p, lead
    <3> QED BY <1>3, <1>6, <2>2, <3>1, SteadyChain
  <2> QED BY <1>1, <1>6, <1>9, <1>11, <2>1, <2>2, <2>3, PollHolds
<1>12. CASE readings' = r /\ Goes("poll", l) /\ ActiveChain(r) \notin {None, ActiveChain(readings)} /\ ~rec.moved
  <2>1. l \in Formeds /\ l.at = "lists" /\ l.left = ListReads /\ l.for = "chain"
    BY <1>4, ListingParts
  <2> HIDE DEF l
  <2>2. Steps("poll", l)
    BY <1>12, <2>1 DEF Steps, Queued
  <2>3. ASSUME Unmoved PROVE Steady(e, r, v, l, 0)
    <3>1. Steady(e, readings, v, p, lead) /\ r.state # None /\ ~r.state.playing /\ StateKept(m, r, v) /\ PairKnown(e, r, v)
      BY <1>3, <1>7, <2>3
    <3>2. l.left + 1 < Slack(v, m, 0)
      BY <1>4, <1>7, <1>8, <1>12, <2>1, <2>3
    <3> HIDE DEF e, v, p, lead
    <3> QED BY <1>3, <1>6, <2>1, <3>1, <3>2, SteadyChain
  <2> QED BY <1>1, <1>6, <1>9, <1>12, <2>1, <2>2, <2>3, PollHolds
<1> QED BY <1>1, <1>10, <1>11, <1>12

-----------------------------------------------------------------------------
(* Auto-pilot again, and what starts.                                       *)

\* What goes by without the pair, the writer and the poll.
LEMMA AsideHolds ==
    ASSUME NoSource, HeldInv, NEW w \in Writers, up' = up, Since,
           NEW f \in States, engine' = f, f.mode = engine.mode, f.filter = engine.filter, f.playing = engine.playing,
           NEW k \in Views, readings' = k, k.state \in {readings.state, engine},
           \A c \in Chains, x \in Routable : k.memory[c][x] \in {readings.memory[c][x], None},
           task'[w] = task[w], task'["poll"] = task["poll"], Ahead("poll", w) => Ahead("poll", w)'
    PROVE  SteadyFor(w)' /\ KeptFor(w)'
<1> DEFINE e == engine
           r == readings
           v == task[w]
           p == task["poll"]
           lead == Lead(w)
           more == Lead(w)'
<1>1. /\ e \in States /\ r \in Views /\ v \in Formeds /\ p \in Formeds /\ SteadyFor(w) /\ KeptFor(w)
  BY HandApart, TaskFormed DEF HeldInv, LedInv, HandInv, Sound, Types
<1>2. lead \in {0, 1} /\ more \in {0, 1} /\ lead <= more
  BY DEF Lead
<1>3. e.mode \in Chains /\ e # None
  BY <1>1, LoadedMode, NotNone
<1>4. Unmoved => ~e.playing /\ (up => Steady(e, r, v, p, lead))
  BY <1>1 DEF SteadyFor
<1>5. Quiet /\ up => Kept(e, r, v)
  BY <1>1 DEF KeptFor
<1>6. more = Lead(w)'
  OBVIOUS
<1> HIDE DEF e, r, v, p, lead, more
<1>7. ASSUME Unmoved, up PROVE Steady(f, k, v, p, more)
  <2>1. \/ k.state = r.state
        \/ k.state # None /\ ~k.state.playing /\ k.state.mode = e.mode /\ k.state.filter = e.filter
    BY <1>3, <1>4, <1>7 DEF e, r
  <2> QED BY <1>1, <1>2, <1>4, <1>7, <2>1, SteadyAside DEF e
<1>8. ASSUME Quiet, up PROVE Kept(f, k, v)
  BY <1>1, <1>3, <1>5, <1>8, KeptPoll DEF e, r
<1>9. Unmoved => ~f.playing
  BY <1>4 DEF e
<1>10. SteadyFor(w)'
  BY <1>6, <1>7, <1>9 DEF SteadyFor, Since, v, p
<1>11. KeptFor(w)'
  BY <1>8 DEF KeptFor, Since, v
<1> QED BY <1>10, <1>11

LEMMA RememberNothing ==
    ASSUME NEW r \in Views, NEW c \in Chains, NEW none, ~\E p : p \in none, NEW k, k = Remember(r, c, none)
    PROVE  \A d \in Chains, x \in Routable : k.memory[d][x] = r.memory[d][x]
<1>1. none \in SUBSET Fields
  OBVIOUS
<1>2. /\ \A d \in Chains : d # c => k.memory[d] = r.memory[d]
      /\ \A f \in Routable : IF \E p \in none : p[1] = f THEN \E p \in none : p[1] = f /\ k.memory[c][f] = p[2]
                             ELSE k.memory[c][f] = r.memory[c][f]
  BY <1>1, RememberMemory
<1> QED BY <1>2

\* Nothing held and nothing applied: nothing new is remembered.
LEMMA RecordedNothing ==
    ASSUME NEW r \in Views, NEW rec \in Formeds, rec.held = {}, AppliedHere(rec) = {}, NEW k, k = Recorded(r, rec)
    PROVE  \A c \in Chains, x \in Routable : k.memory[c][x] = r.memory[c][x]
<1> DEFINE pcm == {p \in rec.held : ROUTABLE[p[1]].chain = "pcm"}
           sdm == {p \in rec.held : ROUTABLE[p[1]].chain = "sdm"}
           here == AppliedHere(rec)
           none == {}
           one == Remember(r, "pcm", none)
           two == Remember(one, "sdm", none)
           m == ActiveChain(r)
<1>1. pcm = none /\ sdm = none /\ here = none
  OBVIOUS
<1>2. k = IF m = None THEN two ELSE Remember(two, m, none)
  <2>1. k = IF ActiveChain(r) = None THEN Remember(Remember(r, "pcm", pcm), "sdm", sdm)
            ELSE Remember(Remember(Remember(r, "pcm", pcm), "sdm", sdm), ActiveChain(r), here)
    BY DEF Recorded, AppliedHere
  <2> HIDE DEF pcm, sdm, here, none
  <2> QED BY <1>1, <2>1
<1>3. none \in SUBSET Fields /\ (~\E p : p \in none) /\ "pcm" \in Chains /\ "sdm" \in Chains /\ m \in Chains \cup {None}
  BY ActiveChainType DEF Chains
<1>4. one \in Views /\ two \in Views
  BY <1>3, RememberTyped
<1> HIDE DEF none, m
<1>5. \A c \in Chains, x \in Routable : one.memory[c][x] = r.memory[c][x]
  BY <1>3, RememberNothing
<1> HIDE DEF one
<1>6. \A c \in Chains, x \in Routable : two.memory[c][x] = one.memory[c][x]
  BY <1>3, <1>4, RememberNothing
<1> HIDE DEF two
<1>7. CASE m = None
  BY <1>2, <1>5, <1>6, <1>7
<1>8. CASE m # None
  <2>1. \A c \in Chains, x \in Routable : k.memory[c][x] = two.memory[c][x]
    BY <1>2, <1>3, <1>4, <1>8, RememberNothing
  <2> QED BY <1>5, <1>6, <2>1
<1> QED BY <1>7, <1>8

LEMMA PilotHeld ==
    ASSUME NoSource, HeldInv, NEW w \in Writers, Serving("pilot") \/ Ignored("pilot")
    PROVE  SteadyFor(w)' /\ KeptFor(w)'
<1> DEFINE c == task["pilot"]
           e == engine
           f == engine'
<1>1. /\ Types /\ Sound /\ HandInv /\ "pilot" \in Tasks /\ c \in Formeds /\ e \in States
      /\ readings \in Views /\ OneSetter(c) /\ w \in Tasks \ {"pilot"} /\ "poll" \in Tasks \ {"pilot"} /\ c.held = {}
  BY HandApart, TaskFormed DEF HeldInv, LedInv, HandInv, Sound, Types
<1>2. ~(Reread("pilot") \/ ListsRead("pilot") \/ Fetch("pilot"))
  BY <1>1 DEF Reread, ListsRead, Fetch, At, OneSetter
<1>3. Served("pilot") /\ up' = up /\ \E s : Steps("pilot", s)
  <2>1. Served("pilot") /\ up' = up
    BY <1>2 DEF Serving, Set, Ignored, Check, Refresh
  <2>2. \E s : Steps("pilot", s)
    BY <1>1, <1>2, SetSteps, CheckSteps, RefreshSteps DEF Serving, Set, Ignored
  <2> QED BY <2>1, <2>2
<1>4. PICK s : Steps("pilot", s)
  BY <1>3
<1>5. task'[w] = task[w] /\ task'["poll"] = task["poll"] /\ (Ahead("poll", w) => Ahead("poll", w)')
  BY <1>1, <1>3, <1>4, ServedPlaces
<1>6. Since
  BY <1>1, <1>2, IgnoredSince, SpentSince DEF Serving, Set, Ignored, Check, Refresh
<1>7. f \in States /\ f.mode = e.mode /\ f.filter = e.filter /\ f.playing = e.playing
  <2>1. CASE Set("pilot")
    <3> DEFINE op == Head(c.edits)
    <3>1. op \in Ops /\ op.setting = "junk_filter"
      BY <1>1, <2>1, FirstOp DEF Set, At, OneSetter
    <3>2. f = Took(e, op)
      BY <2>1 DEF Set
    <3> HIDE DEF f, e, op
    <3> QED BY <1>1, <3>1, <3>2, TookFilter
  <2>2. CASE ~Set("pilot")
    <3>1. f = e
      BY <1>2, <2>2 DEF Serving, Ignored, Check, Refresh
    <3> QED BY <1>1, <3>1
  <2> QED BY <2>1, <2>2
<1>8. /\ readings' \in Views /\ readings'.state \in {readings.state, e}
      /\ \A d \in Chains, x \in Routable : readings'.memory[d][x] \in {readings.memory[d][x], None}
  <2>1. CASE Refresh("pilot")
    <3> DEFINE r == [readings EXCEPT !.state = engine]
               k == Recorded(r, c)
    <3>1. c.tried \cap {"mode", "filter"} = {} /\ "mode" \notin c.done /\ c.done \subseteq {"junk_filter"}
      BY <1>1, <2>1 DEF Refresh, OneSetter
    <3>2. readings' = k
      BY <2>1, <3>1 DEF Refresh, Bookkeeps
    <3>3. r \in Views /\ r.state = e /\ r.memory = readings.memory
      BY <1>1, StateRead1
    <3>4. AppliedHere(c) = {}
      BY <3>1 DEF AppliedHere, Applied, Setting
    <3> HIDE DEF r, c, e
    <3>5. k \in Views /\ k.state = r.state
      BY <1>1, <3>3, RecordedKept
    <3>6. \A d \in Chains, x \in Routable : k.memory[d][x] = r.memory[d][x]
      BY <1>1, <3>3, <3>4, RecordedNothing
    <3> HIDE DEF k
    <3> QED BY <3>2, <3>3, <3>5, <3>6
  <2>2. CASE ~Refresh("pilot")
    <3>1. readings' = readings
      BY <1>2, <2>2 DEF Serving, Set, Ignored, Check
    <3> QED BY <1>1, <3>1
  <2> QED BY <2>1, <2>2
<1> QED BY <1>3, <1>5, <1>6, <1>7, <1>8, AsideHolds

LEMMA ActHeld ==
    ASSUME NoSource, HeldInv, NEW w \in Writers, NEW want \in Junk, Act(want)
    PROVE  SteadyFor(w)' /\ KeptFor(w)'
<1> DEFINE fs == {<<"junk_filter", want>>}
           s == Started(readings, Idle, fs, {})
<1>1. HandInv /\ Types /\ "pilot" \in Tasks /\ w \in Tasks \ {"pilot"} /\ "poll" \in Tasks \ {"pilot"}
      /\ fs \in SUBSET Fields /\ engine \in States /\ readings \in Views
  BY HandApart, NamedIsField DEF HeldInv, LedInv, HandInv, Sound, Types
<1>2. up' = up /\ engine' = engine /\ readings' = readings /\ Joins("pilot", s) /\ Since
  BY SpentSince DEF Act
<1>3. Starts("pilot", s)
  BY <1>1, <1>2, WriteStarts
<1> HIDE DEF s
<1>4. task'[w] = task[w] /\ task'["poll"] = task["poll"] /\ (Ahead("poll", w) => Ahead("poll", w)')
  BY <1>1, <1>3, StartsPlaces
<1>5. \A c \in Chains, x \in Routable : readings.memory[c][x] \in {readings.memory[c][x], None}
  OBVIOUS
<1> QED BY <1>1, <1>2, <1>4, <1>5, AsideHolds

\* What is spent on anything but a resync, a move or an ignored setter.
LEMMA BatchSince ==
    ASSUME Types, NEW k \in Bounded \ {"resyncs", "moves", "ignored"}, Spend(k)
    PROVE  Since
  BY DEF Types, Spend, Bounded, Since, Unmoved, Quiet

\* A request of the writer starts.
LEMMA WriterStartsHeld ==
    ASSUME NoSource, HeldInv, NEW w \in Writers, NEW s, Starts(w, s), SetsOut(s, engine.mode), up, Since,
           engine' = engine, readings' = readings, s.tried = {}, Completed(readings.state, s),
           Quiet => Batch(engine.mode, s)
    PROVE  SteadyFor(w)' /\ KeptFor(w)'
<1> DEFINE e == engine
           r == readings
           v == task[w]
           p == task["poll"]
           lead == Lead(w)'
<1>1. /\ LedInv /\ HandInv /\ Sound /\ w \in Tasks /\ "poll" \in Tasks \ {w} /\ p \in Formeds /\ v \in Formeds
      /\ e \in States /\ r \in Views /\ SteadyFor(w) /\ KeptFor(w)
  BY HandApart, TaskFormed DEF HeldInv, LedInv, HandInv, Sound, Types
<1>2. /\ task'[w] = s /\ task'["poll"] = p /\ s \in Formeds /\ v.at = "idle"
      /\ (p.at \in Queued => Ahead("poll", w)')
  BY <1>1, StartsPlaces
<1>3. /\ Led(e.mode, r, v, p, 0) /\ Owed(v, e.mode) <= 1
      /\ r.state # None /\ r.state.mode = e.mode
  BY <1>1, <1>2, WriterIdle
<1>4. WriterShape(v) /\ v.for = "batch" /\ ~(Owed(v, e.mode) > 0)
  <2>1. WriterShape(v) /\ v.for = "batch"
    BY <1>2, <1>3 DEF Led, WriterShape
  <2>2. Owed(v, e.mode) = 0
    BY <1>2, <2>1 DEF Owed, Switching
  <2> QED BY <2>1, <2>2
<1>5. lead \in {0, 1} /\ (p.at # "idle" => lead = 1)
  <2>1. p.at = "idle" \/ p.at \in Queued
    BY <1>3 DEF Led, PollShape, Queued
  <2> QED BY <1>2, <2>1 DEF Lead
<1>6. Lead(w) = 0
  <2>1. ~Ahead("poll", w)
    BY <1>1, <1>2, AheadWaits DEF Queued
  <2> QED BY <2>1 DEF Lead
<1>7. (Unmoved => ~e.playing /\ Steady(e, r, v, p, 0)) /\ (Quiet => Kept(e, r, v))
  BY <1>1, <1>6 DEF SteadyFor, KeptFor
<1>8. engine' = e /\ readings' = r /\ Lead(w)' = lead
  OBVIOUS
<1>9. SetsOut(s, e.mode) /\ Completed(r.state, s) /\ (Quiet => Batch(e.mode, s))
  OBVIOUS
<1> HIDE DEF e, r, v, p, lead
<1>10. ASSUME Unmoved PROVE ~e.playing /\ Steady(e, r, s, p, lead)
  <2>1. ~r.state.playing /\ r.state.filter = e.filter
    BY <1>2, <1>4, <1>7, <1>10 DEF Steady, Stopped, PairKnown
  <2>2. Completed(e, s)
    BY <1>9, <2>1 DEF Completed
  <2> QED BY <1>1, <1>2, <1>3, <1>5, <1>7, <1>9, <1>10, <2>1, <2>2, SteadySetsOut
<1>11. ASSUME Quiet PROVE Kept(e, r, s)
  <2>1. Settled(e, r)
    BY <1>1, <1>2, <1>4, <1>7, <1>11, KeptSettled
  <2>2. Begun(r, s, e.mode)
    BY <1>9, <1>11 DEF Begun
  <2> QED BY <1>1, <1>2, <1>9, <2>1, <2>2, KeptBegun
<1>12. Quiet' => Kept(e, r, s)
  BY <1>11 DEF Since
<1> QED BY <1>2, <1>8, <1>10, <1>12, WriterHolds

LEMMA WriteHeld ==
    ASSUME NoSource, HeldInv, NEW w \in Writers, NEW p \in Edits, Write(w, p)
    PROVE  SteadyFor(w)' /\ KeptFor(w)'
<1> DEFINE s == Started(readings, Idle, {p}, {})
<1>1. up /\ engine' = engine /\ readings' = readings /\ Joins(w, s) /\ Spend("batches")
  BY DEF Write
<1>2. w \in Tasks /\ Types /\ {p} \in SUBSET Fields /\ {} \in SUBSET Fields /\ OneEach({p}) /\ OneEach({}) /\ readings \in Views
      /\ OneChain({p}) /\ OneChain({}) /\ LedInv
  BY HandApart, EditIsField DEF HeldInv, LedInv, HandInv, Sound, Types, OneEach, OneChain
<1>3. Starts(w, s)
  BY <1>1, <1>2, WriteStarts
<1>4. task[w].at = "idle"
  BY <1>1 DEF Joins, At
<1>5. SetsOut(s, engine.mode) /\ Begun(readings, s, engine.mode)
  BY <1>1, <1>2, <1>4, WriterIdle, StartedSetsOut, StartedBegun
<1>6. Since
  BY <1>1, <1>2, BatchSince DEF Bounded
<1> HIDE DEF s
<1>7. s.tried = {} /\ Completed(readings.state, s) /\ Batch(engine.mode, s)
  BY <1>5 DEF Begun
<1> QED BY <1>1, <1>3, <1>5, <1>6, <1>7, WriterStartsHeld

LEMMA ApplyPresetHeld ==
    ASSUME NoSource, HeldInv, NEW w \in Writers, NEW fs \in Presets, ApplyPreset(w, fs)
    PROVE  SteadyFor(w)' /\ KeptFor(w)'
<1> DEFINE s == Routed(readings, Idle, fs)
<1>1. up /\ engine' = engine /\ readings' = readings /\ Joins(w, s) /\ Spend("batches")
  BY DEF ApplyPreset
<1>2. w \in Tasks /\ Types /\ fs \in SUBSET Fields /\ OneEach(fs) /\ OneChain(fs) /\ readings \in Views /\ LedInv
  BY HandApart, EditIsField, PresetsAssumption DEF HeldInv, LedInv, HandInv, Sound, Types, OneEach, OneChain
<1>3. Starts(w, s)
  BY <1>1, <1>2, PresetStarts
<1>4. task[w].at = "idle"
  BY <1>1 DEF Joins, At
<1>5. SetsOut(s, engine.mode) /\ Begun(readings, s, engine.mode)
  BY <1>1, <1>2, <1>4, WriterIdle, RoutedSetsOut, RoutedBegun
<1>6. Since
  BY <1>1, <1>2, BatchSince DEF Bounded
<1> HIDE DEF s
<1>7. s.tried = {} /\ Completed(readings.state, s) /\ Batch(engine.mode, s)
  BY <1>5 DEF Begun
<1> QED BY <1>1, <1>3, <1>5, <1>6, <1>7, WriterStartsHeld

-----------------------------------------------------------------------------
(* The environment again, and the theorems.                                 *)

\* Nothing of the tasks, the lock or the readings moves.
LEMMA AsideHeld ==
    ASSUME NoSource, HeldInv, NEW w \in Writers, Flip \/ SwitchOn \/ UNCHANGED vars
    PROVE  SteadyFor(w)' /\ KeptFor(w)'
<1>1. /\ Types /\ engine \in States /\ readings \in Views
  BY DEF HeldInv, LedInv, HandInv, Sound, Types
<1>2. UNCHANGED <<up, readings, queue, task>>
  BY DEF Flip, SwitchOn, vars
<1>3. Since
  BY <1>1, BatchSince, SpentSince DEF Flip, SwitchOn, vars, Bounded
<1>4. engine' \in States /\ engine'.mode = engine.mode /\ engine'.filter = engine.filter /\ engine'.playing = engine.playing
  <2>1. CASE Flip
    <3> DEFINE e == [engine EXCEPT !.source = CHOOSE c \in Chains : c # @]
    <3>1. engine' = IF Loaded(e) = Loaded(engine) THEN e ELSE [e EXCEPT !.filter = Booted(e.source).filter]
      BY <2>1 DEF Flip
    <3>2. engine' \in States
      BY <1>1, <2>1, FlipState
    <3>3. e.mode = engine.mode /\ e.filter = engine.filter /\ e.playing = engine.playing
      BY <1>1 DEF States
    <3>4. engine.mode \in Chains
      BY <1>1, LoadedMode
    <3> HIDE DEF e
    <3>5. Loaded(e) = Loaded(engine)
      BY <3>3, <3>4 DEF Loaded
    <3> QED BY <3>1, <3>2, <3>3, <3>5
  <2>2. CASE SwitchOn \/ UNCHANGED vars
    BY <1>1, <2>2 DEF SwitchOn, vars
  <2> QED BY <2>1, <2>2
<1>5. task'[w] = task[w] /\ task'["poll"] = task["poll"] /\ (Ahead("poll", w) => Ahead("poll", w)')
  BY <1>2 DEF Ahead
<1>6. \A c \in Chains, x \in Routable : readings.memory[c][x] \in {readings.memory[c][x], None}
  OBVIOUS
<1> QED BY <1>1, <1>2, <1>3, <1>4, <1>5, <1>6, AsideHolds

\* A resync and a move end what holds without them.
LEMMA MovedHeld ==
    ASSUME HeldInv, NEW w \in Writers, Spend("resyncs") \/ Spend("moves")
    PROVE  SteadyFor(w)' /\ KeptFor(w)'
<1>1. Types
  BY DEF HeldInv, LedInv, HandInv, Sound
<1>2. ~Unmoved'
  BY <1>1 DEF Types, Spend, Bounded, Unmoved
<1> QED BY <1>2 DEF SteadyFor, KeptFor, Quiet

LEMMA LoseHeld ==
    ASSUME HeldInv, NEW w \in Writers, Lose
    PROVE  SteadyFor(w)' /\ KeptFor(w)'
<1>1. Types /\ SteadyFor(w) /\ up' = FALSE
  BY DEF HeldInv, LedInv, HandInv, Sound, Lose, Cut
<1>2. Since
  BY <1>1, BatchSince DEF Lose, Bounded
<1>3. engine' = engine \/ ~engine'.playing
  BY DEF Lose, Booted
<1> QED BY <1>1, <1>2, <1>3 DEF SteadyFor, KeptFor, Since

\* Everything is read and nothing remembered.
LEMMA FreshHolds ==
    ASSUME NoSource, NEW e \in States, NEW r, r.state = e, r.memory = Forgotten, NEW lead
    PROVE  /\ ~e.playing => Steady(e, r, Idle, Idle, lead)
           /\ Kept(e, r, Idle)
<1>1. Idle.at = "idle" /\ Idle.for = "batch" /\ Idle.tried = {}
  BY DEF Idle
<1>2. e # None /\ e.mode \in Chains
  BY NotNone, LoadedMode
<1>3. Batch(e.mode, Idle) /\ Completed(e, Idle)
  BY IdleBegun DEF Begun
<1>4. \A c \in Chains, f \in Routable : r.memory[c][f] = None
  BY DEF Forgotten
<1>5. ASSUME ~e.playing PROVE Steady(e, r, Idle, Idle, lead)
  BY <1>1, <1>2, <1>3, <1>5 DEF Steady, Stopped, StateKept, Compared, Within, Published, PairKnown
<1>6. ~FilterSent(Idle) /\ Landed(e, Idle)
  BY <1>1 DEF FilterSent, Landed
<1>7. \A f \in FieldsOf(e.mode) : Stands(e, r, Idle, f)
  BY <1>2, <1>4 DEF FieldsOf, Stands
<1>8. Own(r)
  BY <1>4 DEF Own
<1> QED BY <1>3, <1>5, <1>6, <1>7, <1>8 DEF Kept

LEMMA ReconnectHeld ==
    ASSUME NoSource, HeldInv, NEW w \in Writers, Reconnect
    PROVE  SteadyFor(w)' /\ KeptFor(w)'
<1> DEFINE r == [state |-> engine, rate |-> RateFamily(engine), lists |-> Loaded(engine), memory |-> Forgotten]
<1>1. /\ readings' = r /\ engine' = engine /\ task' = task /\ UNCHANGED spent /\ engine \in States
      /\ task[w] = Idle /\ task["poll"] = Idle /\ SteadyFor(w)
  BY DEF Reconnect, HeldInv, LedInv, HandInv, Sound, Types, LedFor
<1>2. r.state = engine /\ r.memory = Forgotten
  OBVIOUS
<1> HIDE DEF r
<1>3. (~engine.playing => Steady(engine, r, Idle, Idle, Lead(w)')) /\ Kept(engine, r, Idle)
  BY <1>1, <1>2, FreshHolds
<1>4. Unmoved' => Unmoved
  BY <1>1, SpentSince DEF Since
<1>5. SteadyFor(w)'
  BY <1>1, <1>3, <1>4 DEF SteadyFor
<1> QED BY <1>1, <1>3, <1>5 DEF KeptFor

LEMMA InitHeld == NoSource /\ Init => HeldInv
<1> SUFFICES ASSUME NoSource, Init PROVE HeldInv
  OBVIOUS
<1>1. LedInv
  BY InitLed
<1>2. "pilot" \in Tasks /\ "poll" \in Tasks /\ engine \in States /\ \A w \in Writers : w \in Tasks
  BY <1>1, HandApart DEF LedInv, HandInv, Sound, Types
<1>3. task["pilot"].held = {}
  BY <1>2 DEF Init, Idle
<1>4. ASSUME NEW w \in Writers PROVE SteadyFor(w) /\ KeptFor(w)
  <2>1. task[w] = Idle /\ task["poll"] = Idle /\ readings.state = engine /\ readings.memory = Forgotten /\ ~engine.playing
    BY <1>2 DEF Init, Booted
  <2>2. Steady(engine, readings, Idle, Idle, Lead(w)) /\ Kept(engine, readings, Idle)
    BY <1>2, <2>1, FreshHolds
  <2> QED BY <2>1, <2>2 DEF SteadyFor, KeptFor
<1> QED BY <1>1, <1>3, <1>4 DEF HeldInv

\* Auto-pilot sets nothing of a chain, and so holds nothing.
LEMMA PilotEmpty ==
    ASSUME HandInv, task["pilot"].held = {}, [Next]_vars
    PROVE  task'["pilot"].held = {}
<1> DEFINE c == task["pilot"]
<1>1. /\ Sound /\ Types /\ task \in [Tasks -> Formeds] /\ "pilot" \in Tasks /\ "poll" \in Tasks /\ "poll" # "pilot"
      /\ (\A t \in Writers : t \in Tasks /\ t # "pilot") /\ c \in Formeds /\ OneSetter(c)
  BY HandApart DEF HandInv, Sound, Types
<1>2. Idle.held = {}
  BY DEF Idle
<1>3. CASE UNCHANGED vars
  BY <1>3 DEF vars
<1>4. ASSUME NEW t \in Tasks, Serving(t) \/ Ignored(t) PROVE task'["pilot"].held = {}
  <2>1. Served(t) /\ \E rec : Steps(t, rec)
    BY <1>1, <1>4, SetSteps, CheckSteps, RefreshSteps, RereadSteps, ListsReadSteps, FetchSteps
       DEF Serving, Set, Ignored, Check, Refresh, Reread, ListsRead, Fetch
  <2>2. PICK s : Steps(t, s)
    BY <2>1
  <2>3. task' = [task EXCEPT ![t] = s]
    BY <1>1, <2>1, <2>2, ServedPlaces
  <2>4. CASE t # "pilot"
    BY <1>1, <2>3, <2>4
  <2>5. CASE t = "pilot" /\ (Set("pilot") \/ Ignored("pilot") \/ Check("pilot"))
    BY <1>1, <2>5 DEF Set, Ignored, Check, Goes, Formeds, Records
  <2>6. CASE t = "pilot" /\ Refresh("pilot")
    <3>1. c.tried \cap {"mode", "filter"} = {} /\ "mode" \notin c.done /\ c.rest = {}
      BY <1>1 DEF OneSetter
    <3>2. Goes("pilot", Idle)
      BY <2>6, <3>1 DEF Refresh, Bookkeeps, Ends
    <3> QED BY <1>1, <1>2, <3>2 DEF Goes
  <2>7. ~(Reread("pilot") \/ ListsRead("pilot") \/ Fetch("pilot"))
    BY <1>1 DEF Reread, ListsRead, Fetch, At, OneSetter
  <2> QED BY <1>4, <2>4, <2>5, <2>6, <2>7 DEF Serving
<1>5. ASSUME NEW t \in Writers, \/ \E p \in Edits : Write(t, p)
                                \/ \E fs \in Presets : ApplyPreset(t, fs)
                                \/ Resync(t) \/ Rescan(t) \/ Probe(t) \/ Unreachable(t)
      PROVE  task'["pilot"].held = {}
  BY <1>1, <1>5 DEF Write, ApplyPreset, Resync, Rescan, Probe, Unreachable, Joins
<1>6. ASSUME NEW tasks, tasks["pilot"] = c, Cut(tasks) PROVE task'["pilot"].held = {}
  <2>1. task'["pilot"] = GivenUp(c) /\ ~Waits(c)
    BY <1>1, <1>6 DEF Cut, OneSetter, Waits
  <2> QED BY <1>2, <2>1 DEF GivenUp
<1>7. ASSUME NEW t \in Writers, Reload(t) PROVE task'["pilot"].held = {}
  <2> DEFINE tasks == [task EXCEPT ![t].at = "away"]
  <2>1. tasks["pilot"] = c
    BY <1>1
  <2>2. task' = tasks \/ Cut(tasks)
    BY <1>7 DEF Reload
  <2> HIDE DEF tasks
  <2> QED BY <1>6, <2>1, <2>2
<1>8. CASE Beat
  BY <1>1, <1>8 DEF Beat, Joins
<1>9. CASE StateRead \/ StatusRead
  <2>1. PICK s : Served("poll") /\ Steps("poll", s)
    BY <1>1, <1>9, StateReadSteps, StatusReadSteps DEF StateRead, StatusRead
  <2>2. task'["pilot"] = c
    BY <1>1, <2>1, ServedPlaces
  <2> QED BY <2>2
<1>10. ASSUME NEW want \in Junk, Act(want) PROVE task'["pilot"].held = {}
  <2> DEFINE fs == {<<"junk_filter", want>>}
             s == Started(readings, Idle, fs, {})
  <2>1. \A p \in fs : ~OffChain(readings, p)
    BY RoutableFields DEF OffChain
  <2>2. task'["pilot"] = s
    BY <1>1, <1>10 DEF Act, Joins
  <2> HIDE DEF fs
  <2>3. s = Idle \/ s.held = {p \in fs : OffChain(readings, p)}
    BY StartedHeld
  <2> HIDE DEF s
  <2> QED BY <1>2, <2>1, <2>2, <2>3
<1>11. CASE Flip \/ Move \/ Reconnect \/ SwitchOn
  BY <1>11 DEF Flip, Move, Reconnect, SwitchOn
<1>12. CASE Lose
  BY <1>6, <1>12 DEF Lose
<1> QED BY <1>3, <1>4, <1>5, <1>7, <1>8, <1>9, <1>10, <1>11, <1>12 DEF Next, Environment

\* One step per action.
LEMMA NextHeld ==
    ASSUME Alone, NoSource, NoRescan, HeldInv, [Next]_vars, NEW w \in Writers
    PROVE  SteadyFor(w)' /\ KeptFor(w)'
<1>1. /\ LedInv /\ Types /\ LedFor(w) /\ Tasks = {w, "poll", "pilot"} /\ Writers = {w}
  BY OnlyTasks DEF HeldInv, LedInv, HandInv, Sound, Alone
<1>2. CASE Serving(w) \/ Ignored(w)
  BY <1>2, WriterSetHeld, WriterIgnoredHeld, WriterCheckHeld, WriterRefreshHeld, WriterRereadHeld, WriterListsReadHeld,
     WriterFetchHeld DEF Serving
<1>3. CASE Serving("poll") \/ Ignored("poll")
  <2>1. ~Refresh("poll") /\ ~Fetch("poll")
    <3>1. Served("poll") => PollShape(task["poll"])
      BY <1>1 DEF LedFor, Led, Served
    <3> QED BY <3>1 DEF Refresh, Fetch, At, PollShape
  <2> QED BY <1>3, <2>1, PollSetHeld, PollCheckHeld, PollRereadHeld, PollListsReadHeld DEF Serving
<1>4. CASE Serving("pilot") \/ Ignored("pilot")
  BY <1>4, PilotHeld
<1>5. CASE (\E p \in Edits : Write(w, p)) \/ (\E fs \in Presets : ApplyPreset(w, fs)) \/ Resync(w)
  BY <1>5, WriteHeld, ApplyPresetHeld, MovedHeld DEF Resync
<1>6. ~Rescan(w)
  <2>1. "rescans" \in Bounded /\ spent["rescans"] \in Nat /\ Budget["rescans"] = 0
    BY <1>1 DEF Bounded, Types, Budget, NoRescan
  <2> QED BY <2>1 DEF Rescan, Spend
<1>7. ~(Reload(w) \/ Probe(w) \/ Unreachable(w))
  <2>1. task[w].at \notin {"reload", "away"}
    <3>1. CASE up
      BY <1>1, <3>1 DEF LedFor, Led, WriterShape
    <3>2. CASE ~up
      BY <1>1, <3>2, IdlePolls DEF LedFor
    <3> QED BY <3>1, <3>2
  <2> QED BY <2>1 DEF Reload, Probe, Unreachable, At
<1>8. CASE Beat \/ StateRead \/ StatusRead \/ \E j \in Junk : Act(j)
  BY <1>8, BeatHeld, PollStateReadHeld, PollStatusReadHeld, ActHeld
<1>9. CASE Reconnect \/ Lose
  BY <1>9, ReconnectHeld, LoseHeld
<1>10. CASE Flip \/ SwitchOn \/ Move \/ UNCHANGED vars
  BY <1>10, AsideHeld, MovedHeld DEF Move
<1> QED
  <2>1. CASE \E t \in Tasks : Serving(t) \/ Ignored(t)
    BY <1>1, <1>2, <1>3, <1>4, <2>1
  <2>2. CASE \E t \in Writers : \/ \E p \in Edits : Write(t, p)
                                \/ \E fs \in Presets : ApplyPreset(t, fs)
                                \/ Resync(t) \/ Rescan(t) \/ Reload(t) \/ Probe(t) \/ Unreachable(t)
    BY <1>1, <1>5, <1>6, <1>7, <2>2
  <2> QED BY <1>8, <1>9, <1>10, <2>1, <2>2 DEF Next, Environment

\* What holds of the writer and the poll, of what is remembered and of what the engine plays.
LEMMA HeldAlways ==
    ASSUME Alone, NoSource, NoRescan
    PROVE  HeldInv /\ [Next]_vars => HeldInv'
<1> SUFFICES ASSUME HeldInv, [Next]_vars PROVE HeldInv'
  OBVIOUS
<1>1. HandInv'
  BY NextSound, NextHand DEF HeldInv, LedInv, HandInv
<1>2. LedInv'
  BY <1>1, NextLed DEF HeldInv, LedInv
<1>3. task'["pilot"].held = {}
  BY PilotEmpty DEF HeldInv, LedInv
<1>4. \A w \in Writers : SteadyFor(w)' /\ KeptFor(w)'
  BY NextHeld
<1> QED BY <1>2, <1>3, <1>4 DEF HeldInv

\* A filter is sent with the halves the batch does not name as the engine has them.
LEMMA SetsSibling ==
    ASSUME NoSource, HeldInv, Unmoved, NEW t \in Writers
    PROVE  LeavesSibling(t)
<1> DEFINE rec == task[t]
           op == Head(rec.edits)
<1>1. SUFFICES ASSUME Set(t), op.setting = "filter", rec.for = "batch",
                      NEW a \in Arguments, engine'.filter[a] # engine.filter[a]
               PROVE  HalfNamed(a, rec.named)
  BY DEF LeavesSibling
<1>2. /\ Types /\ rec \in Formeds /\ engine \in States /\ SteadyFor(t) /\ up /\ rec.at = "set"
  BY <1>1, HandApart, TaskFormed DEF HeldInv, LedInv, HandInv, Sound, Types, Set, Served, At
<1>3. Completed(engine, rec)
  BY <1>2 DEF SteadyFor, Steady
<1>4. engine' = Took(engine, op) /\ op \in Ops
  BY <1>1, <1>2, FirstOp DEF Set
<1>5. HalfNamed(a, rec.named) \/ op.value[a] = engine.filter[a]
  BY <1>1, <1>2, <1>3 DEF Completed
<1>6. engine'.filter = op.value
  <2> DEFINE e == engine
             f == engine'
  <2>1. e \in States /\ f = Took(e, op) /\ op.setting = "filter"
    BY <1>1, <1>2, <1>4
  <2> HIDE DEF e, f, op
  <2>2. f.filter = op.value
    BY <1>4, <2>1, TookFilter
  <2> QED BY <2>2 DEF f
<1> QED BY <1>1, <1>5, <1>6

\* With one writer, no [source] mode and no rescan, a SetFilter for one half leaves the
\* other as the engine has it, whatever the poll, auto-pilot and the connection do, as long
\* as playback stands still and nothing is resynced: the State the pair is completed from
\* (_complete_filter_pair) is never one from before a write.
THEOREM SiblingAlwaysKept ==
    ASSUME Alone, NoSource, NoRescan
    PROVE  Spec => SiblingKept
<1>1. Init => HeldInv
  BY InitHeld
<1>2. HeldInv /\ [Next]_vars => HeldInv'
  BY HeldAlways
<1>3. HeldInv /\ [Next]_vars => [Unmoved => \A t \in Writers : LeavesSibling(t)]_vars
  BY SetsSibling
<1> QED BY <1>1, <1>2, <1>3, PTL DEF Spec, SiblingKept

LEMMA KeptPlays ==
    ASSUME NoSource, Writers # {}, HeldInv
    PROVE  HeldIsPlayed
<1> DEFINE m == Loaded(engine)
<1>1. SUFFICES ASSUME up, \A t \in Tasks : At(t, "idle"), spent.ignored = 0, Unmoved,
                      NEW f \in FieldsOf(m), readings.memory[m][f] # None
               PROVE  Plays(<<f, readings.memory[m][f]>>)
  BY DEF HeldIsPlayed
<1>2. PICK w \in Writers : TRUE
  OBVIOUS
<1>3. /\ w \in Tasks /\ task[w] \in Formeds /\ engine \in States /\ readings \in Views /\ LedFor(w) /\ KeptFor(w) /\ LedInv
  BY HandApart, TaskFormed DEF HeldInv, LedInv, HandInv, Sound, Types
<1>4. m = engine.mode /\ engine.mode \in Chains
  BY <1>3, LoadedMode
<1>5. task[w].at = "idle" /\ Kept(engine, readings, task[w]) /\ WriterShape(task[w])
  BY <1>1, <1>3 DEF At, KeptFor, Quiet, LedFor, Led
<1>6. Settled(engine, readings)
  BY <1>3, <1>5, KeptSettled
<1>7. f \in Routable /\ ROUTABLE[f].chain = m
  BY <1>1 DEF FieldsOf
<1> DEFINE v == readings.memory[m][f]
<1>8. On(engine, f, v)
  BY <1>1, <1>4, <1>6 DEF Settled
<1> HIDE DEF v
<1>9. Plays(<<f, v>>)
  BY <1>4, <1>7, <1>8 DEF Plays, On
<1> QED BY <1>9 DEF v

\* Of one writer, with no [source] mode and no rescan: when no request is under way and no
\* setter was ignored, the engine plays what LIVE remembers for the chain it has loaded:
\* what was held for that chain was sent when the chain was entered (chain_entered), what
\* was set on it is what it plays, and no request of the poll took it back.
THEOREM HeldAlwaysPlays ==
    ASSUME Alone, Writers # {}, NoSource, NoRescan
    PROVE  Spec => []HeldIsPlayed
<1>1. Init => HeldInv
  BY InitHeld
<1>2. HeldInv /\ [Next]_vars => HeldInv'
  BY HeldAlways
<1>3. HeldInv => HeldIsPlayed
  BY KeptPlays
<1> QED BY <1>1, <1>2, <1>3, PTL DEF Spec
=============================================================================
