------------------------------- MODULE LiveLane -------------------------------
(***************************************************************************)
(* The live lane: batches of settings written to the running engine over the *)
(* control connection, the heartbeat that reads the engine back, and the     *)
(* replay that puts the settings back after a device rescan.                 *)
(*                                                                          *)
(* A setter takes the LIST INDEX of a value, and the engine has one list per *)
(* filter chain: an index means nothing once another chain is loaded.  The   *)
(* manager resolves values against the lists it last read, and every request *)
(* after that is an await, at which another task may have a request in front *)
(* of it in the lock of the connection.  The lock is fair: `queue` is the    *)
(* order it serves.                                                          *)
(*                                                                          *)
(* The engine holds one pair of filters, for the chain it has loaded.  What  *)
(* was set on the other chain is in LiveMemory, and is put back when that    *)
(* chain is entered.                                                         *)
(***************************************************************************)
EXTENDS Naturals, Sequences, FiniteSets

CONSTANTS
    Writers,     \* tasks that write: routes of the LIVE view, presets, rescans
    Modes,       \* output modes the engine offers
    Lists,       \* per chain, the filters it lists
    Junk,        \* indices of the high-frequency filters
    Edits,       \* what one control writes, as pairs of a field and a value
    Presets,     \* what a live preset writes, as sets of such pairs
    ListReads,   \* requests one enumeration of the lists takes
    BootMode,    \* the mode of the configuration file
    None,        \* no reading, nothing remembered
    MaxBatches, MaxResyncs, MaxRescans, MaxFlips, MaxMoves, MaxLosses, MaxIgnored \* bounds

Chains == {"pcm", "sdm"}
Arguments == {"value", "value1x"}
IDs == {Lists[c][i] : c \in Chains, i \in 1..2}
Indices == 1..2

ASSUME ModesAssumption == Modes \subseteq Chains \cup {"auto"} /\ BootMode \in Modes
ASSUME ListsAssumption == \A c \in Chains : Len(Lists[c]) = 2 /\ Lists[c][1] # Lists[c][2]
ASSUME ReadsAssumption == ListReads \in Nat \ {0}
ASSUME BoundsAssumption == {MaxBatches, MaxResyncs, MaxRescans, MaxFlips, MaxMoves, MaxLosses, MaxIgnored} \subseteq Nat

\* The chain-scoped fields of the configuration form, and the argument of
\* SetFilter each becomes.  The shaper goes the same way without a second half.
ROUTABLE ==
    [filter         |-> [chain |-> "pcm", arg |-> "value"],
     filter1x       |-> [chain |-> "pcm", arg |-> "value1x"],
     oversampling   |-> [chain |-> "sdm", arg |-> "value"],
     oversampling1x |-> [chain |-> "sdm", arg |-> "value1x"]]
Routable == DOMAIN ROUTABLE
FieldsOf(c) == {f \in Routable : ROUTABLE[f].chain = c}
FieldNames == Routable \cup {"mode", "junk_filter"}

\* What State says.
Pairs == [Arguments -> Indices]
States == [mode : Modes, source : Chains, playing : BOOLEAN, filter : Pairs, junk_filter : Junk]

ASSUME EditsAssumption ==
    \A p \in Edits \cup UNION Presets : p = <<p[1], p[2]>> /\ p[1] \in FieldNames /\ (p[1] \in Routable => p[2] \in IDs)
\* A preset maps fields to values, those of the chain loaded when it was taken.
ASSUME PresetsAssumption ==
    \A fs \in Presets : \A p, q \in fs :
        /\ p[1] = q[1] => p = q
        /\ {p[1], q[1]} \subseteq Routable => ROUTABLE[p[1]].chain = ROUTABLE[q[1]].chain
ASSUME JunkAssumption == 1 \in Junk
ASSUME WritersAssumption == Writers \cap {"poll", "pilot"} = {} /\ Writers \cap Junk = {}
ASSUME NoneAssumption == None \notin IDs \cup Chains /\ None \notin Junk \cup Writers /\ None \notin States

VARIABLES
    engine,    \* mode, source, playing, the filter pair and junk filter, as indices
    up,        \* the control connection stands
    readings,  \* Readings: State, the family of Status.active_rate, the chain whose
               \* lists were enumerated, and LiveMemory
    queue,     \* who waits for the lock of the connection, in its order
    task,      \* per task, where it awaits and what it holds there
    autopilot, \* AutopilotStore.enabled
    byHand,    \* history: the junk filter the listener set by hand, or who is about to send it
    outcome,   \* history: the answer of the last replay
    spent      \* environment steps against their bounds

vars == <<engine, up, readings, queue, task, autopilot, byHand, outcome, spent>>

Tasks == Writers \cup {"poll", "pilot"}
Loaded(e) == IF e.mode \in Chains THEN e.mode ELSE e.source
Forgotten == [c \in Chains |-> [f \in Routable |-> None]]

\* What Status says of the chain: the rate coming out, nothing while stopped.
RateFamily(e) == IF e.playing THEN Loaded(e) ELSE None

\* The chain the manager believes is loaded: the configured mode when that names
\* one, else the last Status.
ActiveChain(r) == IF r.state # None /\ r.state.mode \in Chains THEN r.state.mode ELSE r.rate

Bounded == {"batches", "resyncs", "rescans", "flips", "moves", "losses", "ignored"}
Budget == [batches |-> MaxBatches, resyncs |-> MaxResyncs, rescans |-> MaxRescans, flips |-> MaxFlips,
           moves |-> MaxMoves, losses |-> MaxLosses, ignored |-> MaxIgnored]
Spend(k) == spent[k] < Budget[k] /\ spent' = [spent EXCEPT ![k] = @ + 1]

\* A task that is not running.  `edits` are the setters still to send, `tried` and
\* `done` those sent and those verified, `named` and `held` the fields they came
\* from, `rest` the part of the batch behind a mode, `left` and `list` an
\* enumeration under way, `seen` and `moved` the heartbeat's State.
Idle == [at |-> "idle", for |-> "batch", edits |-> <<>>, tried |-> {}, done |-> {}, named |-> {}, held |-> {},
         rest |-> {}, left |-> 0, list |-> None, seen |-> None, moved |-> FALSE, snap |-> {}, landed |-> {}]

Booted(source) == [mode |-> BootMode, source |-> source, playing |-> FALSE,
                   filter |-> [a \in Arguments |-> 1], junk_filter |-> 1]

Init ==
    /\ engine = Booted("pcm") /\ up = TRUE
    /\ readings = [state |-> engine, rate |-> RateFamily(engine), lists |-> Loaded(engine), memory |-> Forgotten]
    /\ queue = <<>> /\ task = [t \in Tasks |-> Idle]
    /\ autopilot \in BOOLEAN /\ byHand = None /\ outcome = "none"
    /\ spent = [k \in Bounded |-> 0]

-----------------------------------------------------------------------------
(* Resolving a batch.                                                       *)

\* The list index of an enum ID in the lists last read; 0 when they do not carry it.
IndexOf(r, id) == IF \E i \in Indices : Lists[r.lists][i] = id
                  THEN CHOOSE i \in Indices : Lists[r.lists][i] = id ELSE 0

OffChain(r, p) == p[1] \in Routable /\ ROUTABLE[p[1]].chain # ActiveChain(r)
HalfNamed(a, fs) == \E p \in fs : p[1] \in Routable /\ ROUTABLE[p[1]].arg = a

\* Every live value has an index, and State or the batch has both filter halves.
Resolves(r, fs) ==
    /\ (\E p \in fs : p[1] \in Routable) => r.state # None \/ \A a \in Arguments : HalfNamed(a, fs)
    /\ \A p \in fs : CASE p[1] \in Routable -> IndexOf(r, p[2]) # 0
                       [] p[1] = "mode" -> p[2] \in Modes
                       [] OTHER -> p[2] \in Junk

\* Mutant: the argument `value` alone, which sets both halves.
FilterPairOneSided(r, fs) ==
    LET p == CHOOSE p \in fs : p[1] \in Routable IN [a \in Arguments |-> IndexOf(r, p[2])]

\* SetFilter sets both halves: the half no field names is what State last said.
FilterPair(r, fs) ==
    [a \in Arguments |->
        IF HalfNamed(a, fs)
        THEN IndexOf(r, (CHOOSE p \in fs : p[1] \in Routable /\ ROUTABLE[p[1]].arg = a)[2])
        ELSE r.state.filter[a]]

\* The setters of a batch in the order SETTINGS lists them: mode, filter, junk filter.
Setters(r, fs) ==
    LET one(s, v) == <<[setting |-> s, value |-> v]>>
        alone(s) == IF \E p \in fs : p[1] = s THEN one(s, (CHOOSE p \in fs : p[1] = s)[2]) ELSE <<>>
    IN  alone("mode")
        \o (IF \E p \in fs : p[1] \in Routable THEN one("filter", FilterPair(r, fs)) ELSE <<>>)
        \o alone("junk_filter")

\* resolve_live: the fields of the chain not loaded are held, the others become
\* setters or the batch is refused.  `more` is what follows as a batch of its own.
Started(r, rec, fs, more) ==
    LET held == {p \in fs : OffChain(r, p)}
        live == fs \ held
    IN  IF ~Resolves(r, live) THEN Idle
        ELSE [Idle EXCEPT !.at = IF live = {} THEN "refresh" ELSE "set", !.edits = Setters(r, live),
                          !.named = live, !.held = held, !.rest = more,
                          !.snap = rec.snap, !.landed = rec.landed]

ModeRunning(r, fs) == r.state # None /\ \E p \in fs : p[1] = "mode" /\ p[2] = r.state.mode

\* apply_preset: a mode goes first and alone, and not at all when it is running.
Routed(r, rec, fs) ==
    LET mode == {p \in fs : p[1] = "mode"}
    IN  IF mode = {} \/ mode = fs THEN Started(r, rec, fs, {})
        ELSE IF ModeRunning(r, fs) THEN Started(r, rec, fs \ mode, {})
        ELSE Started(r, rec, mode, fs \ mode)

\* What LiveMemory holds for a chain, as far as the lists last read carry it.
Held(r, c) == IF c = None THEN {} ELSE {<<f, r.memory[c][f]>> : f \in {g \in Routable : r.memory[c][g] # None}}
Carried(r, c) == {p \in Held(r, c) : IndexOf(r, p[2]) # 0}
Dropped(r, c) ==
    IF c = None THEN r ELSE [r EXCEPT !.memory[c] = [f \in Routable |-> IF IndexOf(r, @[f]) # 0 THEN @[f] ELSE None]]

\* live_snapshot: what State says, in the terms the lane takes back.
Snapshot(r) ==
    IF r.state = None \/ ActiveChain(r) = None THEN {}
    ELSE {<<"mode", r.state.mode>>, <<"junk_filter", r.state.junk_filter>>}
         \cup {<<f, Lists[r.lists][r.state.filter[ROUTABLE[f].arg]]>> : f \in FieldsOf(ActiveChain(r))}

Remember(r, c, ps) ==
    [r EXCEPT !.memory[c] = [f \in Routable |-> IF \E p \in ps : p[1] = f THEN (CHOOSE p \in ps : p[1] = f)[2] ELSE @[f]]]

-----------------------------------------------------------------------------
(* A request is served: the head of the queue has the lock.                 *)

Served(t) == up /\ queue # <<>> /\ Head(queue) = t
At(t, place) == task[t].at = place

\* The task goes on to `rec`: to the end of the queue, or home.
Goes(t, rec) ==
    /\ task' = [task EXCEPT ![t] = rec]
    /\ queue' = IF rec.at = "idle" THEN Tail(queue) ELSE Append(Tail(queue), t)

\* A task with nothing in flight takes its place in the queue.
Joins(t, rec) ==
    /\ At(t, "idle") /\ rec.at # "idle"
    /\ task' = [task EXCEPT ![t] = rec] /\ queue' = Append(queue, t)

\* What the engine runs once a setter took.  Loading a chain drops the filter pair
\* of the one before.
Took(e, op) ==
    LET f == [e EXCEPT ![op.setting] = op.value]
    IN  IF Loaded(f) = Loaded(e) THEN f ELSE [f EXCEPT !.filter = Booted(e.source).filter]

Set(t) ==
    /\ Served(t) /\ At(t, "set")
    /\ engine' = Took(engine, Head(task[t].edits))
    /\ Goes(t, [task[t] EXCEPT !.at = "check"])
    /\ byHand' = IF Head(task[t].edits).setting # "junk_filter" \/ t = "pilot" \/ byHand \in Writers \ {t} THEN byHand
                 ELSE IF byHand # None /\ task[t].snap = {} THEN Head(task[t].edits).value ELSE None
    /\ UNCHANGED <<up, readings, autopilot, outcome, spent>>

\* Where a task goes once its setters are sent.
Sent(rec) == IF rec.for = "batch" THEN "refresh" ELSE "reread"

\* The readback: a setter State does not bear out is reported failed, and the rest
\* of the batch goes on.
Check(t) ==
    /\ Served(t) /\ At(t, "check")
    /\ LET op == Head(task[t].edits)
           rest == Tail(task[t].edits)
       IN  Goes(t, [task[t] EXCEPT
                       !.at = IF rest = <<>> THEN Sent(task[t]) ELSE "set", !.edits = rest,
                       !.tried = @ \cup {op.setting},
                       !.done = @ \cup (IF engine[op.setting] = op.value THEN {op.setting} ELSE {})])
    /\ UNCHANGED <<engine, up, readings, autopilot, byHand, outcome, spent>>

Listing(rec) == [rec EXCEPT !.at = "lists", !.left = ListReads]

Setting(f) == IF f \in Routable THEN "filter" ELSE f
Applied(rec) == {p \in rec.named \cup rec.held : Setting(p[1]) \in rec.done}

\* LiveMemory takes what was held, under the chain of each field, and what was
\* applied, under the chain loaded now.
Recorded(r, rec) ==
    LET kept == Remember(Remember(r, "pcm", {p \in rec.held : ROUTABLE[p[1]].chain = "pcm"}),
                         "sdm", {p \in rec.held : ROUTABLE[p[1]].chain = "sdm"})
    IN  IF ActiveChain(r) = None THEN kept
        ELSE Remember(kept, ActiveChain(r), {p \in Applied(rec) : p[1] \in Routable})

\* Mutant: the entered chain is left as the engine loaded it.
ReassertingNothing(r, rec) == [rec EXCEPT !.for = "chain", !.edits = <<>>, !.at = "reread"]

\* What LIVE holds for the chain loaded is resolved again and sent.
Reasserting(r, rec) ==
    LET ps == Carried(r, ActiveChain(r))
    IN  [rec EXCEPT !.for = "chain", !.edits = IF Resolves(r, ps) THEN Setters(r, ps) ELSE <<>>,
                    !.at = IF ps # {} /\ Resolves(r, ps) THEN "set" ELSE "reread"]

\* apply_preset of a rescan's snapshot is judged on the readbacks alone.
Judged(r, rec) ==
    LET landed == rec.landed \cup rec.done
        lost == {p \in rec.snap \ rec.held : Setting(p[1]) \notin landed}
    IN  IF \A p \in lost : p[1] = "mode" /\ ModeRunning(r, {p}) THEN "restored" ELSE "write_failed"

\* The part of the batch behind a mode starts once that mode's bookkeeping is done;
\* after the last part the request is answered.
Ends(t, r, rec) ==
    LET more == Started(r, [rec EXCEPT !.landed = @ \cup rec.done], rec.rest, {})
    IN  IF rec.rest # {} /\ more.at # "idle" THEN Goes(t, more) /\ outcome' = outcome
        ELSE /\ Goes(t, Idle)
             /\ outcome' = IF rec.snap = {} THEN outcome
                           ELSE IF rec.rest # {} THEN "write_failed" ELSE Judged(r, rec)

\* _bookkeep, and after a verified mode write the re-assert.
Bookkeeps(t, r, rec) ==
    LET kept == Recorded(r, rec)
    IN  IF "mode" \in rec.done
        THEN /\ readings' = Dropped(kept, ActiveChain(kept)) /\ Goes(t, Reasserting(kept, rec))
             /\ outcome' = outcome
        ELSE readings' = kept /\ Ends(t, kept, rec)

\* Mutant: a mode write leaves the lists as they were, for the poll to notice.
RefreshLeavesMode(t) ==
    /\ Served(t) /\ At(t, "refresh")
    /\ LET r == [readings EXCEPT !.state = engine]
       IN  IF "filter" \in task[t].tried
           THEN readings' = r /\ Goes(t, Listing(task[t])) /\ outcome' = outcome
           ELSE Bookkeeps(t, r, task[t])
    /\ UNCHANGED <<engine, up, autopilot, byHand, spent>>

\* refresh_after_live: State again, and the lists when the batch moved one.
Refresh(t) ==
    /\ Served(t) /\ At(t, "refresh")
    /\ LET r == [readings EXCEPT !.state = engine]
       IN  IF task[t].tried \cap {"mode", "filter"} # {}
           THEN readings' = r /\ Goes(t, Listing(task[t])) /\ outcome' = outcome
           ELSE Bookkeeps(t, r, task[t])
    /\ UNCHANGED <<engine, up, autopilot, byHand, spent>>

\* State after a re-assert, which ends the request.
Reread(t) ==
    /\ Served(t) /\ At(t, "reread")
    /\ readings' = [readings EXCEPT !.state = engine]
    /\ Ends(t, readings', task[t])
    /\ UNCHANGED <<engine, up, autopilot, byHand, spent>>

\* chain_entered, the lists being fresh: nothing is read again when nothing is held.
Enters(t, r, rec) ==
    /\ readings' = Dropped(r, ActiveChain(r))
    /\ Goes(t, IF Reasserting(r, rec).at = "set" THEN Reasserting(r, rec) ELSE Idle)
    /\ outcome' = outcome

\* Of the snapshot, what the engine no longer runs; nothing to restore is an answer.
Replays(t, r, rec) ==
    LET moved == rec.snap \ Snapshot(r)
        next == Routed(r, [rec EXCEPT !.snap = moved], moved)
    IN  /\ readings' = r
        /\ IF moved = {} \/ next.at = "idle"
           THEN Goes(t, Idle) /\ outcome' = IF moved = {} THEN "nothing_to_restore" ELSE "write_failed"
           ELSE Goes(t, next) /\ outcome' = outcome

\* An enumeration takes several requests; the filters are of the chain loaded at
\* the first of them, and the manager has them after the last.
ListsRead(t) ==
    /\ Served(t) /\ At(t, "lists")
    /\ LET list == IF task[t].list = None THEN Loaded(engine) ELSE task[t].list
           rec == [task[t] EXCEPT !.left = @ - 1, !.list = list]
           r == [readings EXCEPT !.lists = list]
       IN  IF rec.left > 0 THEN Goes(t, rec) /\ UNCHANGED <<readings, outcome>>
           ELSE LET over == [rec EXCEPT !.list = None]
                IN  CASE over.for = "batch" -> Bookkeeps(t, r, over)
                      [] over.for = "heartbeat" ->
                            readings' = r /\ Goes(t, [over EXCEPT !.at = "status"]) /\ outcome' = outcome
                      [] over.for = "chain" -> Enters(t, r, over)
                      [] over.for = "probe" -> Replays(t, r, over)
                      [] over.for = "resync" ->
                            /\ readings' = [r EXCEPT !.state = over.seen]
                            /\ Goes(t, Idle) /\ outcome' = outcome
    /\ UNCHANGED <<engine, up, autopilot, byHand, spent>>

-----------------------------------------------------------------------------
(* What starts a task.                                                      *)

\* Mutant: auto-pilot goes on beside the listener's own choice.
WriteBesideAutopilot(t, p) ==
    /\ up /\ t \in Writers /\ Spend("batches")
    /\ Joins(t, Started(readings, Idle, {p}, {}))
    /\ byHand' = IF p[1] = "junk_filter" THEN t ELSE byHand
    /\ UNCHANGED <<engine, up, readings, autopilot, outcome>>

\* POST /config/live with one control's value.  Setting the high-frequency filter
\* by hand stands auto-pilot down before anything is sent.
Write(t, p) ==
    /\ up /\ t \in Writers /\ Spend("batches")
    /\ Joins(t, Started(readings, Idle, {p}, {}))
    /\ IF p[1] = "junk_filter" THEN autopilot' = FALSE /\ byHand' = t ELSE UNCHANGED <<autopilot, byHand>>
    /\ UNCHANGED <<engine, up, readings, outcome>>

\* A live preset: several fields, with the mode they were taken in.  A staged batch
\* that routes live takes the same way, but only when nothing of it would be held.
ApplyPreset(t, fs) ==
    /\ up /\ t \in Writers /\ Spend("batches")
    /\ Joins(t, Routed(readings, Idle, fs))
    /\ UNCHANGED <<engine, up, readings, autopilot, byHand, outcome>>

\* The heartbeat remembers the State it compares with before it reads the next.
Beat ==
    /\ up /\ Joins("poll", [Idle EXCEPT !.at = "state", !.for = "heartbeat", !.seen = readings.state])
    /\ UNCHANGED <<engine, up, readings, autopilot, byHand, outcome, spent>>

\* What the heartbeat re-enumerates on.
Differs(s, e) == s = None \/ s.mode # e.mode \/ s.playing # e.playing

\* The State of a heartbeat is compared with the one before it, not yet published.
StateRead ==
    /\ Served("poll") /\ At("poll", "state")
    /\ LET moved == readings.state # None /\ Differs(task["poll"].seen, engine)
           rec == [task["poll"] EXCEPT !.seen = engine, !.moved = moved]
       IN  Goes("poll", IF moved THEN Listing(rec) ELSE [rec EXCEPT !.at = "status"])
    /\ UNCHANGED <<engine, up, readings, autopilot, byHand, outcome, spent>>

\* State is published here, an await or an enumeration after it was read.  A chain
\* other than the one believed in so far has been entered.
StatusRead ==
    /\ Served("poll") /\ At("poll", "status")
    /\ LET rec == [task["poll"] EXCEPT !.for = "chain"]
           r == [readings EXCEPT !.state = rec.seen, !.rate = RateFamily(engine)]
       IN  IF ActiveChain(r) \in {None, ActiveChain(readings)}
           THEN readings' = r /\ Goes("poll", Idle) /\ outcome' = outcome
           ELSE IF rec.moved THEN Enters("poll", r, rec)
           ELSE readings' = r /\ Goes("poll", Listing(rec)) /\ outcome' = outcome
    /\ UNCHANGED <<engine, up, autopilot, byHand, spent>>

\* Auto-pilot's tick: what the track calls for against what State last said.
Act(want) ==
    /\ up /\ autopilot /\ readings.state # None /\ want # readings.state.junk_filter
    /\ Joins("pilot", Started(readings, Idle, {<<"junk_filter", want>>}, {}))
    /\ UNCHANGED <<engine, up, readings, autopilot, byHand, outcome, spent>>

\* The listener hands the high-frequency filter back to auto-pilot.
SwitchOn ==
    /\ ~autopilot /\ autopilot' = TRUE /\ byHand' = None
    /\ UNCHANGED <<engine, up, readings, queue, task, outcome, spent>>

\* resync_engine_state: everything known of the engine is forgotten, then read.
Resync(t) ==
    /\ up /\ t \in Writers /\ Spend("resyncs")
    /\ readings' = [readings EXCEPT !.state = None, !.memory = Forgotten]
    /\ Joins(t, [Idle EXCEPT !.at = "fetch", !.for = "resync"])
    /\ UNCHANGED <<engine, up, autopilot, byHand, outcome>>

\* Mutant: the probe finds that the engine answers and does not keep what it said.
FetchForgets(t) ==
    /\ Served(t) /\ At(t, "fetch")
    /\ Goes(t, Listing([task[t] EXCEPT !.seen = engine]))
    /\ UNCHANGED <<engine, up, readings, autopilot, byHand, outcome, spent>>

\* State is read; the probe of a rescan publishes it at once, a resync with the lists.
Fetch(t) ==
    /\ Served(t) /\ At(t, "fetch")
    /\ readings' = IF task[t].for = "probe" THEN [readings EXCEPT !.state = engine] ELSE readings
    /\ Goes(t, Listing([task[t] EXCEPT !.seen = IF task[t].for = "probe" THEN None ELSE engine]))
    /\ UNCHANGED <<engine, up, autopilot, byHand, outcome, spent>>

-----------------------------------------------------------------------------
(* The rescan.                                                              *)

\* The snapshot of what plays is taken before the daemon is asked to rescan.
Rescan(t) ==
    /\ t \in Writers /\ At(t, "idle") /\ Spend("rescans")
    /\ Snapshot(readings) # {}
    /\ task' = [task EXCEPT ![t] = [Idle EXCEPT !.at = "reload", !.for = "probe", !.snap = Snapshot(readings)]]
    /\ outcome' = "none"
    /\ UNCHANGED <<engine, up, readings, queue, autopilot, byHand>>

\* A dead connection is no answer: every task on it gives up.  A replay that was
\* only waiting for the engine waits on; one that was writing is judged or failed.
Waits(rec) == rec.at = "reload" \/ rec.for = "probe"
GivenUp(rec) == IF Waits(rec) THEN [rec EXCEPT !.at = IF @ = "reload" THEN @ ELSE "away", !.list = None] ELSE Idle
Writing(rec) == rec.snap # {} /\ ~Waits(rec)

\* The connection is gone under everything queued on it.
Cut(tasks) ==
    /\ task' = [t \in Tasks |-> GivenUp(tasks[t])] /\ queue' = <<>> /\ up' = FALSE
    /\ outcome' = IF \E t \in Tasks : Writing(tasks[t])
                  THEN LET rec == tasks[CHOOSE t \in Tasks : Writing(tasks[t])]
                       IN  IF rec.rest = {} /\ (rec.for = "chain" \/ rec.at \in {"refresh", "lists", "reread"})
                           THEN Judged(readings, rec) ELSE "write_failed"
                  ELSE outcome

\* The daemon rescans: the engine is back on the configuration file.
Reload(t) ==
    /\ At(t, "reload") /\ engine' = Booted(engine.source) /\ byHand' = None
    /\ LET tasks == [task EXCEPT ![t].at = "away"]
       IN  (task' = tasks /\ UNCHANGED <<up, queue, outcome>>) \/ Cut(tasks)
    /\ UNCHANGED <<readings, autopilot, spent>>

\* Mutant: the engine counts as back once the readings of the poll have changed.
ProbeByReadings(t) ==
    /\ At(t, "away") /\ up /\ Snapshot(readings) # task[t].snap
    /\ task' = [task EXCEPT ![t].at = "fetch"] /\ queue' = Append(queue, t)
    /\ UNCHANGED <<engine, up, readings, autopilot, byHand, outcome, spent>>

\* _await_engine asks the connection itself, again and again until the deadline.
Probe(t) ==
    /\ At(t, "away") /\ up
    /\ task' = [task EXCEPT ![t].at = "fetch"] /\ queue' = Append(queue, t)
    /\ UNCHANGED <<engine, up, readings, autopilot, byHand, outcome, spent>>

\* Its deadline passes with nothing answering.
Unreachable(t) ==
    /\ At(t, "away") /\ ~up
    /\ task' = [task EXCEPT ![t] = Idle] /\ outcome' = "unreachable"
    /\ UNCHANGED <<engine, up, readings, queue, autopilot, byHand, spent>>

-----------------------------------------------------------------------------
(* The engine and the connection.                                           *)

\* A setter answered OK that did not take.
Ignored(t) ==
    /\ Served(t) /\ At(t, "set") /\ Spend("ignored")
    /\ Goes(t, [task[t] EXCEPT !.at = "check"])
    /\ UNCHANGED <<engine, up, readings, autopilot, byHand, outcome>>

\* The next track is of the other kind: in [source] mode the engine follows it.
Flip ==
    /\ Spend("flips")
    /\ LET e == [engine EXCEPT !.source = CHOOSE c \in Chains : c # @]
       IN  engine' = IF Loaded(e) = Loaded(engine) THEN e ELSE [e EXCEPT !.filter = Booted(e.source).filter]
    /\ UNCHANGED <<up, readings, queue, task, autopilot, byHand, outcome>>

\* Playback starts or stops.
Move ==
    /\ Spend("moves") /\ engine' = [engine EXCEPT !.playing = ~@]
    /\ UNCHANGED <<up, readings, queue, task, autopilot, byHand, outcome>>

\* The connection is lost, with the daemon or without.
Lose ==
    /\ up /\ Spend("losses") /\ Cut(task)
    /\ \/ engine' = engine /\ byHand' = byHand
       \/ engine' = Booted(engine.source) /\ byHand' = None
    /\ UNCHANGED <<readings, autopilot>>

\* The handshake reads everything and forgets what LIVE held.
Reconnect ==
    /\ ~up /\ up' = TRUE
    /\ readings' = [state |-> engine, rate |-> RateFamily(engine), lists |-> Loaded(engine), memory |-> Forgotten]
    /\ UNCHANGED <<engine, queue, task, autopilot, byHand, outcome, spent>>

-----------------------------------------------------------------------------
Serving(t) == Set(t) \/ Check(t) \/ Refresh(t) \/ Reread(t) \/ ListsRead(t) \/ Fetch(t)
Environment == Flip \/ Move \/ Lose \/ SwitchOn
Next ==
    \/ \E t \in Tasks : Serving(t) \/ Ignored(t)
    \/ \E t \in Writers : \/ \E p \in Edits : Write(t, p)
                          \/ \E fs \in Presets : ApplyPreset(t, fs)
                          \/ Resync(t) \/ Rescan(t) \/ Reload(t) \/ Probe(t) \/ Unreachable(t)
    \/ Beat \/ StateRead \/ StatusRead \/ \E w \in Junk : Act(w)
    \/ Reconnect \/ Environment

Spec == Init /\ [][Next]_vars

\* The loop of the event loop serves the lock, the poll beats again and again, a
\* lost connection is dialled again, a rescan is answered or given up.
FairSpec ==
    /\ Spec
    /\ \A t \in Tasks : WF_vars(Serving(t) /\ t \in Tasks)
    /\ WF_vars(Beat) /\ WF_vars(StateRead) /\ WF_vars(StatusRead) /\ WF_vars(Reconnect)
    /\ \A t \in Writers : WF_vars(Reload(t)) /\ WF_vars(Probe(t))

-----------------------------------------------------------------------------
(* Properties.                                                              *)

\* The engine and every reading of it are in range: above all no index outside the
\* list it points into is ever sent.
TypeOK ==
    /\ engine \in States
    /\ up \in BOOLEAN /\ autopilot \in BOOLEAN /\ byHand \in Junk \cup Writers \cup {None}
    /\ readings.state \in States \cup {None}
    /\ readings.rate \in Chains \cup {None} /\ readings.lists \in Chains
    /\ readings.memory \in [Chains -> [Routable -> IDs \cup {None}]]
    /\ \A t \in Tasks : DOMAIN task[t] = DOMAIN Idle /\ \A p \in task[t].named \cup task[t].held : p[1] \in FieldNames
    /\ \A k \in Bounded : spent[k] <= Budget[k]

\* The engine plays this value on this field.
Plays(p) == IF p[1] \in Routable
            THEN Loaded(engine) = ROUTABLE[p[1]].chain /\ Lists[Loaded(engine)][engine.filter[ROUTABLE[p[1]].arg]] = p[2]
            ELSE engine[p[1]] = p[2]

\* The high-frequency filter set by hand stays until the engine restarts or another
\* party is handed it: a decision of auto-pilot taken before does not undo it.
HandChoiceStands == byHand \in Junk => engine.junk_filter = byHand

\* No heartbeat enumerates but for a mode that was set.  One does when playback
\* starts or stops, and when a resync published a State under it; it then publishes
\* a State that a write may have overtaken.
Unmoved == spent.moves = 0 /\ spent.resyncs = 0

\* A setter reported as verified has the engine play the ID the listener named, not
\* the one that stands at its index in the list of another chain.  A rescan can fall
\* into the enumeration of a heartbeat, which then publishes the State from before it.
NamedIsPlayed ==
    [][\A t \in Writers :
          /\ spent.rescans = 0 \/ Unmoved
          /\ Check(t) /\ task'[t].done # task[t].done /\ task[t].for = "batch"
          => \A p \in task[t].named : Setting(p[1]) \in task'[t].done \ task[t].done => Plays(p)]_vars

\* With no request under way the engine plays what LIVE remembers for the chain it
\* has loaded: a held setting landed, and nobody reverted it.
HeldIsPlayed ==
    up /\ (\A t \in Tasks : At(t, "idle")) /\ spent.ignored = 0 /\ Unmoved
       => \A f \in FieldsOf(Loaded(engine)) :
              readings.memory[Loaded(engine)][f] # None => Plays(<<f, readings.memory[Loaded(engine)][f]>>)

\* A SetFilter for one half leaves the other half as the engine has it
\* (_complete_filter_pair: both arguments explicit, or the sibling is clobbered).
LeavesSibling(t) ==
    Set(t) /\ Head(task[t].edits).setting = "filter" /\ task[t].for = "batch" /\ Cardinality(task[t].named) = 1
        => \A a \in Arguments : engine'.filter[a] # engine.filter[a] => HalfNamed(a, task[t].named)

\* The sibling is kept as long as no heartbeat publishes a State it read before the
\* write.
SiblingKept == [][Unmoved => \A t \in Writers : LeavesSibling(t)]_vars

\* The same whatever the heartbeat publishes, as the comment in the code has it.
SiblingKeptAlways == [][\A t \in Writers : LeavesSibling(t)]_vars

\* A rescan that reports success left every snapshotted setting playing, or held for
\* the chain it belongs to ("No outcome is silent").  Auto-pilot may have moved the
\* high-frequency filter meanwhile.
NoSilentLoss ==
    [][\A t \in Writers : Unmoved /\ task[t].snap # {} /\ outcome' # outcome
                              /\ outcome' \in {"restored", "nothing_to_restore"}
          => \A p \in task[t].snap : p[1] = "junk_filter" \/ Plays(p) \/ p \in task[t].held]_vars

\* Once the engine is left alone, the manager resolves against the lists of the chain
\* that is loaded, whichever of the poll, a batch or a replay has to fetch them.
ListsFollow == <>[](up /\ readings.lists = Loaded(engine) /\ readings.state # None)

\* No request waits for good on a connection that died under it.
TasksReturn == \A t \in Tasks : []<>At(t, "idle")
=============================================================================
