-------------------------------- MODULE Metering --------------------------------
(***************************************************************************)
(* The metering reader and what is read off it: it holds the stream only     *)
(* while the engine plays, folds the frames into blocks and a window over    *)
(* them, and runs two rules for junk above the music.  Auto-pilot engages  *)
(* what the rules ask for; the note says so while nothing engaged treats it. *)
(*                                                                          *)
(* The stream breaks, goes quiet or changes its layout at any time, and what *)
(* the reader knows of the engine is the last poll of the manager.           *)
(***************************************************************************)
EXTENDS Naturals, Sequences, FiniteSets

CONSTANTS
    Layouts,       \* frame geometries
    Contents,      \* what a frame carries: its tone, and what a block of such frames reads
    WINDOW_BLOCKS, \* blocks the window minimum reaches back
    GAP_BLOCKS,    \* how far apart the two confirming junk blocks may stand
    Mains,         \* main filters, those in SPUR_FAMILIES among them
    SPUR_FAMILIES,
    None,
    MaxBlocks, MaxTurns, MaxBreaks, MaxStops \* bounds on the environment

ASSUME WindowAssumption == {WINDOW_BLOCKS, GAP_BLOCKS} \subseteq Nat \ {0} /\ SPUR_FAMILIES \subseteq Mains
ASSUME BoundsAssumption == {MaxBlocks, MaxTurns, MaxBreaks, MaxStops} \subseteq Nat

\* The excess of a tone over its baseline: under SPUR_RELEASE_DB, between, at SPUR_SPLIT_DB.
Tones == 0..2
Loudest == 2
States == {"dropped", "real", "junk"}
\* The corner of the junk run and that of a held tone.
Corners == {"20k", "30k"}
CORNER_KHZ == [c \in Corners |-> IF c = "20k" THEN 20 ELSE 30]
Engageable == Corners \cup {"none", "2x"}

\* What a block reads, the run over blocks, and the evidence as a whole.
Contained == [tone : Tones, above : BOOLEAN, step : 0..2, vetoed : BOOLEAN]
Runs == [engaged : BOOLEAN, pending : 0..GAP_BLOCKS \cup {None}]
Evidence == [layout : Layouts, blocks : Seq(Tones), rows : SUBSET Contents, run : Runs]

ASSUME ContentsAssumption == Contents \subseteq Contained
ASSUME NoneAssumption == None \notin Nat \cup Contained \cup Evidence

VARIABLES
    engine,  \* what plays: layout, hi-res or not, the daemon's socket; the filters; auto-pilot's switch
    context, \* what the last poll said: "playing", "stopped", "gone" (or not to be parsed)
    reader,  \* where its task is: the gate, the check and the read of a frame, the pause between
    agg,     \* SpectralAggregate, None while there is no evidence
    held,    \* SpurHolder: whether the tone is held
    levels,  \* BandRing: whether there is a readout
    stopped, \* MeteringReader.stop was called
    heard,   \* history: the readings of the blocks closed since the evidence began
    spent    \* environment steps against their bounds

vars == <<engine, context, reader, agg, held, levels, stopped, heard, spent>>

Bounded == {"blocks", "turns", "breaks", "stops"}
Budget == [blocks |-> MaxBlocks, turns |-> MaxTurns, breaks |-> MaxBreaks, stops |-> MaxStops]
Spend(k) == spent[k] < Budget[k] /\ spent' = [spent EXCEPT ![k] = @ + 1]

-----------------------------------------------------------------------------
(* The rules.                                                               *)

\* What one closed block says: nothing above the fold, music, or junk.
ReadBlock(b) ==
    CASE b = None \/ ~b.above -> "dropped"
      [] b # None /\ b.above /\ (b.step = 0 \/ (b.vetoed /\ b.step = 1)) -> "real"
      [] OTHER -> "junk"

Unengaged == [engaged |-> FALSE, pending |-> None]
Start(s) == IF s = "junk" THEN [Unengaged EXCEPT !.pending = 0] ELSE Unengaged

\* Mutant: the second junk block confirms at whatever distance.
ObserveAnyGap(run, s) ==
    CASE run.engaged -> IF s = "real" THEN Unengaged ELSE run
      [] ~run.engaged /\ run.pending = None -> Start(s)
      [] ~run.engaged /\ run.pending # None /\ s = "dropped" -> [run EXCEPT !.pending = @ + 1]
      [] OTHER -> IF s = "junk" THEN [engaged |-> TRUE, pending |-> None] ELSE Unengaged

\* The run takes one block, engaged or not.
Observe(run, s) ==
    LET age == run.pending + 1
    IN  CASE run.engaged -> IF s = "real" THEN Unengaged ELSE run
          [] ~run.engaged /\ run.pending = None -> Start(s)
          [] ~run.engaged /\ run.pending # None /\ age > GAP_BLOCKS -> Start(s)
          [] ~run.engaged /\ run.pending # None /\ age <= GAP_BLOCKS ->
                CASE s = "dropped" -> [run EXCEPT !.pending = age]
                  [] s = "junk"    -> [engaged |-> TRUE, pending |-> None]
                  [] OTHER         -> Unengaged

\* The per-bin minimum over the closed blocks in the window and the open one; None
\* while not one audible frame was folded.
Lowest(S) == CHOOSE t \in S : \A u \in S : t <= u
WindowMin(a) ==
    LET tones == {a.blocks[i] : i \in DOMAIN a.blocks} \cup (IF a.rows = {} THEN {} ELSE {Lowest({f.tone : f \in a.rows})})
    IN  IF tones = {} THEN None ELSE Lowest(tones)

\* SpurHolder.decide: a tone engages at the split and releases under the release.
Decide(h, tone) == tone = Loudest \/ (h /\ tone # 0)

\* Whether there is a spectrum the rules can read, and the engine says of a hi-res track.
Eligible == context \in {"playing", "stopped"} /\ agg # None /\ engine.hires /\ WindowMin(agg) # None

\* The hold after one reading, and the corners the rules then fire.
HeldNow == IF Eligible THEN Decide(held, WindowMin(agg)) ELSE held
Verdicts == IF ~Eligible THEN {}
            ELSE (IF agg.run.engaged THEN {"20k"} ELSE {}) \cup (IF HeldNow THEN {"30k"} ELSE {})

\* classify: the lowest corner among the rules that fire.
Classify == IF Verdicts = {} THEN None
            ELSE CHOOSE c \in Verdicts : \A d \in Verdicts : CORNER_KHZ[c] <= CORNER_KHZ[d]

\* A corner treats what lies at or above it, and a rate-relative filter is the user's.
Treated(junk, c) == junk # "none" /\ (junk \notin Corners \/ CORNER_KHZ[junk] <= CORNER_KHZ[c])

\* Only the spur's verdict offers the hires families instead.
Treats(c, junk, main) == Treated(junk, c) \/ (c = "30k" /\ main \in SPUR_FAMILIES)

\* The note, and what auto-pilot wants engaged.
Recommendation == IF Classify = None \/ Treats(Classify, engine.junk, engine.main) THEN None ELSE Classify
Desired == IF Classify = None \/ Treats(Classify, "none", engine.main) THEN "none" ELSE Classify

-----------------------------------------------------------------------------
(* The reader.                                                              *)

Aggregate(layout) == [layout |-> layout, blocks |-> <<>>, rows |-> {}, run |-> Unengaged]

Init ==
    /\ engine \in [layout : Layouts, hires : BOOLEAN, pilot : {TRUE}, serves : {TRUE}, junk : {"none"}, main : Mains]
    /\ context \in {"playing", "stopped"}
    /\ reader = "gate" /\ agg = None /\ held = FALSE /\ levels = FALSE /\ stopped = FALSE
    /\ heard = <<>> /\ spent = [k \in Bounded |-> 0]

\* The evidence, the hold that rests on it and the readout go together.
Drop == agg' = None /\ held' = FALSE /\ levels' = FALSE /\ heard' = <<>>
Keep == UNCHANGED <<agg, held, levels, heard>>
Goes(place) == reader' = IF stopped /\ place = "pause" THEN "ended" ELSE place

\* The top of the loop.  A stopped engine keeps its evidence and parks the readout;
\* one that is gone, or says what cannot be parsed, ends it.
Gate ==
    /\ reader = "gate"
    /\ CASE stopped -> reader' = "ended" /\ Keep
         [] ~stopped /\ context = "playing" /\ engine.serves -> reader' = "check" /\ Keep
         [] ~stopped /\ context = "stopped" -> Goes("pause") /\ levels' = FALSE /\ UNCHANGED <<agg, held, heard>>
         [] OTHER -> Goes("pause") /\ Drop
    /\ UNCHANGED <<engine, context, stopped, spent>>

\* The stream breaks: cut by the daemon, or a header that cannot be.
Breaks ==
    /\ reader \in {"check", "read"} /\ Spend("breaks") /\ Goes("pause") /\ Drop
    /\ engine' \in {engine, [engine EXCEPT !.serves = FALSE]}
    /\ UNCHANGED <<context, stopped>>

\* The stream is held only while the engine plays.
Check ==
    /\ reader = "check"
    /\ CASE ~stopped /\ context = "playing" -> reader' = "read" /\ Keep
         [] ~stopped /\ context = "stopped" -> Goes("pause") /\ Keep
         [] OTHER -> Goes("pause") /\ Drop
    /\ UNCHANGED <<engine, context, stopped, spent>>

\* Mutant: the reader waits for its frame however long that takes.
TickOnFrame == FALSE /\ UNCHANGED vars

\* No frame for a tick: back to the check, the read left running.
Tick == reader = "read" /\ reader' = "check" /\ Keep /\ UNCHANGED <<engine, context, stopped, spent>>

\* Mutant: a new layout goes on with the run of the one before.
BasisKeepingRun == IF agg = None THEN Aggregate(engine.layout) ELSE [Aggregate(engine.layout) EXCEPT !.run = agg.run]

\* The aggregate a frame belongs to: a new one where the layout moved.
Basis == IF agg = None \/ agg.layout # engine.layout THEN Aggregate(engine.layout) ELSE agg
Began == agg = None \/ agg.layout # engine.layout

\* A frame is folded into the open block, a silent one into nothing; with BLOCK_SECONDS
\* covered the block closes, carrying what its audible frames say, and the run takes it.
Ingest(f, closes) ==
    /\ reader = "read" /\ reader' = "check" /\ levels' = TRUE
    /\ LET rows == Basis.rows \cup (IF f = None THEN {} ELSE {f})
           before == IF Began THEN <<>> ELSE heard
       IN  IF ~closes
           THEN agg' = [Basis EXCEPT !.rows = rows] /\ heard' = before /\ UNCHANGED spent
           ELSE /\ Spend("blocks")
                /\ \E b \in (IF rows = {} THEN {None} ELSE rows) :
                     LET s == ReadBlock(b)
                         window == Append(Basis.blocks, Lowest({g.tone : g \in rows}))
                     IN  /\ agg' = [Basis EXCEPT !.rows = {}, !.run = Observe(@, s),
                                       !.blocks = CASE rows = {} -> @
                                                    [] rows # {} /\ Len(window) > WINDOW_BLOCKS -> Tail(window)
                                                    [] OTHER -> window]
                         /\ heard' = Append(before, s)
    /\ UNCHANGED <<engine, context, stopped, held>>

\* Mutant: a refused connection is the end of the reader.
PaceOnce ==
    /\ reader = "pause" /\ reader' = (IF engine.serves THEN "gate" ELSE "ended") /\ Keep
    /\ UNCHANGED <<engine, context, stopped, spent>>

\* The pause between two turns of the loop; a stop cuts it short.
Pace == reader = "pause" /\ reader' = "gate" /\ Keep /\ UNCHANGED <<engine, context, stopped, spent>>

Stop == ~stopped /\ Spend("stops") /\ stopped' = TRUE /\ Keep /\ UNCHANGED <<engine, context, reader>>

\* The readout of a stream that went quiet ages.
Ages == levels /\ levels' = FALSE /\ UNCHANGED <<engine, context, reader, agg, held, stopped, heard, spent>>

-----------------------------------------------------------------------------
(* Who reads the verdict, and the engine.                                   *)

\* A status request: the hold takes the window in front of it.
Advise == held' = HeldNow /\ UNCHANGED <<engine, context, reader, agg, levels, stopped, heard, spent>>

\* A tick of auto-pilot: what the verdict asks for is engaged.
Act ==
    /\ UNCHANGED <<context, reader, agg, levels, stopped, heard, spent>>
    /\ engine.pilot /\ context \in {"playing", "stopped"}
    /\ engine' = [engine EXCEPT !.junk = Desired] /\ held' = HeldNow

\* The user engages a filter by hand, which switches auto-pilot off, switches it on,
\* or changes the main filter.
Choose ==
    /\ Spend("turns")
    /\ engine' \in {[engine EXCEPT !.junk = "2x", !.pilot = FALSE], [engine EXCEPT !.pilot = TRUE]}
                     \cup {[engine EXCEPT !.main = m] : m \in Mains}
    /\ engine' # engine
    /\ UNCHANGED <<context, reader, agg, held, levels, stopped, heard>>

\* Another track, of another layout or another kind.
Track ==
    /\ Spend("turns")
    /\ \E l \in Layouts, h \in BOOLEAN : engine' = [engine EXCEPT !.layout = l, !.hires = h]
    /\ engine' # engine
    /\ UNCHANGED <<context, reader, agg, held, levels, stopped, heard>>

\* The next poll of the manager says something else.
Polled ==
    /\ Spend("turns") /\ context' \in {"playing", "stopped", "gone"} \ {context}
    /\ UNCHANGED <<engine, reader, agg, held, levels, stopped, heard>>

Serves == ~engine.serves /\ engine' = [engine EXCEPT !.serves = TRUE] /\ Keep /\ UNCHANGED <<context, reader, stopped, spent>>

Next ==
    \/ Gate \/ Check \/ Tick \/ Pace \/ Ages \/ Breaks \/ Stop
    \/ \E f \in Contents \cup {None}, closes \in BOOLEAN : Ingest(f, closes)
    \/ Advise \/ Act \/ Choose \/ Track \/ Polled \/ Serves

Spec == Init /\ [][Next]_vars

\* The task of the reader runs, its pauses end and a readout ages; whether a frame
\* ever comes, and who reads the verdict, is up to others.
FairSpec == Spec /\ WF_vars(Gate) /\ WF_vars(Check) /\ WF_vars(Tick) /\ WF_vars(Pace) /\ WF_vars(Ages)

-----------------------------------------------------------------------------
(* Properties.                                                              *)

\* The evidence is in range, and a run is engaged or pending, never both.
TypeOK ==
    /\ engine.junk \in Engageable /\ context \in {"playing", "stopped", "gone"}
    /\ reader \in {"gate", "check", "read", "pause", "ended"}
    /\ agg # None => agg.run \in Runs /\ Len(agg.blocks) <= WINDOW_BLOCKS /\ (agg.run.engaged => agg.run.pending = None)
    /\ held \in BOOLEAN /\ levels \in BOOLEAN /\ \A k \in Bounded : spent[k] <= Budget[k]

\* The run over readings as the rule words it: two junk blocks no further apart than
\* the gap, nothing real between them, and nothing real since.
EngagedOn(rs) ==
    \E i, j \in DOMAIN rs :
        /\ i < j /\ j - i <= GAP_BLOCKS /\ rs[i] = "junk" /\ rs[j] = "junk"
        /\ \A k \in i..Len(rs) : rs[k] # "real"

\* The 20k corner stands on the blocks of one unbroken stream in one layout, and on
\* all of them: pauses neither lose nor add evidence, a break or a new layout ends it.
RunStandsOnBlocks == IF agg = None THEN heard = <<>> ELSE agg.run.engaged = EngagedOn(heard)

\* Neither the hold of a tone nor the readout outlives the stream it was taken from.
NothingOutlivesEvidence == agg = None => ~held /\ ~levels

\* Where auto-pilot has acted there is nothing left to recommend.
PilotQuietsNote == [][Act => Recommendation' = None]_vars

Streaming == reader \in {"check", "read"}

\* A stopped engine is let go, even by a stream that sends nothing more: the socket is
\* closed and the bars are parked, unless it plays again.
LetGo == (context = "stopped") ~> (context # "stopped" \/ (~Streaming /\ ~levels))

\* An engine that goes on playing on a daemon that goes on serving is listened to.
Listens == <>[](context = "playing" /\ engine.serves /\ ~stopped) => <>[]Streaming
=============================================================================
