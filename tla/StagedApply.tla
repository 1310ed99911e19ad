----------------------------- MODULE StagedApply -----------------------------
(***************************************************************************)
(* The staged apply: the buffer edits wait in, and the restore lane that     *)
(* writes them into the daemon's configuration file and restarts it on them. *)
(*                                                                          *)
(* One pass of the lane reads a backup of the running configuration, builds  *)
(* an archive of it with the edits folded in, posts it, and reads backups    *)
(* until the edits show; up to Passes passes make an apply.  The engine      *)
(* attributes of the hardware card go the same way in a single pass.         *)
(*                                                                          *)
(* Nothing keeps the rest of the program still meanwhile: the buffer, the    *)
(* parked filter uploads, the live settings and the other lane may all move  *)
(* between two awaits.  Which of them do is a matter of the constants.       *)
(***************************************************************************)
EXTENDS Naturals

CONSTANTS
    Requests,      \* applies that may be under way at once
    Fields,        \* configuration fields
    LiveDomain,    \* fields the running engine holds apart from the file
    Device,        \* the field naming the output endpoint
    Values,        \* values of any field
    Factory,       \* the configuration the daemon starts with
    Uploads,       \* filter files that can be parked
    None,          \* not staged, not edited, no archive
    Passes,        \* _PERSIST_RETRIES + 1
    EditsMeanwhile, LiveMeanwhile, \* staging, live writes go on during an apply
    MaxStages, MaxLive, MaxLost, MaxDeaf, MaxEndpoints \* bounds on the environment

ASSUME FieldsAssumption == LiveDomain \subseteq Fields /\ Device \in Fields \ LiveDomain
ASSUME ValuesAssumption == Factory \in [Fields -> Values] /\ None \notin Values
ASSUME PassesAssumption == Passes \in Nat \ {0}
ASSUME SwitchesAssumption == EditsMeanwhile \in BOOLEAN /\ LiveMeanwhile \in BOOLEAN
ASSUME BoundsAssumption ==
    {MaxStages, MaxLive, MaxLost, MaxDeaf, MaxEndpoints} \subseteq Nat

VARIABLES
    file, engine, up,  \* the daemon: working configuration, live values, serving
    offered, form,     \* endpoints it offers; the manager's snapshot of them
    shipped,           \* filter files on the daemon's disk
    staged, parked,    \* PendingStore; FilterPark
    known,             \* Readings: the live values as last read, None when forgotten
    archive,           \* pre-apply-settings.zip
    at, kind, tries,   \* per request: where it awaits, which lane, its pass
    edits, merged,     \* per request: what was asked, and with what rides along
    base, carried,     \* per request: the backup its archive is built on, its uploads
    verdict, result,   \* per request: the last judged pass; the answer
    landed,            \* history: staged values the file has held
    chosen,            \* history: the live values the user last settled on, None if unclear
    before,            \* history: per request, the file when it began
    spent              \* environment steps against their bounds

daemonVars == <<file, engine, up, offered, shipped>>
bufferVars == <<staged, parked>>
requestVars == <<at, kind, tries, edits, merged, base, carried, verdict, result, before>>
vars == <<daemonVars, form, bufferVars, known, archive, requestVars, landed, chosen, spent>>

Config == [Fields -> Values]
Edits == [Fields -> Values \cup {None}]
NoEdits == [f \in Fields |-> None]

Bounded == {"stages", "live", "lost", "deaf", "endpoints"}
Budget == [stages |-> MaxStages, live |-> MaxLive, lost |-> MaxLost, deaf |-> MaxDeaf, endpoints |-> MaxEndpoints]

Places == {"idle", "waiting", "posting", "verifying", "settling"}
Verdicts == {"none", "converged", "diverged", "gone"}
Results == {"none", "applied", "unconverged", "unavailable", "failed", "declined"}
Readings == [LiveDomain -> Values \cup {None}]

DaemonType ==
    /\ file \in Config /\ engine \in [LiveDomain -> Values] /\ up \in BOOLEAN
    /\ offered \subseteq Values /\ shipped \subseteq Uploads
ManagerType ==
    /\ form \subseteq Values /\ staged \in Edits /\ parked \subseteq Uploads
    /\ known \in Readings /\ archive \in Config \cup {None}
RequestType ==
    /\ at \in [Requests -> Places] /\ kind \in [Requests -> {"staged", "engine"}]
    /\ tries \in [Requests -> 0..Passes]
    /\ edits \in [Requests -> Edits] /\ merged \in [Requests -> Edits]
    /\ base \in [Requests -> Config \cup {None}] /\ carried \in [Requests -> SUBSET Uploads]
    /\ verdict \in [Requests -> Verdicts] /\ result \in [Requests -> Results]
HistoryType ==
    /\ before \in [Requests -> Config \cup {None}]
    /\ landed \subseteq Fields \X Values /\ chosen \in Readings
    /\ spent \in [Bounded -> Nat] /\ \A k \in Bounded : spent[k] <= Budget[k]

\* Every variable of the buffer, its lanes and the daemon keeps its type.
TypeOK == DaemonType /\ ManagerType /\ RequestType /\ HistoryType

Live(c) == [f \in LiveDomain |-> c[f]]
Overlay(c, e) == [f \in Fields |-> IF e[f] = None THEN c[f] ELSE e[f]]
Matches(c, e) == \A f \in Fields : e[f] \in {None, c[f]}

Init ==
    /\ file = Factory /\ engine = Live(Factory) /\ up = TRUE
    /\ offered = Values /\ form = Values /\ shipped = {}
    /\ staged = NoEdits /\ parked = {} /\ known = Live(Factory) /\ archive = None
    /\ at = [r \in Requests |-> "idle"] /\ kind = [r \in Requests |-> "staged"]
    /\ tries = [r \in Requests |-> 0]
    /\ edits = [r \in Requests |-> NoEdits] /\ merged = [r \in Requests |-> NoEdits]
    /\ base = [r \in Requests |-> None] /\ carried = [r \in Requests |-> {}]
    /\ verdict = [r \in Requests |-> "none"] /\ result = [r \in Requests |-> "none"]
    /\ before = [r \in Requests |-> None]
    /\ landed = {} /\ chosen = Live(Factory)
    /\ spent = [k \in Bounded |-> 0]

Quiescent == \A r \in Requests : at[r] = "idle"
Spend(k) == spent[k] < Budget[k] /\ spent' = [spent EXCEPT ![k] = @ + 1]

-----------------------------------------------------------------------------
(* The buffer.                                                              *)

\* A value staged for a field; None is an edit reported clean.
Stage(f, v) ==
    /\ EditsMeanwhile \/ Quiescent
    /\ Spend("stages") /\ staged' = [staged EXCEPT ![f] = v]
    /\ landed' = {p \in landed : p[1] # f} \cup (IF v = file[f] THEN {<<f, v>>} ELSE {})
    /\ UNCHANGED <<daemonVars, form, parked, known, archive, requestVars, chosen>>

\* An upload is parked until an apply ships it.
Park(u) ==
    /\ EditsMeanwhile \/ Quiescent
    /\ Spend("stages") /\ parked' = parked \cup {u} /\ shipped' = shipped \ {u}
    /\ UNCHANGED <<file, engine, up, offered, form, staged, known, archive, requestVars, landed, chosen>>

Discard ==
    /\ EditsMeanwhile \/ Quiescent
    /\ Spend("stages") /\ staged' = NoEdits /\ parked' = {}
    /\ UNCHANGED <<daemonVars, form, known, archive, requestVars, landed, chosen>>

-----------------------------------------------------------------------------
(* The two lanes.                                                           *)

\* carried_live_fields rides along: the live settings as last read, under the edits.
Merged(e) == [f \in Fields |-> IF e[f] = None /\ f \in LiveDomain THEN known[f] ELSE e[f]]

\* What the user hears and has been shown: nothing where the readings are of an
\* engine a failed apply has replaced since.
Heard == [f \in LiveDomain |-> IF known[f] \in {None, engine[f]} THEN engine[f] ELSE None]

Begin(r, k, e, passes) ==
    /\ at[r] = "idle"
    /\ at' = [at EXCEPT ![r] = "waiting"] /\ kind' = [kind EXCEPT ![r] = k]
    /\ tries' = [tries EXCEPT ![r] = passes]
    /\ edits' = [edits EXCEPT ![r] = e] /\ merged' = [merged EXCEPT ![r] = Merged(e)]
    /\ verdict' = [verdict EXCEPT ![r] = "none"] /\ result' = [result EXCEPT ![r] = "none"]
    /\ before' = [before EXCEPT ![r] = file]
    /\ chosen' = IF Quiescent THEN Heard ELSE chosen
    /\ UNCHANGED <<daemonVars, form, bufferVars, known, archive, base, carried, landed, spent>>

\* POST /api/config/apply, for a batch the restore lane has to carry.
Apply(r) == staged # NoEdits /\ Begin(r, "staged", staged, Passes)

\* The hardware card: one field, one pass, no buffer.
ApplyEngine(r, f, v) ==
    f \notin LiveDomain \cup {Device} /\ Begin(r, "engine", [NoEdits EXCEPT ![f] = v], 1)

\* The request is over.
Answer(r, how) ==
    /\ at' = [at EXCEPT ![r] = "idle"] /\ result' = [result EXCEPT ![r] = how]
    /\ UNCHANGED <<kind, tries, edits, merged, base, carried, verdict, before>>

\* Mutant: the archive takes the edits asked for and nothing that rides along.
FetchUncarried(r) ==
    /\ at[r] = "waiting" /\ up
    /\ at' = [at EXCEPT ![r] = "posting"]
    /\ base' = [base EXCEPT ![r] = file] /\ archive' = file
    /\ carried' = [carried EXCEPT ![r] = {}]
    /\ merged' = IF kind[r] = "engine" THEN [merged EXCEPT ![r] = edits[r]] ELSE merged
    /\ UNCHANGED <<daemonVars, form, bufferVars, known, kind, tries, edits, verdict, result, before,
                   landed, chosen, spent>>

\* The web port is waited for, the backup fetched and put on disk; the archive is
\* built from it with the edits and the parked uploads.
Fetch(r) ==
    /\ at[r] = "waiting" /\ up
    /\ at' = [at EXCEPT ![r] = "posting"]
    /\ base' = [base EXCEPT ![r] = file] /\ archive' = file
    /\ carried' = [carried EXCEPT ![r] = IF kind[r] = "staged" THEN parked ELSE {}]
    /\ merged' = IF kind[r] = "engine" THEN [merged EXCEPT ![r] = Merged(edits[r])] ELSE merged
    /\ UNCHANGED <<daemonVars, form, bufferVars, known, kind, tries, edits, verdict, result, before,
                   landed, chosen, spent>>

\* The backup cannot be put on disk, or turns out there to be nothing an archive
\* can be built on: nothing is posted.
FetchUnusable(r) ==
    /\ at[r] = "waiting" /\ up /\ Answer(r, "failed")
    /\ archive' \in {archive, file, None}
    /\ UNCHANGED <<daemonVars, form, bufferVars, known, landed, chosen, spent>>

\* Mutant: passes that are not counted.
NextPassUncounted(r, v) ==
    /\ verdict' = [verdict EXCEPT ![r] = v] /\ at' = [at EXCEPT ![r] = "waiting"]
    /\ UNCHANGED <<tries, result, kind, edits, merged, base, carried, before>>

\* A pass is over without a final verdict: another one, or the answer.
NextPass(r, v) ==
    /\ verdict' = [verdict EXCEPT ![r] = v]
    /\ IF tries[r] > 1
       THEN /\ tries' = [tries EXCEPT ![r] = @ - 1] /\ at' = [at EXCEPT ![r] = "waiting"]
            /\ UNCHANGED result
       ELSE /\ at' = [at EXCEPT ![r] = "idle"] /\ UNCHANGED tries
            /\ result' = [result EXCEPT ![r] = IF v = "none" THEN "failed" ELSE "unconverged"]
    /\ UNCHANGED <<kind, edits, merged, base, carried, before>>

\* A wire error before the daemon took anything: the pass is lost, and what an
\* earlier one found stands.
WireFails(r) ==
    /\ at[r] \in {"waiting", "posting"} /\ Spend("lost")
    /\ NextPass(r, verdict[r])
    /\ UNCHANGED <<daemonVars, form, bufferVars, known, archive, landed, chosen>>

\* The backup is refused while the daemon is away: same, without an end in sight
\* but the passes.
NeverServed(r) ==
    /\ at[r] = "waiting" /\ ~up /\ NextPass(r, verdict[r])
    /\ UNCHANGED <<daemonVars, form, bufferVars, known, archive, landed, chosen, spent>>

\* The password is refused: no further pass.
Refused(r) ==
    /\ at[r] \in {"waiting", "posting"} /\ up /\ Answer(r, "declined")
    /\ UNCHANGED <<daemonVars, form, bufferVars, known, archive, landed, chosen, spent>>

\* Mutant: the archive is a rebuild of the stored configuration.
AdoptRebuilt(r, deaf) ==
    /\ file' = [f \in Fields |-> IF f \in deaf THEN base[r][f] ELSE Overlay(Factory, merged[r])[f]]
    /\ engine' = Live(file') /\ up' = FALSE /\ shipped' = shipped \cup carried[r]
    /\ landed' = landed \cup {<<f, file'[f]>> : f \in Fields}

\* The daemon takes the archive and goes down to come back on it.  An endpoint it
\* no longer offers, and now and then a field besides, stays as it was.
Adopt(r, deaf) ==
    /\ file' = [f \in Fields |-> IF f \in deaf THEN base[r][f] ELSE Overlay(base[r], merged[r])[f]]
    /\ engine' = Live(file') /\ up' = FALSE /\ shipped' = shipped \cup carried[r]
    /\ landed' = landed \cup {<<f, file'[f]>> : f \in Fields}

Untakeable(r) == IF merged[r][Device] \in offered \cup {None} THEN {} ELSE {Device}

Post(r) ==
    /\ at[r] = "posting" /\ up
    /\ \E deaf \in SUBSET Fields :
          /\ IF deaf = {} THEN UNCHANGED spent ELSE Spend("deaf")
          /\ Adopt(r, deaf \cup Untakeable(r))
    /\ at' = [at EXCEPT ![r] = "verifying"]
    /\ UNCHANGED <<offered, form, bufferVars, known, archive, kind, tries, edits, merged, base, carried,
                   verdict, result, before, chosen>>

\* The daemon takes the archive and dies before it answers.
PostUnanswered(r) ==
    /\ at[r] = "posting" /\ up /\ Spend("lost")
    /\ Adopt(r, Untakeable(r)) /\ NextPass(r, verdict[r])
    /\ UNCHANGED <<offered, form, bufferVars, known, archive, chosen>>

\* What a lane holds itself to: everything merged, or its own attributes.
Asked(r) == IF kind[r] = "staged" THEN merged[r] ELSE edits[r]

\* A backup read in time shows the edits: nothing more to wait for but the restart.
Converges(r) ==
    /\ at[r] = "verifying" /\ up /\ Matches(file, Asked(r))
    /\ verdict' = [verdict EXCEPT ![r] = "converged"] /\ at' = [at EXCEPT ![r] = "settling"]
    /\ UNCHANGED <<daemonVars, form, bufferVars, known, archive, kind, tries, edits, merged, base, carried,
                   result, before, landed, chosen, spent>>

\* The window closes on a backup that differs, or with none read.  The staged lane
\* ends there if its endpoint is not among those offered, by the snapshot as
\* refreshed or as it was; the hardware card has its answer either way.
Diverges(r) ==
    /\ at[r] = "verifying"
    /\ \E seen \in BOOLEAN, fresh \in {form} \cup (IF up THEN {offered} ELSE {}) :
          /\ form' = fresh
          /\ seen => ~Matches(file, Asked(r))
          /\ LET gone == /\ merged[r][Device] \notin fresh \cup {None}
                         /\ seen => file[Device] # merged[r][Device]
             IN  IF kind[r] = "engine" \/ gone
                 THEN /\ verdict' = [verdict EXCEPT ![r] = IF kind[r] = "engine" THEN "diverged" ELSE "gone"]
                      /\ at' = [at EXCEPT ![r] = "settling"]
                      /\ UNCHANGED <<kind, tries, edits, merged, base, carried, result, before>>
                 ELSE NextPass(r, "diverged")
    /\ UNCHANGED <<daemonVars, bufferVars, known, archive, landed, chosen, spent>>

Settled(r) == CASE verdict[r] = "converged" -> "applied"
                [] verdict[r] = "diverged" -> "unconverged"
                [] OTHER -> "unavailable"

\* The readings after resync_engine_state: forgotten, and read again if there is
\* anything to read them from.
Resynced == IF up THEN engine ELSE [f \in LiveDomain |-> None]

\* Mutant: an apply that comes to any verdict lets go of the uploads and the edits.
FinishRegardless(r) ==
    /\ at[r] = "settling"
    /\ Answer(r, Settled(r))
    /\ known' = Resynced /\ parked' = {} /\ staged' = NoEdits
    /\ UNCHANGED <<daemonVars, form, archive, landed, chosen, spent>>

\* The restart is waited out.  A converged apply reads the engine afresh, lets go
\* of the uploads and clears the buffer; a staged one that is not leaves them be.
Finish(r) ==
    /\ at[r] = "settling"
    /\ Answer(r, Settled(r))
    /\ known' = IF verdict[r] = "converged" \/ kind[r] = "engine" THEN Resynced ELSE known
    /\ chosen' = IF verdict[r] # "converged" THEN chosen
                 ELSE [f \in LiveDomain |-> IF edits[r][f] = None THEN chosen[f] ELSE edits[r][f]]
    /\ IF verdict[r] = "converged" /\ kind[r] = "staged"
       THEN parked' = {} /\ staged' = NoEdits
       ELSE UNCHANGED bufferVars
    /\ UNCHANGED <<daemonVars, form, archive, landed, spent>>

-----------------------------------------------------------------------------
(* Everything else that moves.                                              *)

\* A live write reaches the engine alone, and is read back.
LiveWrite(f, v) ==
    /\ LiveMeanwhile \/ Quiescent
    /\ up /\ Spend("live")
    /\ engine' = [engine EXCEPT ![f] = v] /\ known' = engine'
    /\ chosen' = [chosen EXCEPT ![f] = v]
    /\ UNCHANGED <<file, up, offered, form, shipped, bufferVars, archive, requestVars, landed>>

Poll ==
    /\ up /\ known' = engine /\ form' = offered
    /\ UNCHANGED <<daemonVars, bufferVars, archive, requestVars, landed, chosen, spent>>

ComesUp ==
    /\ ~up /\ up' = TRUE
    /\ UNCHANGED <<file, engine, offered, shipped, form, bufferVars, known, archive, requestVars, landed, chosen, spent>>

EndpointChanges ==
    /\ Spend("endpoints") /\ \E v \in Values : offered' = IF v \in offered THEN offered \ {v} ELSE offered \cup {v}
    /\ UNCHANGED <<file, engine, up, shipped, form, bufferVars, known, archive, requestVars, landed, chosen>>

-----------------------------------------------------------------------------

Advance(r) ==
    \/ Fetch(r) \/ FetchUnusable(r) \/ WireFails(r) \/ NeverServed(r) \/ Refused(r)
    \/ Post(r) \/ PostUnanswered(r) \/ Converges(r) \/ Diverges(r) \/ Finish(r)

User ==
    \/ \E f \in Fields, v \in Values \cup {None} : Stage(f, v)
    \/ \E u \in Uploads : Park(u)
    \/ Discard
    \/ \E f \in LiveDomain, v \in Values : LiveWrite(f, v)

Next ==
    \/ \E r \in Requests :
          \/ Apply(r) \/ Advance(r)
          \/ \E f \in Fields, v \in Values : ApplyEngine(r, f, v)
    \/ User \/ Poll \/ ComesUp \/ EndpointChanges

Spec == Init /\ [][Next]_vars
FairSpec == Spec /\ WF_vars(ComesUp) /\ \A r \in Requests : WF_vars(Advance(r))

-----------------------------------------------------------------------------

\* The apply route clears the buffer "only if all of it took": a staged value that
\* leaves it other than by the user's hand has been in the daemon's file since it
\* was staged.
NothingDropped ==
    [][User \/ \A f \in Fields : staged[f] \in {None, staged'[f]} \/ <<f, staged[f]>> \in landed]_vars

\* clear_parked_filters lets go of an upload only once an apply has shipped it.
UploadsShip == [][User \/ parked \ parked' \subseteq shipped]_vars

\* "Incremental against the running config": a field changes only to a value some
\* posting request was asked for or carries for it.
UntouchedSurvives ==
    [][\A f \in Fields : file'[f] # file[f] => \E r \in Requests : at[r] = "posting" /\ merged[r][f] = file'[f]]_vars

\* "What the user is hearing is what the restart has to come back on": after an
\* applied request the engine plays what was chosen for it, file or live.
PlaysAsChosen ==
    /\ Quiescent /\ up
    /\ \E r \in Requests : result[r] = "applied"
    /\ \A r \in Requests : result[r] \in {"none", "applied"}
    => \A f \in LiveDomain : chosen[f] \in {None, engine[f]}

\* persist_backup_for_restore: the copy on disk is the configuration the next post
\* is about to overwrite.
BackupIsCurrent == \A r \in Requests : at[r] = "posting" => archive = file

\* _write_backup: a crash in the middle of an apply leaves the settings as they
\* were before it.
BackupPredatesApply ==
    \A r \in Requests : at[r] \in {"posting", "verifying", "settling"} => archive = before[r]

\* However the daemon fares, an apply comes to an answer.
AppliesReturn == \A r \in Requests : at[r] # "idle" ~> at[r] = "idle"
=============================================================================
