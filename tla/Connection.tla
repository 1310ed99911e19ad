------------------------------ MODULE Connection ------------------------------
(***************************************************************************)
(* Moving HQPTuner to another daemon: from the settings panel that asks for *)
(* it to what the panel says came of it.                                    *)
(*                                                                          *)
(* A save travels to the server (POST /api/connection), which lays it into  *)
(* the live configuration, builds a client for the web port, takes the      *)
(* control connection down and tries the three web forms once.  The         *)
(* supervisor loop dials the new address by itself.  The panel judges the   *)
(* save from the answer to the POST and from health readings that arrive    *)
(* before, during and after it.                                             *)
(*                                                                          *)
(* The poll and the POST refresh the same readings, each through the client *)
(* it held when it began, and a daemon's ports come and go meanwhile.       *)
(***************************************************************************)
EXTENDS Naturals, Sequences

CONSTANTS
    Hosts,      \* addresses
    FirstHost,  \* the one in force when the process starts
    FirstPasswords, FirstWebs, \* credentials, and web ports open, it may start with
    Passwords,  \* credentials that can be typed, one pair of name and password
    NoPassword, \* an install that stores none
    Accepts,    \* which credentials the daemon at an address takes
    Posts,      \* presses of Connect or Save that can be under way at once
    None,
    Getters,    \* web forms a refresh fetches; the first is /config
    MaxSaves,   \* bound: saves the user presses
    MaxTurns,   \* bound: times a port of a daemon opens or closes
    MaxFaults   \* bound: saves the store could not write

Credentials == Passwords \cup {NoPassword}
Verdicts == {"saved", "connecting", "refused", "no-8088", "no-answer", "unreachable"}

ASSUME NamesAssumption ==
    /\ NoPassword \notin Passwords /\ None \notin Hosts \cup Passwords \cup Verdicts
    /\ Accepts \subseteq Hosts \X Passwords
    /\ FirstHost \in Hosts /\ FirstPasswords \subseteq Credentials /\ \A ports \in FirstWebs : ports \subseteq Hosts
ASSUME LoopIsNoPost == "loop" \notin Posts
ASSUME BoundsAssumption ==
    Getters \in Nat \ {0} /\ {MaxSaves, MaxTurns, MaxFaults} \subseteq Nat

VARIABLES
    ctl, web,   \* hosts whose port 4321 answers, whose port 8088 answers
    pair,       \* cfg: the address and credentials in force
    clients,    \* HttpConfigClient objects in the order they were built
    current,    \* manager.http_client: index of one, or 0 for None
    readings,   \* credentials_ok, config_error, and whose page config_form is
    link,       \* manager._client: the host it is attached to, or None
    severed,    \* the daemon closed its end of it
    connected, httpOk,
    loop,       \* run: where it awaits, and the address it dials
    pass,       \* per refresher: its walk through forms.refresh, or None
    post,       \* per press: its way through the route, what it saves, its lane
    page,       \* the panel
    health,     \* the page's last reading
    laid,       \* history: the last save pressed is in force
    overtaken,  \* history: it was laid while something older was under way
    turned,     \* history: a daemon's port opened or closed since it was pressed
    saves, turns, faults

worldVars == <<ctl, web, turns>>
confVars == <<pair, clients, current, readings>>
linkVars == <<link, severed, connected, httpOk>>
pageVars == <<page, health>>
pastVars == <<laid, overtaken, turned>>
vars == <<worldVars, confVars, linkVars, loop, pass, post, pageVars, pastVars, saves, faults>>

Refreshers == Posts \cup {"loop"}
Connecting == {"dial", "about", "load", "loadRest"}
Polling == {"poll", "forms", "caps"}
Lanes == {"no_credentials", "refused", "ok", "no_answer"}
Proofs == {"unknown", "accepted", "refused"}
Idle == [at |-> "idle", host |-> None, password |-> None, lane |-> None]
Unheard == [reachable |-> "unknown", ready |-> FALSE]
Reading == [reachable : {"yes", "no", "unknown"}, ready : BOOLEAN]

ClientType == [host : Hosts, password : Passwords, proof : Proofs]
PageType ==
    [verdict : Verdicts \cup {None}, awaiting : BOOLEAN, lane : Lanes \cup {None}, grace : BOOLEAN]
PostType ==
    [at : {"idle", "sent", "closing", "refresh", "answered"}, host : Hosts \cup {None},
     password : Passwords \cup {None}, lane : Lanes \cup {None}]
WorldType ==
    /\ ctl \subseteq Hosts /\ web \subseteq Hosts
    /\ saves \in 0..MaxSaves /\ turns \in Nat /\ faults \in Nat
    /\ laid \in BOOLEAN /\ overtaken \in BOOLEAN /\ turned \in BOOLEAN
PairType ==
    /\ pair \in [host : Hosts, password : Credentials]
    /\ clients \in Seq(ClientType) /\ current \in 0..Len(clients)
ReadingsType == readings \in [credentials : Proofs, error : BOOLEAN, from : 0..Len(clients)]
LinkType ==
    /\ link \in Hosts \cup {None} /\ severed \in BOOLEAN /\ connected \in BOOLEAN /\ httpOk \in BOOLEAN
    /\ loop \in [at : Connecting \cup Polling \cup {"idle"}, to : Hosts]
PassType == pass \in [Refreshers -> [via : 1..Len(clients), next : 1..Getters, all : BOOLEAN] \cup {None}]
PanelType == post \in [Posts -> PostType] /\ page \in PageType /\ health \in Reading

\* Every variable of the panel, the route, the loop and the daemons keeps its type.
TypeOK == WorldType /\ PairType /\ ReadingsType /\ LinkType /\ PassType /\ PanelType

\* build_http_client: no credentials, no client.
Built(p, made) ==
    IF p.password = NoPassword THEN made
    ELSE Append(made, [host |-> p.host, password |-> p.password, proof |-> "unknown"])

Init ==
    /\ ctl = Hosts /\ web \in FirstWebs /\ turns = 0
    /\ pair \in [host : {FirstHost}, password : FirstPasswords]
    /\ clients = Built(pair, <<>>) /\ current = Len(clients)
    /\ readings = [credentials |-> "unknown", error |-> FALSE, from |-> 0]
    /\ link = None /\ severed = FALSE /\ connected = FALSE /\ httpOk = FALSE
    /\ loop = [at |-> "dial", to |-> pair.host]
    /\ pass = [r \in Refreshers |-> None] /\ post = [p \in Posts |-> Idle]
    /\ page = [verdict |-> None, awaiting |-> FALSE, lane |-> None, grace |-> FALSE]
    /\ health = Unheard
    /\ laid = FALSE /\ overtaken = FALSE /\ turned = FALSE
    /\ saves = 0 /\ faults = 0

-----------------------------------------------------------------------------
(* forms.refresh, run by the loop and by each POST.                         *)

\* Mutant: a refresh goes through the client the process started with.
BegunStale == [via |-> 1, next |-> 1, all |-> TRUE]

\* The client in force when it begins is the one a refresh keeps to its end.
Begun == [via |-> current, next |-> 1, all |-> TRUE]

\* Mutant: the count alone, so that a refusal is told as silence.
OutcomeByCount(credentials, all) == IF all THEN "ok" ELSE "no_answer"

\* _outcome: a recorded refusal, this pass's or an older one, outranks the count.
Outcome(credentials, all) ==
    IF credentials = "refused" THEN "refused" ELSE IF all THEN "ok" ELSE "no_answer"

\* What the next form's request of refresher r proves of its client.
ProofOf(r) ==
    LET c == clients[pass[r].via] IN
    IF c.host \notin web THEN c.proof
    ELSE IF <<c.host, c.password>> \in Accepts THEN "accepted" ELSE "refused"

Served(r) == LET c == clients[pass[r].via] IN c.host \in web /\ <<c.host, c.password>> \in Accepts

\* The readings after that request: /config leaves a page or an error, and the
\* last form leaves the client's verdict on its credentials, if it has one.
Read(r) ==
    LET last == pass[r].next = Getters IN
    [credentials |-> IF last /\ ProofOf(r) # "unknown" THEN ProofOf(r) ELSE readings.credentials,
     error |-> IF pass[r].next = 1 THEN ~Served(r) ELSE readings.error,
     from |-> IF pass[r].next = 1 /\ Served(r) THEN pass[r].via ELSE readings.from]

GetsForm(r) ==
    /\ pass[r] # None
    /\ readings' = Read(r)
    /\ clients' = [clients EXCEPT ![pass[r].via].proof = ProofOf(r)]
    /\ IF pass[r].next < Getters
       THEN /\ pass' = [pass EXCEPT ![r].next = @ + 1, ![r].all = @ /\ Served(r)]
            /\ UNCHANGED <<loop, post>>
       ELSE /\ pass' = [pass EXCEPT ![r] = None]
            /\ IF r = "loop"
               THEN /\ loop' = [loop EXCEPT !.at = IF @ = "load" THEN "loadRest" ELSE "caps"]
                    /\ UNCHANGED post
               ELSE /\ post' = [post EXCEPT ![r].at = "answered",
                           ![r].lane = Outcome(readings'.credentials, pass[r].all /\ Served(r))]
                    /\ UNCHANGED loop
    /\ UNCHANGED <<worldVars, pair, current, linkVars, pageVars, pastVars, saves, faults>>

-----------------------------------------------------------------------------
(* The supervisor loop.                                                     *)

\* Mutant: the connection goes and the readiness of the one before it stays.
DroppedReady == link' = None /\ severed' = FALSE /\ UNCHANGED connected

\* _drop, the closing of the client included.
Dropped == link' = None /\ severed' = FALSE /\ connected' = FALSE

\* The control connection answers.
Alive == link \in ctl /\ ~severed

\* stamp_http_ok
Stamped == httpOk' = (current # 0 /\ ~readings.error)

Goes(place) == loop' = [loop EXCEPT !.at = place]
loopKept == <<worldVars, confVars, post, pageVars, pastVars, saves, faults>>

Dial ==
    /\ loop.at = "idle" /\ link = None
    /\ loop' = [at |-> "dial", to |-> pair.host]
    /\ UNCHANGED <<loopKept, linkVars, pass>>

\* The handshake attaches the client; the release page is read before the forms.
Attach ==
    /\ loop.at = "dial" /\ loop.to \in ctl
    /\ link' = loop.to /\ severed' = FALSE
    /\ Goes("about")
    /\ UNCHANGED <<loopKept, connected, httpOk, pass>>

DialFails ==
    /\ loop.at = "dial" /\ loop.to \notin ctl
    /\ Dropped /\ Goes("idle")
    /\ UNCHANGED <<loopKept, httpOk, pass>>

\* The connect body has run to its end; the first poll follows at once.
Completed == connected' = TRUE /\ Stamped /\ Goes("poll")

Load ==
    /\ loop.at = "about"
    /\ IF current = 0
       THEN Completed /\ UNCHANGED pass
       ELSE /\ Goes("load") /\ pass' = [pass EXCEPT !["loop"] = Begun]
            /\ UNCHANGED <<connected, httpOk>>
    /\ UNCHANGED <<loopKept, link, severed>>

Complete ==
    /\ loop.at = "loadRest" /\ Completed
    /\ UNCHANGED <<loopKept, link, severed, pass>>

Poll ==
    /\ loop.at = "idle" /\ link # None /\ Goes("poll")
    /\ UNCHANGED <<loopKept, linkVars, pass>>

\* The control half of a heartbeat is answered.
Heard ==
    /\ loop.at = "poll" /\ Alive
    /\ IF current = 0
       THEN Goes("caps") /\ UNCHANGED pass
       ELSE Goes("forms") /\ pass' = [pass EXCEPT !["loop"] = Begun]
    /\ UNCHANGED <<loopKept, linkVars>>

\* It is not, or there is nothing attached to ask: drop, and dial at once.
PollFails ==
    /\ loop.at = "poll" /\ ~Alive
    /\ Dropped /\ loop' = [at |-> "dial", to |-> pair.host]
    /\ UNCHANGED <<loopKept, httpOk, pass>>

PollEnds ==
    /\ loop.at = "caps" /\ Stamped /\ Goes("idle")
    /\ UNCHANGED <<loopKept, link, severed, connected, pass>>

LoopStep ==
    \/ Dial \/ Attach \/ DialFails \/ Load \/ Complete
    \/ Poll \/ Heard \/ PollFails \/ PollEnds
    \/ GetsForm("loop")

-----------------------------------------------------------------------------
(* POST /api/connection.                                                    *)

\* After retarget: the forms once through the client in force, if there is one.
Refreshing(p, cur) ==
    IF cur = 0
    THEN /\ post' = [post EXCEPT ![p].at = "answered", ![p].lane = "no_credentials"]
         /\ UNCHANGED pass
    ELSE /\ post' = [post EXCEPT ![p].at = "refresh"]
         /\ pass' = [pass EXCEPT ![p] = [via |-> cur, next |-> 1, all |-> TRUE]]

\* Something older that will still write: a connect body, or another POST's refresh.
UnderWay(p) ==
    loop.at \in Connecting \/ \E q \in Posts \ {p} : post[q].at \in {"closing", "refresh"}

\* The record is written, the pair put in force, a client built, the link dropped.
\* The drop awaits the closing of a client if there is one.
Lay(p) ==
    /\ post[p].at = "sent"
    /\ pair' = [host |-> post[p].host,
                password |-> IF post[p].password = None THEN pair.password ELSE post[p].password]
    /\ clients' = Built(pair', clients)
    /\ current' = IF pair'.password = NoPassword THEN 0 ELSE Len(clients')
    /\ Dropped
    /\ IF link = None
       THEN Refreshing(p, current')
       ELSE post' = [post EXCEPT ![p].at = "closing"] /\ UNCHANGED pass
    /\ laid' = TRUE /\ overtaken' = UnderWay(p)
    /\ UNCHANGED <<worldVars, readings, httpOk, loop, pageVars, turned, saves, faults>>

Refresh(p) ==
    /\ post[p].at = "closing" /\ Refreshing(p, current)
    /\ UNCHANGED <<worldVars, confVars, linkVars, loop, pageVars, pastVars, saves, faults>>

\* The store cannot be written: the route refuses before anything has moved, and
\* submitConnection ends in that exception.
Unwritable(p) ==
    /\ post[p].at = "sent" /\ faults < MaxFaults
    /\ faults' = faults + 1
    /\ post' = [post EXCEPT ![p] = Idle]
    /\ UNCHANGED <<worldVars, confVars, linkVars, loop, pass, pageVars, pastVars, saves>>

-----------------------------------------------------------------------------
(* The panel.                                                               *)

\* judgeSave: what one reading says about the save the panel reports on.  The
\* answer to the POST speaks for the credentials, the reading for the rest.
JudgedSave(pg, h) ==
    IF h.ready
    THEN [pg EXCEPT !.verdict = "saved", !.awaiting = FALSE]
    ELSE [pg EXCEPT !.verdict =
            CASE pg.lane = "refused" -> "refused"
              [] pg.lane # "refused" /\ h.reachable = "no" /\ pg.grace -> "unreachable"
              [] h.reachable = "yes" /\ pg.lane = "no_credentials" -> "no-8088"
              [] h.reachable = "yes" /\ pg.lane = "no_answer" -> "no-answer"
              [] OTHER -> "connecting"]

pageKept == <<worldVars, confVars, linkVars, loop, pass, faults>>

\* closeSetup, and the panel opened again: the save it reported on is forgotten.
Reopen ==
    /\ page.verdict # None
    /\ page' = [page EXCEPT !.awaiting = FALSE, !.verdict = None]
    /\ UNCHANGED <<pageKept, post, health, pastVars, saves>>

\* submitConnection up to its POST; a blank password is left out of it.
Submit(p, h, password) ==
    /\ post[p].at = "idle" /\ saves < MaxSaves
    /\ page' = [page EXCEPT !.verdict = "connecting", !.awaiting = TRUE]
    /\ post' = [post EXCEPT ![p] = [at |-> "sent", host |-> h, password |-> password, lane |-> None]]
    /\ saves' = saves + 1
    /\ laid' = FALSE /\ overtaken' = FALSE /\ turned' = FALSE
    /\ UNCHANGED <<pageKept, health>>

\* And from the answer on: the reading in hand is judged at once.
Answered(p) ==
    /\ post[p].at = "answered"
    /\ page' = JudgedSave([page EXCEPT !.grace = FALSE, !.lane = post[p].lane], health)
    /\ post' = [post EXCEPT ![p] = Idle]
    /\ UNCHANGED <<pageKept, health, pastVars, saves>>

\* GET /api/health.
Health ==
    [reachable |-> IF link # None THEN "yes" ELSE "no", ready |-> connected /\ httpOk]

HealthLands ==
    /\ health' = Health
    /\ page' = IF page.awaiting THEN JudgedSave(page, Health) ELSE page
    /\ UNCHANGED <<pageKept, post, pastVars, saves>>

\* GRACE_MS since the last answer to a save.
GraceEnds ==
    /\ page.awaiting /\ ~page.grace
    /\ page' = [page EXCEPT !.grace = TRUE]
    /\ UNCHANGED <<pageKept, post, health, pastVars, saves>>

-----------------------------------------------------------------------------
(* The daemons.                                                             *)

Toggled(ports, h) == IF h \in ports THEN ports \ {h} ELSE ports \cup {h}

Turn(h) ==
    /\ turns < MaxTurns /\ turns' = turns + 1
    /\ \/ ctl' = Toggled(ctl, h) /\ severed' = (severed \/ link = h) /\ UNCHANGED web
       \/ web' = Toggled(web, h) /\ UNCHANGED <<ctl, severed>>
    /\ turned' = TRUE
    /\ UNCHANGED <<confVars, link, connected, httpOk, loop, pass, post, pageVars, laid, overtaken,
                   saves, faults>>

UserStep ==
    \/ Reopen
    \/ \E p \in Posts, h \in Hosts, password \in Passwords \cup {None} : Submit(p, h, password)

RouteStep(p) == Lay(p) \/ Refresh(p) \/ GetsForm(p) \/ Answered(p)

Next ==
    \/ LoopStep
    \/ \E p \in Posts : RouteStep(p) \/ Unwritable(p)
    \/ UserStep
    \/ HealthLands
    \/ GraceEnds
    \/ \E h \in Hosts : Turn(h)

Spec == Init /\ [][Next]_vars

(* The event loop starves no ready task and every request has its timeout;  *)
(* the page polls on a timer and its clock runs.                            *)
Fairness ==
    /\ WF_vars(LoopStep)
    /\ \A p \in Posts : WF_vars(RouteStep(p))
    /\ WF_vars(HealthLands)
    /\ WF_vars(GraceEnds)

FairSpec == Spec /\ Fairness

-----------------------------------------------------------------------------
(* Properties.                                                              *)

\* submitConnection, judge: when a health reading makes the panel say that the save
\* worked, the control connection is to the address saved and the configuration
\* shown was read with the credentials saved.  Said of a save that is in force and
\* that nothing older was still writing over as it was laid.
SavedIsTrue ==
    [][page'.verdict = "saved" /\ page.verdict # "saved" /\ post' = post /\ laid /\ ~overtaken
        => link = pair.host /\ readings.from = current]_vars

\* The same of every save, and of the reading in hand at the answer (setup.js:278).
\* It does not hold: that reading may be from before the save.
SavedIsTrueAlways ==
    [][page'.verdict = "saved" /\ page.verdict # "saved" => link = pair.host]_vars

\* What a verdict on a save that has not worked says of the daemon it went to.  A
\* refusal on record outranks a port that has fallen silent, so that "refused" is
\* held true where nothing answers.
Apt(verdict) ==
    CASE verdict = "refused" -> pair.host \in web => <<pair.host, pair.password>> \notin Accepts
      [] verdict = "unreachable" -> pair.host \notin ctl
      [] verdict = "no-8088" -> pair.password = NoPassword
      [] verdict = "no-answer" -> pair.host \in ctl /\ pair.host \notin web
      [] OTHER -> FALSE

\* The panel waits for a verdict on a save in force, and no port has moved since.
Judging ==
    page.awaiting /\ laid /\ ~overtaken /\ ~turned /\ \A p \in Posts : post[p].at = "idle"

\* judgeSave: a panel that waits comes to a verdict, "saved" which ends the waiting
\* or one that is true of the daemon.  It does not stay at "Connecting", and it does
\* not stay at a reason that is not the reason.
VerdictComesTrue == []<>(Judging => Apt(page.verdict))

\* closeSetup: a panel that reports on nothing does not say it is connecting.  It
\* does not hold of a panel closed and opened again while its POST is under way.
NeverLeftConnecting ==
    []<>((\A p \in Posts : post[p].at = "idle") => ~(page.verdict = "connecting" /\ ~page.awaiting))

\* forms.refresh, _record_credentials: however the refreshes of old and new clients
\* overlap, with both ports of the daemon open the readings end up being those of
\* the pair in force: its page or its refusal, and its verdict on the credentials.
ReadingsFollow ==
    <>[](pair.host \in ctl /\ pair.host \in web /\ current # 0 =>
           IF <<pair.host, pair.password>> \in Accepts
           THEN readings.credentials = "accepted" /\ readings.from = current /\ ~readings.error
           ELSE readings.credentials = "refused" /\ readings.error)
=============================================================================
