----------------------------- MODULE Supervisor -----------------------------
(***************************************************************************)
(* The supervisor loop of HQPTuner and the restart wait that rides on it.   *)
(*                                                                          *)
(* One loop (ConnectionManager.run) dials the daemon's control port, takes  *)
(* the handshake, fills the readings over the web port, and from then on    *)
(* polls.  Write lanes run beside it on the same event loop: each posts a   *)
(* settings archive that makes the daemon restart, drops the control        *)
(* connection the restart is about to kill, and waits for a connection made *)
(* after the restart (settle.restore, settle.await_ready).  A settings      *)
(* route may move the whole thing to another address while it runs.         *)
(*                                                                          *)
(* A step here is the code between two awaits: everything the event loop    *)
(* runs without giving another task a turn is one action.  A drop is two:   *)
(* it clears the flags, awaits the close of the client, and only then lets   *)
(* go of the client, so that a link half torn down can be read in between.   *)
(***************************************************************************)
EXTENDS Naturals

CONSTANTS
    Hosts,           \* the addresses a daemon can be configured at
    FirstHost,       \* the address in force when the process starts
    Lanes,           \* write lanes, each running one restore
    None,            \* no client, no mark, no adopting instance
    MaxEpoch,        \* bound: restarts of one daemon
    MaxRefusals,     \* bound: refused dials since the last completed connect
    MaxFaults,       \* bound: wire faults while the daemon instance stands
    MaxRetargets,    \* bound: POST /api/connection calls
    BackupMayGarble, \* a starting web server may answer /backup with no zip
    OutageIsMet      \* an outage outlasts the loop's next attempt on it

ASSUME HostsAssumption == FirstHost \in Hosts /\ None \notin Hosts
ASSUME BoundsAssumption ==
    /\ MaxEpoch \in Nat /\ MaxRefusals \in Nat
    /\ MaxFaults \in Nat /\ MaxRetargets \in Nat
ASSUME SwitchesAssumption == BackupMayGarble \in BOOLEAN /\ OutageIsMet \in BOOLEAN

(* A run of a daemon: which address it answers at, and how many times the   *)
(* daemon there had restarted when it came up.                              *)
Instance == [host : Hosts, epoch : Nat]
Mark == [connects : Nat, drops : Nat]
ASSUME NoneAssumption == None \notin Instance /\ None \notin Mark

VARIABLES
    ctl, web,        \* hosts whose port 4321 is open; per host, port 8088
    epoch,           \* per host: restarts so far
    adopted,         \* hosts that took a restore whose restart is still due
    unmet,           \* the configured host went down and no attempt met that yet
    host,            \* cfg.hqp_host, and the address http_client was built for
    client,          \* ConnectionManager._client: the instance dialled, or None
    reachable, connected,
    connects, drops, dropsAtConnect,
    configOk, httpOk, \* readings.config_error is None; readings.http_ok
    wake,            \* ConnectionManager._wake
    pc, conn, target, \* the loop: where it awaits, on which connection, to whom
    route,           \* POST /api/connection: idle, closing the old connection, or
                     \*   inside its own refresh
    phase, mark,     \* per lane: progress through settle, and its mark_connect
    served, muddied, \* history: per lane, the instance its restore went to, and
                     \*   the lanes with a counted drop ahead of that restart
    faults, retargets \* environment steps spent against their bounds

daemonVars == <<ctl, web, epoch, adopted, unmet>>
linkVars == <<client, reachable, connected, drops>>
countVars == <<connects, dropsAtConnect>>
httpVars == <<configOk, httpOk>>
loopVars == <<pc, conn, target>>
laneVars == <<phase, mark, served, muddied>>
budgetVars == <<faults, retargets>>
vars == <<daemonVars, host, linkVars, countVars, httpVars, wake, loopVars,
          route, laneVars, budgetVars>>

WebStates == {"down", "starting", "up"}
Connecting == {"dial", "shake", "forms", "files"}
Polling == {"poll", "pollForms", "pollCaps"}
Idling == {"idle", "retry"}
InFlight == {"marked", "posting", "adopted", "closing", "returned", "asleep", "woken"}
Finished == {"ready", "timeout", "nothing", "failed"}
Phases == {"idle"} \cup InFlight \cup Finished
Places == Connecting \cup Polling \cup Idling \cup {"closing"}

FlagType == {unmet, reachable, connected, configOk, httpOk, wake} \subseteq BOOLEAN
DaemonType ==
    /\ ctl \subseteq Hosts /\ web \in [Hosts -> WebStates]
    /\ epoch \in [Hosts -> Nat] /\ adopted \subseteq Hosts
LinkType ==
    /\ client \in Instance \cup {None}
    /\ connects \in Nat /\ drops \in Nat /\ dropsAtConnect \in Nat
LoopType ==
    /\ pc \in Places /\ conn \in Instance \cup {None} /\ target \in Hosts
    /\ host \in Hosts /\ route \in {"idle", "closing", "refresh"}
LaneType ==
    /\ phase \in [Lanes -> Phases]
    /\ mark \in [Lanes -> Mark \cup {None}]
    /\ served \in [Lanes -> Instance \cup {None}]
    /\ muddied \subseteq Lanes
\* Every variable of the loop, its lanes and the daemons keeps its type.
TypeOK ==
    /\ FlagType /\ DaemonType /\ LinkType /\ LoopType /\ LaneType
    /\ faults \in Nat /\ retargets \in Nat

Init ==
    /\ ctl = Hosts /\ web = [h \in Hosts |-> "up"]
    /\ epoch = [h \in Hosts |-> 0] /\ adopted = {}
    /\ unmet = FALSE /\ host = FirstHost
    /\ client = None /\ reachable = FALSE /\ connected = FALSE
    /\ connects = 0 /\ drops = 0 /\ dropsAtConnect = 0
    /\ configOk = TRUE /\ httpOk = FALSE /\ wake = FALSE
    /\ pc = "dial" /\ conn = None /\ target = FirstHost
    /\ route = "idle"
    /\ phase = [l \in Lanes |-> "idle"] /\ mark = [l \in Lanes |-> None]
    /\ served = [l \in Lanes |-> None] /\ muddied = {}
    /\ faults = 0 /\ retargets = 0

-----------------------------------------------------------------------------
(* What the code computes without awaiting.                                 *)

Ready == connected /\ httpOk

\* A connection answers while the instance it was made to still runs.
Alive(c) == c # None /\ epoch[c.host] = c.epoch

\* `changed.set()`: every wait asleep on the event gets a turn.
Woken(ph) == [l \in Lanes |-> IF ph[l] = "asleep" THEN "woken" ELSE ph[l]]

\* The instance that took lane l's restore has gone away.
RestartLanded(l) == served[l] # None /\ epoch[served[l].host] > served[l].epoch

\* A counted drop is evidence of a restart only once that restart happened.
Muddying == muddied \cup {l \in Lanes : phase[l] \in InFlight /\ ~RestartLanded(l)}

\* A task is inside `_drop`, awaiting the close of the client still attached.
\* Each of them forgets the client when it resumes, whoever did so before.
Closing == pc = "closing" \/ route = "closing" \/ \E l \in Lanes : phase[l] = "closing"

\* `_drop` up to its await: nothing reads as reachable or connected from here on,
\* and the drop counts as the daemon going away.
CountedDrop ==
    /\ drops' = drops + 1
    /\ reachable' = FALSE /\ connected' = FALSE
    /\ unmet' = FALSE
    /\ muddied' = Muddying

\* The drop `restarting` asks for, which is not evidence.
OwnDrop ==
    /\ reachable' = FALSE /\ connected' = FALSE
    /\ UNCHANGED <<drops, unmet, muddied>>

\* The top of the loop: dial when there is no client, else start a poll.
EnterLoop(c) ==
    IF c = None
    THEN pc' = "dial" /\ target' = host /\ conn' = None
    ELSE pc' = "poll" /\ conn' = c /\ UNCHANGED target

\* What GET /config can answer at an address: a web server still starting may
\* or may not serve the page yet.
ConfigAnswers(h) == {ok \in BOOLEAN : (ok => web[h] # "down") /\ (~ok => web[h] # "up")}

-----------------------------------------------------------------------------
(* The connect body.                                                        *)

\* The tasks that await one close are resumed in one pass of the event loop, so
\* they are all through before a dial begun by the first of them is answered.
DialAnswered ==
    /\ pc = "dial" /\ target \in ctl /\ ~Closing
    /\ conn' = [host |-> target, epoch |-> epoch[target]] /\ pc' = "shake"
    /\ UNCHANGED <<target, daemonVars, host, linkVars, countVars, httpVars, wake,
                   route, laneVars, budgetVars>>

\* A connect or handshake that meets a wire fault: drop, then idle a retry.  No
\* client is attached yet, so there is none to close.
ConnectFails ==
    /\ CountedDrop /\ phase' = Woken(phase)
    /\ pc' = "retry" /\ conn' = None
    /\ UNCHANGED <<client, target, ctl, web, epoch, adopted, host, countVars, httpVars, wake,
                   route, mark, served, retargets>>

DialRefused ==
    /\ pc = "dial" /\ target \notin ctl
    /\ unmet \/ drops < dropsAtConnect + MaxRefusals
    /\ ConnectFails /\ UNCHANGED faults

HandshakeFails ==
    /\ pc = "shake" /\ ~Alive(conn)
    /\ ConnectFails /\ UNCHANGED faults

\* A timeout or a refused command: the daemon stands, this connect does not.
ConnectFault ==
    /\ pc \in {"dial", "shake"} /\ faults < MaxFaults
    /\ faults' = faults + 1
    /\ ConnectFails

HandshakeAnswered ==
    /\ pc = "shake" /\ Alive(conn)
    /\ client' = conn /\ reachable' = TRUE
    /\ pc' = "forms" /\ target' = host
    /\ UNCHANGED <<conn, daemonVars, host, connected, drops, countVars, httpVars, wake,
                   route, laneVars, budgetVars>>

\* The three web forms of the connect body, fetched at the address captured.
ConnectForms ==
    /\ pc = "forms"
    /\ configOk' \in ConfigAnswers(target)
    /\ pc' = "files"
    /\ UNCHANGED <<conn, target, daemonVars, host, linkVars, countVars, httpOk, wake,
                   route, laneVars, budgetVars>>

\* Mutant: the end of the body publishes `reachable` again, over whatever is attached.
ConnectDoneReachable ==
    /\ pc = "files"
    /\ httpOk' = configOk
    /\ dropsAtConnect' = drops /\ connects' = connects + 1
    /\ phase' = Woken(phase)
    /\ IF client # None
       THEN /\ connected' = TRUE /\ reachable' = TRUE /\ UNCHANGED <<drops, unmet, muddied>>
            /\ EnterLoop(client)
       ELSE CountedDrop /\ EnterLoop(None)
    /\ UNCHANGED <<client, ctl, web, epoch, adopted, host, configOk, wake, route, mark, served, budgetVars>>

\* The archive came back readable, or not at all: the body runs to its end and
\* the poll starts in the same turn, on the client or on finding there is none.
\* A client that POST /api/connection is just closing is still attached: the body
\* publishes `connected` over it, and the poll finds out.
ConnectDone ==
    /\ pc = "files"
    /\ httpOk' = configOk
    /\ dropsAtConnect' = drops /\ connects' = connects + 1
    /\ phase' = Woken(phase)
    /\ IF client # None
       THEN /\ connected' = TRUE /\ UNCHANGED <<reachable, drops, unmet, muddied>>
            /\ EnterLoop(client)
       ELSE CountedDrop /\ EnterLoop(None)
    /\ UNCHANGED <<client, ctl, web, epoch, adopted, host, configOk, wake, route, mark, served, budgetVars>>

\* The archive came back as something that is no zip: UnreadableArchiveError is
\* no wire fault, so the body ends half way and the connection is left as it is.
ArchiveUnreadable ==
    /\ pc = "files" /\ BackupMayGarble /\ web[host] = "starting"
    /\ pc' = "retry" /\ conn' = None
    /\ UNCHANGED <<target, daemonVars, host, linkVars, countVars, httpVars, wake,
                   route, laneVars, budgetVars>>

-----------------------------------------------------------------------------
(* The poll and the idle between passes.                                    *)

\* The 4321 half: State, Status, the ranges and profiles, each one answered.
PollAnswered ==
    /\ pc = "poll" /\ conn = client /\ Alive(conn) /\ ~Closing
    /\ pc' = "pollForms" /\ target' = host
    /\ UNCHANGED <<conn, daemonVars, host, linkVars, countVars, httpVars, wake,
                   route, laneVars, budgetVars>>

\* A poll that meets a wire fault: drop, and straight back to dialling.  A request
\* that got no answer has closed its connection itself, and `_drop` has nothing to
\* wait for; one that was refused leaves the closing to `_drop`.
PollFails(refused) ==
    /\ CountedDrop /\ phase' = Woken(phase)
    /\ IF refused THEN pc' = "closing" /\ UNCHANGED <<client, conn, target>>
       ELSE client' = None /\ EnterLoop(None)
    /\ UNCHANGED <<ctl, web, epoch, adopted, host, countVars, httpVars, wake,
                   route, mark, served, retargets>>

\* The connection died under the request, or one of us closed it.
PollBroken ==
    /\ pc = "poll" /\ (conn # client \/ ~Alive(conn) \/ Closing)
    /\ PollFails(FALSE) /\ UNCHANGED faults

PollFault ==
    /\ pc = "poll" /\ conn = client /\ Alive(conn) /\ ~Closing /\ faults < MaxFaults
    /\ faults' = faults + 1
    /\ \E refused \in BOOLEAN : PollFails(refused)

\* The loop's own close is through.
LoopClosed ==
    /\ pc = "closing"
    /\ client' = None /\ EnterLoop(None)
    /\ UNCHANGED <<daemonVars, host, reachable, connected, drops, countVars, httpVars, wake,
                   route, laneVars, budgetVars>>

PollForms ==
    /\ pc = "pollForms"
    /\ configOk' \in ConfigAnswers(target)
    /\ pc' = "pollCaps"
    /\ UNCHANGED <<conn, target, daemonVars, host, linkVars, countVars, httpOk, wake,
                   route, laneVars, budgetVars>>

\* Mutants: a poll that leaves the web lane's verdict as it was, and one that
\* stamps it without setting `changed`.
PollDoneUnstamped ==
    /\ pc = "pollCaps"
    /\ phase' = Woken(phase)
    /\ pc' = "idle" /\ conn' = None
    /\ UNCHANGED <<target, daemonVars, host, linkVars, countVars, httpVars, wake,
                   route, mark, served, muddied, budgetVars>>
PollDoneSilent ==
    /\ pc = "pollCaps"
    /\ httpOk' = configOk
    /\ pc' = "idle" /\ conn' = None
    /\ UNCHANGED <<target, daemonVars, host, linkVars, countVars, configOk, wake,
                   route, laneVars, budgetVars>>

PollDone ==
    /\ pc = "pollCaps"
    /\ httpOk' = configOk /\ phase' = Woken(phase)
    /\ pc' = "idle" /\ conn' = None
    /\ UNCHANGED <<target, daemonVars, host, linkVars, countVars, configOk, wake,
                   route, mark, served, muddied, budgetVars>>

\* The idle ends on its timer or on `wake`, and clears `wake` either way.
IdleEnds ==
    /\ pc \in Idling
    /\ wake' = FALSE
    /\ EnterLoop(client)
    /\ UNCHANGED <<daemonVars, host, linkVars, countVars, httpVars, route, laneVars, budgetVars>>

-----------------------------------------------------------------------------
(* A write lane.                                                            *)

\* settle.mark_connect: what the connection history was when the write began.
MarkConnect(l) ==
    /\ phase[l] = "idle"
    /\ mark' = [mark EXCEPT ![l] = IF connected THEN [connects |-> connects, drops |-> drops] ELSE None]
    /\ phase' = [phase EXCEPT ![l] = "marked"]
    /\ UNCHANGED <<daemonVars, host, linkVars, countVars, httpVars, wake, loopVars,
                   route, served, muddied, budgetVars>>

\* POST /restore goes out to the instance now running at the address in force.
Post(l) ==
    /\ phase[l] = "marked"
    /\ served' = [served EXCEPT ![l] = [host |-> host, epoch |-> epoch[host]]]
    /\ phase' = [phase EXCEPT ![l] = "posting"]
    /\ UNCHANGED <<daemonVars, host, linkVars, countVars, httpVars, wake, loopVars,
                   route, mark, muddied, budgetVars>>

\* That instance takes the archive; its restart is now due.
Adopt(l) ==
    /\ phase[l] = "posting" /\ Alive(served[l])
    /\ web[served[l].host] = "up" /\ served[l].epoch < MaxEpoch
    /\ adopted' = adopted \cup {served[l].host}
    /\ phase' = [phase EXCEPT ![l] = "adopted"]
    /\ UNCHANGED <<ctl, web, epoch, unmet, host, linkVars, countVars, httpVars, wake, loopVars,
                   route, mark, served, muddied, budgetVars>>

\* A read ahead of the POST failed, the POST never got through, or its answer
\* was lost: the lane gives up.
PostFails(l) ==
    /\ phase[l] \in {"marked", "posting", "adopted"}
    /\ phase' = [phase EXCEPT ![l] = "failed"]
    /\ UNCHANGED <<daemonVars, host, linkVars, countVars, httpVars, wake, loopVars,
                   route, mark, served, muddied, budgetVars>>

\* Mutant: a reconnect that takes down a connect half way.
RestartingBlindly(l) ==
    /\ OwnDrop
    /\ phase' = [Woken(phase) EXCEPT ![l] = IF client = None THEN "returned" ELSE "closing"]
    /\ wake' = (wake \/ client = None)

\* ConnectionManager.restarting: only a whole connection is taken down.
Restarting(l) ==
    IF connected
    THEN /\ OwnDrop
         /\ phase' = [Woken(phase) EXCEPT ![l] = IF client = None THEN "returned" ELSE "closing"]
         /\ wake' = (wake \/ client = None)
    ELSE phase' = [phase EXCEPT ![l] = "returned"] /\ UNCHANGED <<linkVars, unmet, muddied, wake>>

\* settle.restore returns: a marked lane starts the reconnect at once.
PostReturns(l) ==
    /\ phase[l] = "adopted"
    /\ IF mark[l] # None THEN Restarting(l)
       ELSE phase' = [phase EXCEPT ![l] = "returned"] /\ UNCHANGED <<linkVars, unmet, muddied, wake>>
    /\ UNCHANGED <<client, ctl, web, epoch, adopted, host, countVars, httpVars, loopVars, route,
                   mark, served, budgetVars>>

\* Mutant: a reconnect the loop sleeps through.
LaneClosedUnheard(l) ==
    /\ phase[l] = "closing"
    /\ client' = None
    /\ phase' = [phase EXCEPT ![l] = "returned"]
    /\ UNCHANGED <<daemonVars, host, reachable, connected, drops, countVars, httpVars, wake, loopVars,
                   route, mark, served, muddied, budgetVars>>

\* The lane's close is through: the loop is woken to reconnect.
LaneClosed(l) ==
    /\ phase[l] = "closing"
    /\ client' = None /\ wake' = TRUE
    /\ phase' = [phase EXCEPT ![l] = "returned"]
    /\ UNCHANGED <<daemonVars, host, reachable, connected, drops, countVars, httpVars, loopVars,
                   route, mark, served, muddied, budgetVars>>

\* Mutant: any new connection will do.
SatisfiedByAnyConnect(l) == mark[l] # None /\ connects > mark[l].connects /\ Ready

\* The condition settle.await_ready tests.
Satisfied(l) == mark[l] # None /\ connects > mark[l].connects /\ dropsAtConnect > mark[l].drops /\ Ready

\* settle.await_ready is entered, or gets a turn after `changed`: test, or sleep.
AwaitReady(l) ==
    /\ phase[l] \in {"returned", "woken"}
    /\ phase' = [phase EXCEPT ![l] = IF mark[l] = None THEN "nothing"
                                     ELSE IF Satisfied(l) THEN "ready" ELSE "asleep"]
    /\ UNCHANGED <<daemonVars, host, linkVars, countVars, httpVars, wake, loopVars,
                   route, mark, served, muddied, budgetVars>>

\* The deadline passes: the condition is tested once more, then False.
WaitExpires(l) ==
    /\ phase[l] \in {"asleep", "woken"}
    /\ phase' = [phase EXCEPT ![l] = IF Satisfied(l) THEN "ready" ELSE "timeout"]
    /\ UNCHANGED <<daemonVars, host, linkVars, countVars, httpVars, wake, loopVars,
                   route, mark, served, muddied, budgetVars>>

-----------------------------------------------------------------------------
(* POST /api/connection: new address or credentials, then a refresh.        *)

Retarget(h) ==
    /\ route = "idle" /\ retargets < MaxRetargets
    /\ retargets' = retargets + 1
    /\ host' = h
    /\ CountedDrop /\ phase' = Woken(phase)
    /\ route' = IF client = None THEN "refresh" ELSE "closing"
    /\ wake' = (wake \/ client = None)
    /\ UNCHANGED <<client, ctl, web, epoch, adopted, countVars, httpVars, loopVars, mark, served, faults>>

\* The route's close is through: the loop is woken, and the forms are refreshed.
RouteClosed ==
    /\ route = "closing"
    /\ client' = None /\ wake' = TRUE
    /\ route' = "refresh"
    /\ UNCHANGED <<daemonVars, host, reachable, connected, drops, countVars, httpVars, loopVars,
                   laneVars, budgetVars>>

RouteRefresh ==
    /\ route = "refresh"
    /\ configOk' \in ConfigAnswers(host)
    /\ route' = "idle"
    /\ UNCHANGED <<daemonVars, host, linkVars, countVars, httpOk, wake, loopVars, laneVars, budgetVars>>

-----------------------------------------------------------------------------
(* The daemon.                                                              *)

GoesDown(h) ==
    /\ ctl' = ctl \ {h} /\ web' = [web EXCEPT ![h] = "down"]
    /\ epoch' = [epoch EXCEPT ![h] = @ + 1]
    /\ adopted' = adopted \ {h}
    /\ unmet' = (unmet \/ (OutageIsMet /\ h = host))
    /\ UNCHANGED <<host, linkVars, countVars, httpVars, wake, loopVars, route, laneVars, budgetVars>>

\* The restart a restore makes due.
SelfRestart(h) == h \in adopted /\ GoesDown(h)

\* A restart nobody here asked for: a crash, a service restart, a profile load.
Crash(h) == h \in ctl \ adopted /\ epoch[h] < MaxEpoch /\ GoesDown(h)

\* The two ports come back separately, in either order.
ControlComesUp(h) ==
    /\ h \notin ctl /\ ~(unmet /\ h = host)
    /\ ctl' = ctl \cup {h}
    /\ UNCHANGED <<web, epoch, adopted, unmet, host, linkVars, countVars, httpVars, wake,
                   loopVars, route, laneVars, budgetVars>>

WebComesUp(h) ==
    /\ web[h] # "up"
    /\ web' = [web EXCEPT ![h] = IF @ = "down" THEN "starting" ELSE "up"]
    /\ UNCHANGED <<ctl, epoch, adopted, unmet, host, linkVars, countVars, httpVars, wake,
                   loopVars, route, laneVars, budgetVars>>

-----------------------------------------------------------------------------

ConnectStep == \/ DialAnswered \/ DialRefused \/ HandshakeAnswered \/ HandshakeFails
               \/ ConnectForms \/ ConnectDone \/ ArchiveUnreadable
PollStep == PollAnswered \/ PollBroken \/ LoopClosed \/ PollForms \/ PollDone \/ IdleEnds
LoopStep == ConnectStep \/ PollStep
LoopFault == ConnectFault \/ PollFault
LaneStep(l) == PostReturns(l) \/ LaneClosed(l) \/ AwaitReady(l)
RouteStep == RouteClosed \/ RouteRefresh
LaneChoice(l) == MarkConnect(l) \/ Post(l) \/ Adopt(l) \/ PostFails(l) \/ WaitExpires(l)
DaemonStep(h) == SelfRestart(h) \/ ControlComesUp(h) \/ WebComesUp(h)

Next ==
    \/ LoopStep \/ LoopFault \/ RouteStep
    \/ \E l \in Lanes : LaneStep(l) \/ LaneChoice(l)
    \/ \E h \in Hosts : DaemonStep(h) \/ Crash(h) \/ Retarget(h)

\* Every await in the loop and the lanes has a deadline of its own and the event
\* loop starves no ready task; a daemon that goes down is restarted by its
\* service.  Nothing obliges a user to act, a fault to happen or a wait to expire.
Fairness ==
    /\ WF_vars(LoopStep) /\ WF_vars(RouteStep)
    /\ \A l \in Lanes : WF_vars(LaneStep(l))
    /\ \A h \in Hosts : WF_vars(SelfRestart(h)) /\ WF_vars(ControlComesUp(h)) /\ WF_vars(WebComesUp(h))

Spec == Init /\ [][Next]_vars
FairSpec == Spec /\ Fairness

-----------------------------------------------------------------------------
(* What a step may rely on.                                                 *)

\* The published flags and the client, a teardown half way included: `reachable`
\* reads true exactly while a client is attached that nobody is closing, and
\* `connected` over anything else only until the poll in hand meets it; a standing
\* connection was completed after every drop counted so far.
LinkAgrees ==
    /\ reachable = (client # None /\ ~Closing)
    /\ connected => dropsAtConnect = drops /\ (reachable \/ pc = "poll")

\* A client attached or closed under the loop never catches it unawares: while
\* a connect is under way nothing reads as connected, so `restarting` leaves it
\* alone; and a client taken away during a poll or the idle after it has left
\* `wake` set, so the poll's interval is never waited out without a client.
LoopAgrees ==
    /\ pc \in Connecting => ~connected
    /\ pc \in {"dial", "shake"} => client = None
    /\ pc \in Polling \cup {"idle"} /\ client = None => wake

\* No wait sleeps through the moment it is waiting for: an asleep lane's
\* condition is false, because each edge that makes it true also wakes it.
NoSleepThrough == \A l \in Lanes : phase[l] = "asleep" => ~Satisfied(l)

\* The history a wait is judged by: a lane that saw no early counted drop, and
\* does see a counted drop since its mark, sees its restart; and a connection that
\* reads as reachable then is not the one that restart took down.
EvidenceIsOfTheRestart ==
    \A l \in Lanes :
        phase[l] \in InFlight /\ l \notin muddied /\ mark[l] # None /\ drops > mark[l].drops
            => RestartLanded(l) /\ (reachable => client # served[l])

\* settle.await_ready answers True only once the instance that took the restore
\* is gone and on a connection to another one, provided no drop was counted
\* between the mark and that restart; and only POST /api/connection can have taken
\* that connection away again, or be just closing it.
WaitIsHonest ==
    [][\A l \in Lanes : phase[l] # "ready" /\ phase'[l] = "ready" /\ l \notin muddied
           => /\ RestartLanded(l)
              /\ IF reachable THEN client # served[l] ELSE retargets > 0]_vars

\* The claim of settle.await_ready's docstring and of ConnectionManager._drop's,
\* without that proviso: a wait never returns on the connection its own restart
\* is about to kill.
WaitIsHonestAlways ==
    [][\A l \in Lanes : phase[l] # "ready" /\ phase'[l] = "ready" => RestartLanded(l)]_vars

\* The claim of `await_ready`'s docstring without the exception of the address: the
\* control connection stands when a wait returns.
WaitFindsItStanding ==
    [][\A l \in Lanes : phase[l] # "ready" /\ phase'[l] = "ready" => reachable]_vars

\* A connect body finishes on its own client: no step of a lane takes the client
\* away from under it (POST /api/connection may, on purpose).
BodyKeepsItsClient ==
    [][(pc \in {"forms", "files"} /\ pc' = pc /\ route' = route) => client' = client]_vars

\* The supervisor implements the promise of ControlLink, read off the fields the
\* lanes read: half a link until the connect body ends, whole while connected, torn
\* from the step that clears its flags to the one that lets go of the client, and
\* overtaken where a connect body ended over a client somebody was closing.
Link == [stage |-> IF connected /\ ~reachable THEN "overtaken"
                   ELSE IF client = None THEN "none"
                   ELSE IF ~reachable THEN "torn"
                   ELSE IF connected THEN "whole" ELSE "half",
         inst |-> client]
Promise == INSTANCE ControlLink WITH running <- epoch, link <- Link
KeepsPromise == Promise!Spec

\* Once faults and restarts stop, the manager ends up ready and stays ready.
Recovers == <>[]Ready

\* A wait put to sleep is woken to its verdict by the restart it waits for,
\* without its deadline.
WaitsReturn == \A l \in Lanes : phase[l] = "asleep" ~> phase[l] \in {"ready", "timeout"}

\* ConnectionManager.retarget: the lanes come back on the address now configured.
RetargetLands == <>[](client # None => client.host = host)
=============================================================================
