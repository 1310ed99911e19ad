--------------------------- MODULE ControlChannel ---------------------------
(***************************************************************************)
(* The control connection as its many users share it: ControlClient's lock, *)
(* its one socket, and the live writes and reads that go over it.           *)
(*                                                                          *)
(* The protocol carries no request numbers: an answer belongs to a command  *)
(* only by its place on the socket.  Everything here serves that pairing:   *)
(* the lock, the streams read under it, the connection given up with every  *)
(* answer given up, and a fresh client for every reconnect.                 *)
(*                                                                          *)
(* Tasks are the poll loop, the write routes and the autopilot.  A task     *)
(* captures the manager's client once and issues its commands on it, even   *)
(* after the manager has replaced it.                                       *)
(***************************************************************************)
EXTENDS Naturals, Sequences

CONSTANTS
    Tasks,     \* coroutines that use the control lane
    Clients,   \* ControlClient objects, one per completed connect
    Values,    \* values of the one setting written and read here
    Initial,   \* the value a daemon starts with
    None,
    MaxAsks,   \* bound: commands of one task
    CanCancel  \* shutdown may cancel a task inside a command

ASSUME ValuesAssumption == Initial \in Values /\ None \notin Tasks \cup Clients \cup Values
ASSUME BoundAssumption == MaxAsks \in Nat /\ CanCancel \in BOOLEAN

VARIABLES
    current,  \* ConnectionManager._client
    streams,  \* per client: not dialled, open, transport closed, forgotten
    holder,   \* per client: the task inside `async with self._lock`
    waiting,  \* per client: the tasks queued on that lock, in order
    inbox,    \* per client: commands the daemon has not served
    outbox,   \* per client: answers nobody has read
    severed,  \* clients whose daemon closed its end
    setting,  \* the daemon's value
    at,       \* per task: where it awaits
    on,       \* per task: the client it captured
    job,      \* per task: the value it writes, or None for a poll's read
    step,     \* per task: the command of the job under way
    asked,    \* per task: commands sent so far, which numbers them
    verdict,  \* per task: how its last job came out
    held      \* history: writers whose value the daemon held since they began

socketVars == <<streams, inbox, outbox>>
lockVars == <<holder, waiting>>
daemonVars == <<severed, setting>>
jobVars == <<on, job, step, asked>>
vars == <<current, socketVars, lockVars, daemonVars, at, jobVars, verdict, held>>

Steps == {"set", "get"}
Command ==
    {m \in [from : Tasks, number : Nat, step : Steps, value : Values \cup {None}] : m.step = "set" => m.value \in Values}
Answer == [to : Tasks, number : Nat, ok : BOOLEAN, value : Values \cup {None}]

SocketType ==
    /\ current \in Clients \cup {None}
    /\ streams \in [Clients -> {"undialled", "open", "closing", "forgotten"}]
    /\ inbox \in [Clients -> Seq(Command)] /\ outbox \in [Clients -> Seq(Answer)]
    /\ severed \subseteq Clients /\ setting \in Values
TaskType ==
    /\ holder \in [Clients -> Tasks \cup {None}]
    /\ at \in [Tasks -> {"idle", "queued", "reading", "closing", "gone"}]
    /\ on \in [Tasks -> Clients \cup {None}] /\ job \in [Tasks -> Values \cup {None}]
    /\ step \in [Tasks -> Steps] /\ asked \in [Tasks -> Nat]
    /\ verdict \in [Tasks -> {"none", "ok", "refused", "mismatch", "failed", "cancelled"}]
    /\ held \subseteq Tasks
    /\ \A t \in Tasks : step[t] = "set" => job[t] \in Values
QueueType == waiting \in [Clients -> Seq(Tasks)]
\* Every variable of the channel, its tasks and the daemon keeps its type.
TypeOK == SocketType /\ TaskType /\ QueueType

Init ==
    /\ current = None /\ streams = [c \in Clients |-> "undialled"]
    /\ inbox = [c \in Clients |-> <<>>] /\ outbox = [c \in Clients |-> <<>>]
    /\ holder = [c \in Clients |-> None] /\ waiting = [c \in Clients |-> <<>>]
    /\ severed = {} /\ setting = Initial
    /\ at = [t \in Tasks |-> "idle"] /\ on = [t \in Tasks |-> None]
    /\ job = [t \in Tasks |-> None] /\ step = [t \in Tasks |-> "get"]
    /\ asked = [t \in Tasks |-> 0] /\ verdict = [t \in Tasks |-> "none"]
    /\ held = {}

-----------------------------------------------------------------------------
(* A task and its job.                                                      *)

\* `request` is called: the task joins the lock's queue.  Taking a lock nobody
\* holds does not yield in the code; the step apart only adds interleavings.
Begin(t, v, s) ==
    /\ at[t] = "idle" /\ current # None /\ asked[t] < MaxAsks
    /\ on' = [on EXCEPT ![t] = current] /\ job' = [job EXCEPT ![t] = v]
    /\ step' = [step EXCEPT ![t] = s] /\ verdict' = [verdict EXCEPT ![t] = "none"]
    /\ at' = [at EXCEPT ![t] = "queued"]
    /\ waiting' = [waiting EXCEPT ![current] = Append(@, t)]
    /\ UNCHANGED <<current, socketVars, holder, daemonVars, asked>>

\* A live write: the setter, then the State readback that verifies it.
BeginWrite(t, v) ==
    /\ Begin(t, v, "set")
    /\ held' = IF v = setting THEN held \cup {t} ELSE held

\* A heartbeat's State, or any other read.
BeginRead(t) == Begin(t, None, "get") /\ UNCHANGED held

\* A job that came to an end, however it did; a cancelled task ends with it.
EndJob(t, how) ==
    /\ at' = [at EXCEPT ![t] = IF how = "cancelled" THEN "gone" ELSE "idle"]
    /\ verdict' = [verdict EXCEPT ![t] = how]
    /\ on' = [on EXCEPT ![t] = None] /\ job' = [job EXCEPT ![t] = None] /\ step' = [step EXCEPT ![t] = "get"]
    /\ held' = held \ {t}

\* The lock is granted.  The streams are looked at only now: gone, and the
\* command fails unsent; there, and it is written and its answer awaited.
Grant(t) ==
    LET c == on[t] IN
    /\ at[t] = "queued" /\ holder[c] = None /\ waiting[c] # <<>> /\ Head(waiting[c]) = t
    /\ waiting' = [waiting EXCEPT ![c] = Tail(@)]
    /\ IF streams[c] = "forgotten"
       THEN EndJob(t, "failed") /\ UNCHANGED <<holder, inbox, asked>>
       ELSE /\ holder' = [holder EXCEPT ![c] = t]
            /\ asked' = [asked EXCEPT ![t] = @ + 1]
            /\ inbox' = IF streams[c] = "open" /\ c \notin severed
                        THEN [inbox EXCEPT ![c] = Append(@, [from |-> t, number |-> asked[t] + 1,
                                                             step |-> step[t], value |-> job[t]])]
                        ELSE inbox
            /\ at' = [at EXCEPT ![t] = "reading"] /\ UNCHANGED <<on, job, step, verdict, held>>
    /\ UNCHANGED <<current, streams, outbox, daemonVars>>

\* What an answer makes of a job whose last command it was.
Outcome(t, a) ==
    IF ~a.ok THEN "refused"
    ELSE IF job[t] \in {None, a.value} THEN "ok" ELSE "mismatch"

\* Mutant: the setter's OK is taken for the verdict.
ReceiveUnverified(t) ==
    LET c == on[t] IN
    /\ at[t] = "reading" /\ outbox[c] # <<>>
    /\ outbox' = [outbox EXCEPT ![c] = Tail(@)]
    /\ holder' = [holder EXCEPT ![c] = None]
    /\ EndJob(t, IF Head(outbox[c]).ok THEN "ok" ELSE "refused")
    /\ UNCHANGED <<current, streams, inbox, waiting, daemonVars, asked>>

\* The next document on the socket is taken for the answer: an accepted setter
\* goes on to its readback, at the back of the queue; anything else ends the job.
Receive(t) ==
    LET c == on[t] IN
    /\ at[t] = "reading" /\ outbox[c] # <<>>
    /\ outbox' = [outbox EXCEPT ![c] = Tail(@)]
    /\ holder' = [holder EXCEPT ![c] = None]
    /\ IF step[t] = "set" /\ Head(outbox[c]).ok
       THEN /\ step' = [step EXCEPT ![t] = "get"] /\ at' = [at EXCEPT ![t] = "queued"]
            /\ waiting' = [waiting EXCEPT ![c] = Append(@, t)] /\ UNCHANGED <<on, job, verdict, held>>
       ELSE EndJob(t, Outcome(t, Head(outbox[c]))) /\ UNCHANGED waiting
    /\ UNCHANGED <<current, streams, inbox, daemonVars, asked>>

\* Mutant: the answer is given up and the socket kept.
GiveUpKeepingSocket(t) ==
    /\ holder' = [holder EXCEPT ![on[t]] = None]
    /\ EndJob(t, "failed")
    /\ UNCHANGED <<current, socketVars, waiting, daemonVars, asked>>

\* The answer is given up, and the connection with it: closed under the lock.
GiveUp(t) ==
    /\ at' = [at EXCEPT ![t] = "closing"]
    /\ streams' = [streams EXCEPT ![on[t]] = IF @ = "open" THEN "closing" ELSE @]
    /\ UNCHANGED <<current, inbox, outbox, lockVars, daemonVars, jobVars, verdict, held>>

\* The read comes to the end of the stream.
EndOfStream(t) ==
    /\ at[t] = "reading" /\ outbox[on[t]] = <<>>
    /\ streams[on[t]] # "open" \/ on[t] \in severed
    /\ GiveUp(t)

\* The read's deadline passes, or what arrived cannot be parsed.
TimesOut(t) == at[t] = "reading" /\ GiveUp(t)

\* Mutant: the failure surfaces with the lock still held.
ClosedKeepingLock(t) ==
    /\ at[t] = "closing"
    /\ streams' = [streams EXCEPT ![on[t]] = "forgotten"]
    /\ EndJob(t, "failed")
    /\ UNCHANGED <<current, inbox, outbox, lockVars, daemonVars, asked>>

\* The transport is gone: the streams are forgotten and the failure surfaces.
Closed(t) ==
    /\ at[t] = "closing"
    /\ streams' = [streams EXCEPT ![on[t]] = "forgotten"]
    /\ holder' = [holder EXCEPT ![on[t]] = None]
    /\ EndJob(t, "failed")
    /\ UNCHANGED <<current, inbox, outbox, waiting, daemonVars, asked>>

\* Shutdown cancels a task inside its command.  That is no TimeoutError, OSError or
\* ControlError: the task leaves the lock on its way out and the connection as it is.
Cancel(t) ==
    LET c == on[t] IN
    /\ CanCancel /\ at[t] \in {"queued", "reading"}
    /\ waiting' = [waiting EXCEPT ![c] = SelectSeq(@, LAMBDA w : w # t)]
    /\ holder' = [holder EXCEPT ![c] = IF @ = t THEN None ELSE @]
    /\ EndJob(t, "cancelled")
    /\ UNCHANGED <<current, socketVars, daemonVars, asked>>

-----------------------------------------------------------------------------
(* The manager, which closes from outside the lock.                         *)

Connect(c) ==
    /\ current = None /\ streams[c] = "undialled"
    /\ current' = c /\ streams' = [streams EXCEPT ![c] = "open"]
    /\ UNCHANGED <<inbox, outbox, lockVars, daemonVars, at, jobVars, verdict, held>>

DropBegins ==
    /\ current # None /\ streams[current] = "open"
    /\ streams' = [streams EXCEPT ![current] = "closing"]
    /\ UNCHANGED <<current, inbox, outbox, lockVars, daemonVars, at, jobVars, verdict, held>>

DropEnds ==
    /\ current # None /\ streams[current] \in {"closing", "forgotten"}
    /\ streams' = [streams EXCEPT ![current] = "forgotten"]
    /\ current' = None
    /\ UNCHANGED <<inbox, outbox, lockVars, daemonVars, at, jobVars, verdict, held>>

-----------------------------------------------------------------------------
(* The daemon.                                                              *)

\* A command is served in its turn: a setter is applied, refused, or answered OK
\* and ignored; a readback answers the value, or is refused.
Serve(c) ==
    /\ c \notin severed /\ inbox[c] # <<>>
    /\ inbox' = [inbox EXCEPT ![c] = Tail(@)]
    /\ LET m == Head(inbox[c]) IN
       \E ok \in BOOLEAN :
          /\ setting' \in IF m.step = "set" /\ ok THEN {setting, m.value} ELSE {setting}
          /\ outbox' = IF streams[c] = "open"
                       THEN [outbox EXCEPT ![c] = Append(@, [to |-> m.from, number |-> m.number,
                                                             ok |-> ok,
                                                             value |-> IF m.step = "get" THEN setting' ELSE None])]
                       ELSE outbox
    /\ held' = held \cup {t \in Tasks : job[t] = setting'}
    /\ UNCHANGED <<current, streams, lockVars, severed, at, jobVars, verdict>>

\* A restart closes every connection and forgets what was only set live.
Restart ==
    /\ severed' = {c \in Clients : streams[c] # "undialled"}
    /\ setting' = Initial
    /\ inbox' = [c \in Clients |-> <<>>]
    /\ held' = held \cup {t \in Tasks : job[t] = Initial}
    /\ UNCHANGED <<current, streams, outbox, lockVars, at, jobVars, verdict>>

-----------------------------------------------------------------------------

Reading(t) == Receive(t) \/ EndOfStream(t) \/ TimesOut(t)

Next ==
    \/ \E t \in Tasks :
          \/ BeginRead(t) \/ Grant(t) \/ Reading(t) \/ Closed(t) \/ Cancel(t)
          \/ \E v \in Values : BeginWrite(t, v)
    \/ \E c \in Clients : Connect(c) \/ Serve(c)
    \/ DropBegins \/ DropEnds \/ Restart

\* Every read has its deadline and a closed transport is always gone in the end;
\* the event loop runs whichever task is due.
Fairness == \A t \in Tasks : WF_vars(Grant(t)) /\ WF_vars(Reading(t)) /\ WF_vars(Closed(t))

Spec == Init /\ [][Next]_vars
FairSpec == Spec /\ Fairness

-----------------------------------------------------------------------------

\* The lock is somebody's exactly while that task is inside a command on that
\* client.
LockIsHolders ==
    /\ \A t \in Tasks : at[t] \in {"reading", "closing"} => holder[on[t]] = t
    /\ \A c \in Clients : holder[c] # None => on[holder[c]] = c /\ at[holder[c]] \in {"reading", "closing"}

\* Its queue holds each task that waits for it, once, and nobody else: a task
\* that was cancelled or failed is never granted a lock it no longer wants.
QueueAgrees ==
    \A t \in Tasks, c \in Clients :
        Len(SelectSeq(waiting[c], LAMBDA w : w = t)) = IF at[t] = "queued" /\ on[t] = c THEN 1 ELSE 0

\* Nobody has been cancelled inside a command.  A reader cancelled at shutdown leaves
\* its answer on the socket, so the next two are promised only until then.
Uncancelled == \A t \in Tasks : at[t] # "gone"

\* ControlClient.request: the document a task is about to read answers the
\* command that task sent last, and no other.
AnswersItsCommand ==
    Uncancelled => \A t \in Tasks : at[t] = "reading" /\ outbox[on[t]] # <<>> =>
        LET a == Head(outbox[on[t]]) IN a.to = t /\ a.number = asked[t]

\* writer.apply_live: a write reported verified is one whose value the daemon
\* really held at some moment since it began, whoever else wrote meanwhile.
VerifiedMeansHeld ==
    [][Uncancelled => \A t \in Tasks :
          job[t] # None /\ verdict[t] # "ok" /\ verdict'[t] = "ok" => t \in held]_vars

\* Every command comes back, with an answer or a failure, however the connection
\* fares, whoever else is queued and whoever is cancelled.
CommandsReturn == \A t \in Tasks : at[t] = "queued" ~> at[t] \in {"idle", "gone"}
=============================================================================
