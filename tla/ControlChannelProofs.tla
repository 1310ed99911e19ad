------------------------ MODULE ControlChannelProofs ------------------------
(* Proofs about the shared control connection, for every number of tasks,    *)
(* clients, values and commands.                                             *)
EXTENDS ControlChannel, SequenceTheorems, TLAPS

USE ValuesAssumption, BoundAssumption

\* A task inside a command has captured a client.
Captured == \A t \in Tasks : at[t] \in {"queued", "reading", "closing"} => on[t] \in Clients

\* A connection nobody is using and nobody has given up carries nothing.
Quiet ==
    \A c \in Clients : holder[c] = None /\ streams[c] # "forgotten" =>
        inbox[c] = <<>> /\ outbox[c] = <<>>

\* What travels on a connection a task is reading belongs to that task's last
\* command; an answer that carries the value it writes proves the value held.
Paired(t, c) ==
    /\ Len(inbox[c]) + Len(outbox[c]) <= 1
    /\ inbox[c] # <<>> => Head(inbox[c]).from = t /\ Head(inbox[c]).number = asked[t]
    /\ outbox[c] # <<>> =>
          /\ Head(outbox[c]).to = t /\ Head(outbox[c]).number = asked[t]
          /\ job[t] # None /\ Head(outbox[c]).value = job[t] => t \in held
Pairing == \A t \in Tasks : at[t] = "reading" => Paired(t, on[t])

LInv == SocketType /\ TaskType /\ Captured /\ LockIsHolders
AInv == LInv /\ Quiet /\ Pairing

\* Both last until a task is cancelled inside a command; the lock outlives that.
Until == LInv /\ (Uncancelled => AInv)

-----------------------------------------------------------------------------
(* Types.                                                                    *)

\* What a finished command reports has its type.
LEMMA OutcomeType ==
    ASSUME NEW t, NEW a PROVE Outcome(t, a) \in {"ok", "refused", "mismatch"}
  BY DEF Outcome

\* The induction starts.
LEMMA InitHolds == Init => Until /\ QueueType
  BY DEF Init, Until, AInv, LInv, SocketType, TaskType, QueueType, Captured, LockIsHolders, Quiet, Pairing, Steps

\* The connections and the daemon keep their types.
LEMMA SocketStep == SocketType /\ TaskType /\ Captured /\ [Next]_vars => SocketType'
  <1> SUFFICES ASSUME SocketType, TaskType, Captured, [Next]_vars PROVE SocketType'
    OBVIOUS
  <1> USE DEF SocketType, socketVars, lockVars, daemonVars, jobVars
  <1>1. ASSUME NEW t \in Tasks, NEW v \in Values, BeginWrite(t, v) PROVE SocketType'
    BY <1>1 DEF BeginWrite, Begin
  <1>2. ASSUME NEW t \in Tasks, BeginRead(t) PROVE SocketType'
    BY <1>2 DEF BeginRead, Begin
  <1>3. ASSUME NEW t \in Tasks, Grant(t) PROVE SocketType'
    <2>1. on[t] \in Clients
      BY <1>3 DEF Grant, Captured
    <2> DEFINE m == [from |-> t, number |-> asked[t] + 1, step |-> step[t], value |-> job[t]]
    <2>2. m \in Command
      BY DEF TaskType, Command
    <2> HIDE DEF m
    <2>3. inbox' \in [Clients -> Seq(Command)]
      <3>1. inbox' = inbox \/ inbox' = [inbox EXCEPT ![on[t]] = Append(@, m)]
        BY <1>3 DEF Grant, m
      <3>2. Append(inbox[on[t]], m) \in Seq(Command)
        BY <2>1, <2>2
      <3>3. QED
        BY <2>1, <3>1, <3>2
    <2>4. QED
      BY <1>3, <2>3 DEF Grant
  <1>4. ASSUME NEW t \in Tasks, Receive(t) PROVE SocketType'
    <2>1. outbox' \in [Clients -> Seq(Answer)]
      BY <1>4 DEF Receive, Captured
    <2>2. QED
      BY <1>4, <2>1 DEF Receive
  <1>5. ASSUME NEW t \in Tasks, EndOfStream(t) \/ TimesOut(t) PROVE SocketType'
    BY <1>5 DEF EndOfStream, TimesOut, GiveUp
  <1>6. ASSUME NEW t \in Tasks, Closed(t) PROVE SocketType'
    BY <1>6 DEF Closed
  <1>7. ASSUME NEW t \in Tasks, Cancel(t) PROVE SocketType'
    BY <1>7 DEF Cancel
  <1>8. ASSUME NEW c \in Clients, Connect(c) PROVE SocketType'
    BY <1>8 DEF Connect
  <1>9. CASE DropBegins \/ DropEnds
    BY <1>9 DEF DropBegins, DropEnds
  <1>10. ASSUME NEW c \in Clients, Serve(c) PROVE SocketType'
    <2> DEFINE m == Head(inbox[c])
    <2>1. m \in Command
      BY <1>10 DEF Serve
    <2>2. PICK ok \in BOOLEAN :
            /\ setting' \in IF m.step = "set" /\ ok THEN {setting, m.value} ELSE {setting}
            /\ outbox' = IF streams[c] = "open"
                         THEN [outbox EXCEPT ![c] = Append(@, [to |-> m.from, number |-> m.number,
                                                               ok |-> ok,
                                                               value |-> IF m.step = "get" THEN setting' ELSE None])]
                         ELSE outbox
      BY <1>10 DEF Serve
    <2>3. setting' \in Values
      BY <2>1, <2>2 DEF Command
    <2> DEFINE a == [to |-> m.from, number |-> m.number, ok |-> ok,
                     value |-> IF m.step = "get" THEN setting' ELSE None]
    <2>4. a \in Answer
      BY <2>1, <2>3 DEF Command, Answer
    <2>5. outbox' = outbox \/ outbox' = [outbox EXCEPT ![c] = Append(@, a)]
      BY <2>2
    <2> HIDE DEF a, m
    <2>6. outbox' \in [Clients -> Seq(Answer)]
      <3>1. Append(outbox[c], a) \in Seq(Answer)
        BY <2>4
      <3>2. QED
        BY <2>5, <3>1
    <2>7. QED
      BY <1>10, <2>3, <2>6 DEF Serve
  <1>11. CASE Restart
    BY <1>11 DEF Restart
  <1>12. CASE UNCHANGED vars
    BY <1>12 DEF vars
  <1>13. QED
    BY <1>1, <1>2, <1>3, <1>4, <1>5, <1>6, <1>7, <1>8, <1>9, <1>10, <1>11, <1>12 DEF Next, Reading
\* The tasks' places, jobs and locks keep their types.
LEMMA TaskStep == SocketType /\ TaskType /\ Captured /\ [Next]_vars => TaskType'
  <1> SUFFICES ASSUME SocketType, TaskType, Captured, [Next]_vars PROVE TaskType'
    OBVIOUS
  <1> USE DEF TaskType, Steps, socketVars, lockVars, daemonVars, jobVars
  <1>1. ASSUME NEW t \in Tasks, NEW v \in Values, BeginWrite(t, v) PROVE TaskType'
    BY <1>1 DEF BeginWrite, Begin, SocketType
  <1>2. ASSUME NEW t \in Tasks, BeginRead(t) PROVE TaskType'
    BY <1>2 DEF BeginRead, Begin, SocketType
  <1>3. ASSUME NEW t \in Tasks, Grant(t) PROVE TaskType'
    <2>1. CASE streams[on[t]] = "forgotten"
      <3>1. EndJob(t, "failed") /\ UNCHANGED <<holder, asked>>
        BY <1>3, <2>1 DEF Grant
      <3>2. QED
        BY <3>1 DEF EndJob
    <2>2. CASE streams[on[t]] # "forgotten"
      <3>1. holder' = [holder EXCEPT ![on[t]] = t] /\ asked' = [asked EXCEPT ![t] = @ + 1]
            /\ at' = [at EXCEPT ![t] = "reading"] /\ UNCHANGED <<on, job, step, verdict, held>>
        BY <1>3, <2>2 DEF Grant
      <3>2. asked' \in [Tasks -> Nat]
        <4>1. asked[t] + 1 \in Nat
          OBVIOUS
        <4>2. QED
          BY <3>1, <4>1
      <3>3. holder' \in [Clients -> Tasks \cup {None}]
        BY <3>1
      <3>4. at' \in [Tasks -> {"idle", "queued", "reading", "closing", "gone"}]
        BY <3>1
      <3>5. QED
        BY <3>1, <3>2, <3>3, <3>4
    <2>3. QED
      BY <2>1, <2>2
  <1>4. ASSUME NEW t \in Tasks, Receive(t) PROVE TaskType'
    <2>1. holder' \in [Clients -> Tasks \cup {None}] /\ asked' = asked
      BY <1>4 DEF Receive
    <2>2. CASE UNCHANGED <<on, job, verdict, held>> /\ at' = [at EXCEPT ![t] = "queued"] /\ step' = [step EXCEPT ![t] = "get"]
      BY <2>1, <2>2
    <2>3. CASE EndJob(t, Outcome(t, Head(outbox[on[t]])))
      BY <2>1, <2>3, OutcomeType DEF EndJob
    <2>4. QED
      BY <1>4, <2>2, <2>3 DEF Receive
  <1>5. ASSUME NEW t \in Tasks, EndOfStream(t) \/ TimesOut(t) PROVE TaskType'
    BY <1>5 DEF EndOfStream, TimesOut, GiveUp
  <1>6. ASSUME NEW t \in Tasks, Closed(t) PROVE TaskType'
    BY <1>6 DEF Closed, EndJob
  <1>7. ASSUME NEW t \in Tasks, Cancel(t) PROVE TaskType'
    BY <1>7 DEF Cancel, EndJob
  <1>8. ASSUME NEW c \in Clients, Connect(c) PROVE TaskType'
    BY <1>8 DEF Connect
  <1>9. CASE DropBegins \/ DropEnds
    BY <1>9 DEF DropBegins, DropEnds
  <1>10. ASSUME NEW c \in Clients, Serve(c) PROVE TaskType'
    BY <1>10 DEF Serve
  <1>11. CASE Restart
    BY <1>11 DEF Restart
  <1>12. CASE UNCHANGED vars
    BY <1>12 DEF vars
  <1>13. QED
    BY <1>1, <1>2, <1>3, <1>4, <1>5, <1>6, <1>7, <1>8, <1>9, <1>10, <1>11, <1>12 DEF Next, Reading

-----------------------------------------------------------------------------
(* The lock.                                                                 *)

\* A task inside a command keeps hold of the connection it captured.
LEMMA CapturedStep == LInv /\ [Next]_vars => Captured'
  <1> SUFFICES ASSUME LInv, [Next]_vars PROVE Captured'
    OBVIOUS
  <1> USE DEF LInv, Captured, TaskType, socketVars, lockVars, daemonVars, jobVars
  <1>1. ASSUME NEW t \in Tasks, NEW v \in Values, BeginWrite(t, v) PROVE Captured'
    BY <1>1 DEF BeginWrite, Begin, SocketType
  <1>2. ASSUME NEW t \in Tasks, BeginRead(t) PROVE Captured'
    BY <1>2 DEF BeginRead, Begin, SocketType
  <1>3. ASSUME NEW t \in Tasks, Grant(t) PROVE Captured'
    <2>1. CASE streams[on[t]] = "forgotten"
      <3>1. on' = [on EXCEPT ![t] = None] /\ at' = [at EXCEPT ![t] = "idle"]
        BY <1>3, <2>1 DEF Grant, EndJob
      <3>2. QED
        BY <3>1
    <2>2. CASE streams[on[t]] # "forgotten"
      BY <1>3, <2>2 DEF Grant
    <2>3. QED
      BY <2>1, <2>2
  <1>4. ASSUME NEW t \in Tasks, Receive(t) PROVE Captured'
    <2>1. CASE step[t] = "set" /\ Head(outbox[on[t]]).ok
      BY <1>4, <2>1 DEF Receive
    <2>2. CASE EndJob(t, Outcome(t, Head(outbox[on[t]])))
      <3>1. on' = [on EXCEPT ![t] = None] /\ at' = [at EXCEPT ![t] = "idle"]
        BY <2>2, OutcomeType DEF EndJob
      <3>2. QED
        BY <3>1
    <2>3. QED
      BY <1>4, <2>1, <2>2 DEF Receive
  <1>5. ASSUME NEW t \in Tasks, EndOfStream(t) \/ TimesOut(t) PROVE Captured'
    BY <1>5 DEF EndOfStream, TimesOut, GiveUp
  <1>6. ASSUME NEW t \in Tasks, Closed(t) \/ Cancel(t) PROVE Captured'
    <2>1. on' = [on EXCEPT ![t] = None] /\ at'[t] \in {"idle", "gone"} /\ \A u \in Tasks \ {t} : at'[u] = at[u]
      BY <1>6 DEF Closed, Cancel, EndJob
    <2>2. QED
      BY <2>1
  <1>7. CASE UNCHANGED <<at, on>>
    BY <1>7
  <1>8. QED
    BY <1>1, <1>2, <1>3, <1>4, <1>5, <1>6, <1>7
    DEF Next, Reading, vars, Connect, Serve, DropBegins, DropEnds, Restart

\* Every step leaves each lock with the one task inside it.
LEMMA LockStep == LInv /\ [Next]_vars => LockIsHolders'
  <1> SUFFICES ASSUME LInv, [Next]_vars PROVE LockIsHolders'
    OBVIOUS
  <1> USE DEF LInv, LockIsHolders, TaskType, Captured, socketVars, lockVars, daemonVars, jobVars
  <1>1. ASSUME NEW t \in Tasks, NEW v \in Values, BeginWrite(t, v) PROVE LockIsHolders'
    BY <1>1 DEF BeginWrite, Begin
  <1>2. ASSUME NEW t \in Tasks, BeginRead(t) PROVE LockIsHolders'
    BY <1>2 DEF BeginRead, Begin
  <1>3. ASSUME NEW t \in Tasks, Grant(t) PROVE LockIsHolders'
    <2>1. CASE EndJob(t, "failed") /\ holder' = holder
      BY <1>3, <2>1 DEF Grant, EndJob
    <2>2. CASE on' = on /\ holder' = [holder EXCEPT ![on[t]] = t] /\ at' = [at EXCEPT ![t] = "reading"]
      BY <1>3, <2>2 DEF Grant
    <2>3. QED
      BY <1>3, <2>1, <2>2 DEF Grant
  <1>4. ASSUME NEW t \in Tasks, Receive(t) PROVE LockIsHolders'
    <2>1. holder' = [holder EXCEPT ![on[t]] = None] /\ at[t] = "reading"
      BY <1>4 DEF Receive
    <2>2. CASE on' = on /\ at' = [at EXCEPT ![t] = "queued"]
      BY <2>1, <2>2
    <2>3. CASE EndJob(t, Outcome(t, Head(outbox[on[t]])))
      <3>1. on' = [on EXCEPT ![t] = None] /\ at' = [at EXCEPT ![t] = "idle"]
        BY <2>3, OutcomeType DEF EndJob
      <3>2. QED
        BY <2>1, <3>1
    <2>4. QED
      BY <1>4, <2>2, <2>3 DEF Receive
  <1>5. ASSUME NEW t \in Tasks, EndOfStream(t) \/ TimesOut(t) PROVE LockIsHolders'
    BY <1>5 DEF EndOfStream, TimesOut, GiveUp
  <1>6. ASSUME NEW t \in Tasks, Closed(t) PROVE LockIsHolders'
    BY <1>6 DEF Closed, EndJob
  <1>7. ASSUME NEW t \in Tasks, Cancel(t) PROVE LockIsHolders'
    BY <1>7 DEF Cancel, EndJob
  <1>8. CASE UNCHANGED <<at, on, holder>>
    BY <1>8
  <1>9. QED
    BY <1>1, <1>2, <1>3, <1>4, <1>5, <1>6, <1>7, <1>8
    DEF Next, Reading, vars, Connect, Serve, DropBegins, DropEnds, Restart

\* A task inside a command holds its client's lock, and a held lock is held by
\* a task inside a command on that client (ControlClient.request), whoever is
\* cancelled.
THEOREM LockAlwaysIsHolders == Spec => []LockIsHolders
  <1>1. Init => LInv
    BY InitHolds DEF Until
  <1>2. LInv /\ [Next]_vars => LInv'
    BY SocketStep, TaskStep, CapturedStep, LockStep DEF LInv
  <1>3. LInv => LockIsHolders
    BY DEF LInv
  <1>4. QED
    BY <1>1, <1>2, <1>3, PTL DEF Spec

-----------------------------------------------------------------------------
(* The pairing of answers with commands, while no command is cancelled.      *)

\* Serving a command moves one message at most, and never to a closed end.
LEMMA ServeMoves ==
    ASSUME LInv, NEW c \in Clients, Serve(c)
    PROVE  /\ UNCHANGED <<streams, holder, at, on, job, asked>> /\ held \subseteq held'
           /\ \A d \in Clients \ {c} : inbox'[d] = inbox[d] /\ outbox'[d] = outbox[d]
           /\ inbox[c] # <<>> /\ inbox'[c] = Tail(inbox[c])
           /\ \/ outbox'[c] = outbox[c]
              \/ \E a \in Answer :
                    /\ outbox'[c] = Append(outbox[c], a) /\ streams[c] = "open"
                    /\ a.to = Head(inbox[c]).from /\ a.number = Head(inbox[c]).number
                    /\ \A t \in Tasks : job[t] # None /\ a.value = job[t] => t \in held'
  <1> USE DEF LInv, SocketType, TaskType, lockVars, jobVars
  <1> DEFINE m == Head(inbox[c])
  <1>1. m \in Command
    BY DEF Serve
  <1>2. PICK ok \in BOOLEAN :
          /\ setting' \in IF m.step = "set" /\ ok THEN {setting, m.value} ELSE {setting}
          /\ outbox' = IF streams[c] = "open"
                       THEN [outbox EXCEPT ![c] = Append(@, [to |-> m.from, number |-> m.number,
                                                             ok |-> ok,
                                                             value |-> IF m.step = "get" THEN setting' ELSE None])]
                       ELSE outbox
    BY DEF Serve
  <1> DEFINE a == [to |-> m.from, number |-> m.number, ok |-> ok,
                   value |-> IF m.step = "get" THEN setting' ELSE None]
  <1>3. a \in Answer
    BY <1>1, <1>2 DEF Command, Answer
  <1>4. a.to = m.from /\ a.number = m.number /\ a.value \in {setting', None}
    OBVIOUS
  <1>5. outbox' = outbox \/ (streams[c] = "open" /\ outbox' = [outbox EXCEPT ![c] = Append(@, a)])
    BY <1>2
  <1>6. held' = held \cup {t \in Tasks : job[t] = setting'}
    BY DEF Serve
  <1> HIDE DEF a, m
  <1>7. \A t \in Tasks : job[t] # None /\ a.value = job[t] => t \in held'
    BY <1>4, <1>6
  <1>8. UNCHANGED <<streams, holder, at, on, job, asked>> /\ inbox[c] # <<>> /\ inbox' = [inbox EXCEPT ![c] = Tail(@)]
    BY DEF Serve
  <1>9. \A d \in Clients \ {c} : inbox'[d] = inbox[d] /\ outbox'[d] = outbox[d]
    BY <1>5, <1>8
  <1>10. CASE outbox' = outbox
    BY <1>6, <1>8, <1>9, <1>10
  <1>11. CASE streams[c] = "open" /\ outbox' = [outbox EXCEPT ![c] = Append(@, a)]
    <2>1. outbox'[c] = Append(outbox[c], a)
      BY <1>11
    <2>2. QED
      BY <1>3, <1>4, <1>6, <1>7, <1>8, <1>9, <1>11, <2>1 DEF m
  <1>12. QED
    BY <1>5, <1>10, <1>11

\* With one message at most on both pipes, the first read off one empties both.
LEMMA OneMessage ==
    ASSUME NEW S, NEW T, NEW p \in Seq(S), NEW q \in Seq(T), Len(p) + Len(q) <= 1, p # <<>>
    PROVE  Len(p) = 1 /\ q = <<>> /\ Tail(p) = <<>>
  <1>1. Len(p) \in Nat /\ Len(p) # 0 /\ Len(q) \in Nat
    OBVIOUS
  <1> DEFINE m == Len(p)
  <1> DEFINE n == Len(q)
  <1>2. m = 1 /\ n = 0
    <2>1. m \in Nat /\ n \in Nat /\ m # 0 /\ m + n <= 1
      BY <1>1
    <2> HIDE DEF m, n
    <2>2. QED
      BY <2>1
  <1>3. q = <<>>
    BY <1>2
  <1>4. Len(Tail(p)) = 0 /\ Tail(p) \in Seq(S)
    BY <1>1, <1>2, HeadTailProperties
  <1>5. Tail(p) = <<>>
    BY <1>4, EmptySeq
  <1>6. QED
    BY <1>2, <1>3, <1>5

\* A task that is cancelled is gone.
LEMMA CancelIsFinal ==
    ASSUME TaskType, NEW t \in Tasks, Cancel(t) PROVE ~Uncancelled'
  BY DEF Cancel, EndJob, TaskType, Uncancelled

\* And does not come back.
LEMMA GoneStays ==
    ASSUME TaskType, [Next]_vars, Uncancelled' PROVE Uncancelled
  <1> SUFFICES ASSUME NEW t \in Tasks, at[t] = "gone" PROVE at'[t] = "gone"
    BY DEF Uncancelled
  <1> USE DEF TaskType, jobVars
  <1>1. ASSUME NEW u \in Tasks, NEW v \in Values, BeginWrite(u, v) \/ BeginRead(u) PROVE at'[t] = "gone"
    BY <1>1 DEF BeginWrite, BeginRead, Begin
  <1>2. ASSUME NEW u \in Tasks, Grant(u) PROVE at'[t] = "gone"
    <2>1. at[u] = "queued" /\ (at' = [at EXCEPT ![u] = "reading"] \/ EndJob(u, "failed"))
      BY <1>2 DEF Grant
    <2>2. QED
      BY <2>1 DEF EndJob
  <1>3. ASSUME NEW u \in Tasks, Receive(u) PROVE at'[t] = "gone"
    <2>1. at[u] = "reading" /\ (at' = [at EXCEPT ![u] = "queued"] \/ EndJob(u, Outcome(u, Head(outbox[on[u]]))))
      BY <1>3 DEF Receive
    <2>2. QED
      BY <2>1 DEF EndJob
  <1>4. ASSUME NEW u \in Tasks, EndOfStream(u) \/ TimesOut(u) \/ Closed(u) \/ Cancel(u) PROVE at'[t] = "gone"
    BY <1>4 DEF EndOfStream, TimesOut, GiveUp, Closed, Cancel, EndJob
  <1>5. QED
    BY <1>1, <1>2, <1>3, <1>4
    DEF Next, Reading, vars, Connect, Serve, DropBegins, DropEnds, Restart

\* A connection nobody is reading on has no document under way, as long as nobody was
\* cancelled inside a command.
LEMMA QuietStep == AInv /\ Uncancelled' /\ [Next]_vars => Quiet'
  <1> SUFFICES ASSUME AInv, Uncancelled', [Next]_vars PROVE Quiet'
    OBVIOUS
  <1>0. ASSUME NEW t \in Tasks, Cancel(t) PROVE FALSE
    BY <1>0, CancelIsFinal DEF AInv, LInv, TaskType
  <1> USE DEF AInv, LInv, Quiet, LockIsHolders, TaskType, SocketType, Captured, socketVars, lockVars, daemonVars, jobVars
  <1>1. ASSUME NEW t \in Tasks, Grant(t) PROVE Quiet'
    <2>1. CASE UNCHANGED <<streams, holder, inbox, outbox>>
      BY <2>1
    <2>2. CASE holder' = [holder EXCEPT ![on[t]] = t] /\ \A d \in Clients : d # on[t] => inbox'[d] = inbox[d]
      BY <1>1, <2>2 DEF Grant
    <2>3. QED
      BY <1>1, <2>1, <2>2 DEF Grant
  <1>2. ASSUME NEW t \in Tasks, Receive(t) PROVE Quiet'
    <2> DEFINE c == on[t]
    <2>1. holder' = [holder EXCEPT ![c] = None] /\ at[t] = "reading" /\ outbox[c] # <<>>
          /\ outbox' = [outbox EXCEPT ![c] = Tail(@)] /\ UNCHANGED <<streams, inbox>>
      BY <1>2 DEF Receive
    <2>2. c \in Clients /\ Paired(t, c)
      BY <2>1 DEF Pairing
    <2>3. Len(inbox[c]) + Len(outbox[c]) <= 1 /\ inbox[c] \in Seq(Command) /\ outbox[c] \in Seq(Answer)
      BY <2>2 DEF Paired
    <2>4. inbox[c] = <<>> /\ Tail(outbox[c]) = <<>>
      BY <2>1, <2>3
    <2>5. QED
      BY <2>1, <2>2, <2>4
  <1>3. ASSUME NEW t \in Tasks, EndOfStream(t) \/ TimesOut(t) PROVE Quiet'
    BY <1>3 DEF EndOfStream, TimesOut, GiveUp
  <1>4. ASSUME NEW t \in Tasks, Closed(t) PROVE Quiet'
    BY <1>4 DEF Closed
  <1>5. ASSUME NEW c \in Clients, Connect(c) PROVE Quiet'
    BY <1>5 DEF Connect
  <1>6. CASE DropBegins \/ DropEnds
    BY <1>6 DEF DropBegins, DropEnds
  <1>7. ASSUME NEW c \in Clients, Serve(c) PROVE Quiet'
    BY <1>7, ServeMoves
  <1>8. CASE Restart
    BY <1>8 DEF Restart
  <1>9. CASE UNCHANGED <<streams, holder, inbox, outbox>>
    BY <1>9
  <1>10. QED
    BY <1>0, <1>1, <1>2, <1>3, <1>4, <1>5, <1>6, <1>7, <1>8, <1>9
    DEF Next, Reading, vars, BeginWrite, BeginRead, Begin

\* What is under way on a connection is the reader's own command or its answer.
LEMMA PairingStep == AInv /\ Uncancelled' /\ [Next]_vars => Pairing'
  <1> SUFFICES ASSUME AInv, Uncancelled', [Next]_vars PROVE Pairing'
    OBVIOUS
  <1>0. ASSUME NEW t \in Tasks, Cancel(t) PROVE FALSE
    BY <1>0, CancelIsFinal DEF AInv, LInv, TaskType
  <1> USE DEF AInv, LInv, Pairing, LockIsHolders, TaskType, SocketType, Captured, socketVars, lockVars, daemonVars, jobVars
  <1>1. ASSUME NEW t \in Tasks, NEW v \in Values, BeginWrite(t, v) PROVE Pairing'
    BY <1>1 DEF BeginWrite, Begin, Paired
  <1>2. ASSUME NEW t \in Tasks, BeginRead(t) PROVE Pairing'
    BY <1>2 DEF BeginRead, Begin, Paired
  <1>3. ASSUME NEW t \in Tasks, Grant(t) PROVE Pairing'
    <2> SUFFICES ASSUME NEW u \in Tasks, at'[u] = "reading" PROVE Paired(u, on[u])'
      BY DEF Paired
    <2>1. CASE u # t
      <3>1. at[u] = "reading" /\ on'[u] = on[u] /\ job'[u] = job[u] /\ asked'[u] = asked[u] /\ (u \in held => u \in held')
        BY <1>3, <2>1 DEF Grant, EndJob
      <3>2. on[u] # on[t] \/ UNCHANGED inbox
        BY <1>3, <3>1 DEF Grant
      <3>3. inbox'[on[u]] = inbox[on[u]] /\ outbox'[on[u]] = outbox[on[u]]
        BY <1>3, <3>2 DEF Grant
      <3>4. QED
        BY <3>1, <3>3 DEF Paired
    <2>2. CASE u = t
      <3> DEFINE c == on[t]
      <3> DEFINE m == [from |-> t, number |-> asked[t] + 1, step |-> step[t], value |-> job[t]]
      <3>1. c \in Clients /\ on' = on /\ asked'[t] = asked[t] + 1 /\ outbox' = outbox
            /\ holder[c] = None /\ streams[c] # "forgotten"
            /\ inbox'[c] \in {inbox[c], Append(inbox[c], m)}
        BY <1>3, <2>2 DEF Grant, EndJob
      <3>2. inbox[c] = <<>> /\ outbox[c] = <<>>
        BY <3>1 DEF Quiet
      <3>3. m.from = t /\ m.number = asked'[t]
        BY <3>1
      <3> HIDE DEF m
      <3>4. CASE inbox'[c] = <<>>
        BY <2>2, <3>1, <3>2, <3>4 DEF Paired
      <3>5. CASE inbox'[c] = <<m>>
        BY <2>2, <3>1, <3>2, <3>3, <3>5 DEF Paired
      <3>6. QED
        BY <3>1, <3>2, <3>4, <3>5
    <2>3. QED
      BY <2>1, <2>2
  <1>4. ASSUME NEW t \in Tasks, Receive(t) PROVE Pairing'
    <2> SUFFICES ASSUME NEW u \in Tasks, at'[u] = "reading" PROVE Paired(u, on[u])'
      BY DEF Paired
    <2>1. u # t /\ at[u] = "reading" /\ on'[u] = on[u] /\ job'[u] = job[u] /\ asked' = asked /\ (u \in held => u \in held')
      BY <1>4 DEF Receive, EndJob
    <2>2. on[u] # on[t] /\ on[u] \in Clients
      BY <1>4, <2>1 DEF Receive
    <2>3. inbox' = inbox /\ outbox'[on[u]] = outbox[on[u]]
      BY <1>4, <2>2 DEF Receive
    <2>4. QED
      BY <2>1, <2>3 DEF Paired
  <1>5. ASSUME NEW t \in Tasks, EndOfStream(t) \/ TimesOut(t) PROVE Pairing'
    <2>1. at' = [at EXCEPT ![t] = "closing"] /\ UNCHANGED <<inbox, outbox, on, job, asked, held>>
      BY <1>5 DEF EndOfStream, TimesOut, GiveUp
    <2>2. \A u \in Tasks : at'[u] = "reading" => at[u] = "reading"
      BY <2>1
    <2>3. QED
      BY <2>1, <2>2 DEF Paired
  <1>6. ASSUME NEW t \in Tasks, Closed(t) PROVE Pairing'
    BY <1>6 DEF Closed, EndJob, Paired
  <1>7. ASSUME NEW c \in Clients, Serve(c) PROVE Pairing'
    <2> SUFFICES ASSUME NEW u \in Tasks, at'[u] = "reading" PROVE Paired(u, on[u])'
      BY DEF Paired
    <2>1. at[u] = "reading" /\ on' = on /\ job' = job /\ asked' = asked /\ held \subseteq held'
      BY <1>7, ServeMoves
    <2>2. CASE on[u] # c
      <3>1. on[u] \in Clients
        BY <2>1
      <3>2. inbox'[on[u]] = inbox[on[u]] /\ outbox'[on[u]] = outbox[on[u]]
        BY <1>7, ServeMoves, <2>2, <3>1
      <3>3. QED
        BY <2>1, <3>2 DEF Paired
    <2>3. CASE on[u] = c
      <3>1. inbox[c] \in Seq(Command) /\ outbox[c] \in Seq(Answer) /\ inbox[c] # <<>> /\ inbox'[c] = Tail(inbox[c])
        BY <1>7, ServeMoves
      <3>2. Paired(u, c)
        BY <2>1, <2>3
      <3>3. Len(inbox[c]) = 1 /\ outbox[c] = <<>> /\ inbox'[c] = <<>>
        <4>1. Len(inbox[c]) + Len(outbox[c]) <= 1
          BY <3>2 DEF Paired
        <4>2. QED
          BY <3>1, <4>1, OneMessage
      <3>4. CASE outbox'[c] = <<>>
        BY <2>1, <2>3, <3>3, <3>4 DEF Paired
      <3>5. ASSUME NEW a \in Answer, outbox'[c] = <<a>>, a.to = u /\ a.number = asked[u],
                   job[u] # None /\ a.value = job[u] => u \in held'
            PROVE  Paired(u, on[u])'
        BY <2>1, <2>3, <3>3, <3>5 DEF Paired
      <3>6. QED
        <4>1. CASE outbox'[c] = outbox[c]
          BY <3>3, <3>4, <4>1
        <4>2. CASE outbox'[c] # outbox[c]
          <5>1. PICK a \in Answer :
                  /\ outbox'[c] = Append(outbox[c], a)
                  /\ a.to = Head(inbox[c]).from /\ a.number = Head(inbox[c]).number
                  /\ \A t \in Tasks : job[t] # None /\ a.value = job[t] => t \in held'
            <6> HIDE DEF AInv, LInv
            <6>1. LInv
              BY DEF AInv
            <6>2. QED
              BY <1>7, <4>2, <6>1, ServeMoves
          <5>2. outbox'[c] = <<a>>
            BY <3>3, <5>1
          <5>3. a.to = u /\ a.number = asked[u]
            BY <3>1, <3>2, <5>1 DEF Paired
          <5>4. QED
            BY <3>5, <5>1, <5>2, <5>3
        <4>3. QED
          BY <4>1, <4>2
    <2>4. QED
      BY <2>2, <2>3
  <1>8. CASE Restart
    BY <1>8 DEF Restart, Paired
  <1>9. CASE UNCHANGED <<inbox, outbox, at, on, job, asked, held>>
    BY <1>9 DEF Paired
  <1>10. QED
    BY <1>0, <1>1, <1>2, <1>3, <1>4, <1>5, <1>6, <1>7, <1>8, <1>9
    DEF Next, Reading, vars, Connect, DropBegins, DropEnds

\* The strengthening is inductive.
LEMMA UntilStep == Until /\ [Next]_vars => Until'
  <1> SUFFICES ASSUME Until, [Next]_vars PROVE Until'
    OBVIOUS
  <1>1. LInv'
    BY SocketStep, TaskStep, CapturedStep, LockStep DEF LInv, Until
  <1>2. ASSUME Uncancelled' PROVE AInv'
    <2>1. AInv
      BY <1>2, GoneStays DEF Until, LInv
    <2>2. QED
      BY <1>1, <1>2, <2>1, QuietStep, PairingStep DEF AInv
  <1>3. QED
    BY <1>1, <1>2 DEF Until

\* The types, the queue of the lock included.
THEOREM TypeCorrect == ASSUME ~CanCancel PROVE Spec => []TypeOK
  <1>1. QueueType /\ Until /\ [Next]_vars => QueueType'
    <2> SUFFICES ASSUME QueueType, Until, [Next]_vars PROVE QueueType'
      OBVIOUS
    <2> USE DEF QueueType, Until, LInv, SocketType, TaskType, Captured, lockVars
    <2>1. ASSUME NEW t \in Tasks, NEW v \in Values, BeginWrite(t, v) \/ BeginRead(t) PROVE QueueType'
      <3>1. current \in Clients /\ waiting' = [waiting EXCEPT ![current] = Append(@, t)]
        BY <2>1 DEF BeginWrite, BeginRead, Begin
      <3>2. Append(waiting[current], t) \in Seq(Tasks)
        BY <3>1
      <3>3. QED
        BY <3>1, <3>2
    <2>2. ASSUME NEW t \in Tasks, Grant(t) PROVE QueueType'
      BY <2>2 DEF Grant
    <2>3. ASSUME NEW t \in Tasks, Receive(t) PROVE QueueType'
      <3>1. on[t] \in Clients
        BY <2>3 DEF Receive
      <3>2. waiting' = waiting \/ waiting' = [waiting EXCEPT ![on[t]] = Append(@, t)]
        BY <2>3 DEF Receive
      <3>3. Append(waiting[on[t]], t) \in Seq(Tasks)
        BY <3>1
      <3>4. QED
        BY <3>1, <3>2, <3>3
    <2>4. CASE UNCHANGED waiting
      BY <2>4
    <2>5. QED
      BY <2>1, <2>2, <2>3, <2>4
      DEF Next, Reading, vars, Cancel, Connect, Serve, DropBegins, DropEnds, Restart, Closed, EndOfStream, TimesOut, GiveUp
  <1>2. QueueType /\ Until => TypeOK
    BY DEF TypeOK, Until, LInv
  <1>3. QED
    BY <1>1, <1>2, InitHolds, UntilStep, PTL DEF Spec

\* ControlClient.request: until a task is cancelled inside a command, whoever times
\* out, drops the connection or restarts the daemon, the document a task reads
\* answers the command it sent last.
THEOREM AnswersAlwaysPaired == Spec => []AnswersItsCommand
  <1>1. Until => AnswersItsCommand
    BY DEF Until, AInv, Pairing, Paired, AnswersItsCommand
  <1>2. QED
    BY <1>1, InitHolds, UntilStep, PTL DEF Spec

\* No other action ends a job with the verdict a verified write gets.
LEMMA OnlyReceiveVerifies ==
    ASSUME TaskType, [Next]_vars, NEW t \in Tasks, verdict[t] # "ok", verdict'[t] = "ok"
    PROVE  Receive(t)
  <1> USE DEF TaskType, jobVars
  <1>1. ASSUME NEW u \in Tasks, Grant(u) \/ Closed(u) \/ Cancel(u) PROVE FALSE
    <2>1. verdict' = verdict \/ EndJob(u, "failed") \/ EndJob(u, "cancelled")
      BY <1>1 DEF Grant, Closed, Cancel
    <2>2. QED
      BY <2>1 DEF EndJob
  <1>2. ASSUME NEW u \in Tasks, NEW v \in Values, BeginWrite(u, v) \/ BeginRead(u) PROVE FALSE
    BY <1>2 DEF BeginWrite, BeginRead, Begin
  <1>3. ASSUME NEW u \in Tasks, Receive(u) PROVE u = t
    <2>1. verdict' = verdict \/ EndJob(u, Outcome(u, Head(outbox[on[u]])))
      BY <1>3 DEF Receive
    <2>2. QED
      BY <2>1 DEF EndJob
  <1>4. verdict' # verdict
    OBVIOUS
  <1>5. QED
    BY <1>1, <1>2, <1>3, <1>4
    DEF Next, Reading, vars, EndOfStream, TimesOut, GiveUp, Connect, Serve, DropBegins, DropEnds, Restart

\* writer.apply_live: under the same condition a write reported verified is one
\* whose value the daemon held at some moment since it began.
THEOREM VerifiedAlwaysHeld == Spec => VerifiedMeansHeld
  <1>1. ASSUME AInv, [Next]_vars, NEW t \in Tasks, job[t] # None, verdict[t] # "ok", verdict'[t] = "ok"
        PROVE  t \in held
    <2> USE DEF AInv, LInv, TaskType, SocketType
    <2>1. Receive(t)
      BY <1>1, OnlyReceiveVerifies
    <2>2. outbox[on[t]] # <<>> /\ Paired(t, on[t])
      <3>1. at[t] = "reading" /\ outbox[on[t]] # <<>>
        BY <2>1 DEF Receive
      <3>2. QED
        BY <1>1, <3>1 DEF Pairing
    <2>3. verdict'[t] = Outcome(t, Head(outbox[on[t]]))
      BY <1>1, <2>1 DEF Receive, EndJob
    <2>4. Head(outbox[on[t]]).value = job[t]
      BY <1>1, <2>3 DEF Outcome
    <2>5. QED
      BY <1>1, <2>2, <2>4 DEF Paired
  <1>2. Until /\ [Next]_vars => [Uncancelled => \A t \in Tasks : job[t] # None /\ verdict[t] # "ok" /\ verdict'[t] = "ok" => t \in held]_vars
    BY <1>1 DEF Until
  <1>3. QED
    BY <1>2, InitHolds, UntilStep, PTL DEF Spec, VerifiedMeansHeld
=============================================================================
