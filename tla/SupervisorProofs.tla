-------------------------- MODULE SupervisorProofs --------------------------
(* Proofs about the supervisor for every number of hosts, lanes, restarts,   *)
(* faults and retargets.                                                     *)
EXTENDS Supervisor, TLAPS

\* What the proofs need beside the checked invariants: a lane has no instance
\* on record before it posted to one.
RecordsAgree == \A l \in Lanes : phase[l] \in {"idle", "marked"} => served[l] = None

\* Nobody is still closing an older connection once a dial was answered, and no
\* lane closes the one a connect body works on.
ClosingAgrees ==
    /\ pc = "shake" => ~Closing
    /\ pc \in {"forms", "files"} => \A l \in Lanes : phase[l] # "closing"

\* A connect body without a standing client, or a connection that reads as connected
\* and does not stand, is the work of a change of address.
OvertakenAgrees == (pc \in {"forms", "files"} \/ connected) /\ ~reachable => retargets > 0

IInv == TypeOK /\ LinkAgrees /\ LoopAgrees /\ ClosingAgrees /\ OvertakenAgrees /\ NoSleepThrough
        /\ RecordsAgree /\ EvidenceIsOfTheRestart

USE HostsAssumption, BoundsAssumption, SwitchesAssumption, NoneAssumption

\* The configuration page answers or does not.
LEMMA ConfigAnswersType == ASSUME TypeOK, NEW h \in Hosts PROVE ConfigAnswers(h) \subseteq BOOLEAN
  BY DEF ConfigAnswers

\* Waking the sleepers and muddying the history keep their types.
LEMMA WokenType ==
    ASSUME TypeOK PROVE Woken(phase) \in [Lanes -> Phases]
  BY DEF Woken, TypeOK, LaneType, Phases, InFlight, Finished

\* Only lanes are muddied.
LEMMA MuddyingType == ASSUME TypeOK PROVE Muddying \subseteq Lanes
  BY DEF Muddying, TypeOK, LaneType

\* A torn-down connection leaves well-typed variables behind, counted or not.
LEMMA DropType ==
    ASSUME TypeOK, CountedDrop \/ OwnDrop
    PROVE  /\ drops' \in Nat /\ muddied' \subseteq Lanes
           /\ {unmet, reachable, connected}' \subseteq BOOLEAN
  <1>1. {unmet, reachable, connected}' \subseteq BOOLEAN
    BY DEF CountedDrop, OwnDrop, TypeOK, FlagType
  <1>2. drops' \in Nat
    BY DEF CountedDrop, OwnDrop, TypeOK, LinkType
  <1>3. muddied' \subseteq Lanes
    BY MuddyingType DEF CountedDrop, OwnDrop, TypeOK, LaneType
  <1>4. QED
    BY <1>1, <1>2, <1>3

\* The flags, counters and places of the loop keep their types.
LEMMA TypeStep == TypeOK /\ [Next]_vars => TypeOK'
  <1> SUFFICES ASSUME TypeOK, [Next]_vars PROVE TypeOK'
    OBVIOUS
  <1>a. /\ Woken(phase) \in [Lanes -> Phases] /\ Muddying \subseteq Lanes
        /\ \A h \in Hosts : ConfigAnswers(h) \subseteq BOOLEAN
    BY WokenType, MuddyingType, ConfigAnswersType
  <1>b. /\ {"dial", "shake", "forms", "files", "poll", "pollForms", "pollCaps", "idle", "retry", "closing"}
              \subseteq Places
        /\ Phases = {"idle"} \cup InFlight \cup Finished
    BY DEF Places, Connecting, Polling, Idling, Phases
  <1> USE DEF TypeOK, FlagType, DaemonType, LinkType, LoopType, LaneType,
              daemonVars, linkVars, countVars, httpVars, loopVars, laneVars, budgetVars
  <1>1. CASE DialAnswered
    BY <1>1, <1>b DEF DialAnswered, Instance
  <1>2. CASE DialRefused
    BY <1>2, <1>a, DropType, <1>b DEF DialRefused, ConnectFails
  <1>3. CASE HandshakeAnswered
    BY <1>3, <1>b DEF HandshakeAnswered, Alive
  <1>4. CASE HandshakeFails
    BY <1>4, <1>a, DropType, <1>b DEF HandshakeFails, ConnectFails
  <1>5. CASE ConnectForms
    BY <1>5, <1>a, <1>b DEF ConnectForms
  <1>6. CASE ConnectDone
    <2>1. CASE client = None
      BY <1>6, <2>1, <1>a, DropType, <1>b DEF ConnectDone, EnterLoop
    <2>2. CASE client # None
      BY <1>6, <2>2, <1>a, <1>b DEF ConnectDone, EnterLoop
    <2>3. QED
      BY <2>1, <2>2
  <1>7. CASE ArchiveUnreadable
    BY <1>7, <1>b DEF ArchiveUnreadable
  <1>8. CASE PollAnswered
    BY <1>8, <1>b DEF PollAnswered
  <1>9. CASE PollBroken
    BY <1>9, <1>a, DropType, <1>b DEF PollBroken, PollFails, EnterLoop
  <1>29. CASE LoopClosed
    BY <1>29, <1>b DEF LoopClosed, EnterLoop
  <1>10. CASE PollForms
    BY <1>10, <1>a, <1>b DEF PollForms
  <1>11. CASE PollDone
    BY <1>11, <1>a, <1>b DEF PollDone
  <1>12. CASE IdleEnds
    BY <1>12, <1>b DEF IdleEnds, EnterLoop
  <1>13. CASE ConnectFault
    BY <1>13, <1>a, DropType, <1>b DEF ConnectFault, ConnectFails
  <1>14. CASE PollFault
    <2>1. PICK refused \in BOOLEAN : PollFails(refused)
      BY <1>14 DEF PollFault
    <2>2. faults' \in Nat
      BY <1>14 DEF PollFault
    <2>3. QED
      BY <2>1, <2>2, <1>a, DropType, <1>b DEF PollFails, EnterLoop
  <1>15. CASE RouteRefresh
    BY <1>15, <1>a, <1>b DEF RouteRefresh
  <1>16. ASSUME NEW l \in Lanes, MarkConnect(l) PROVE TypeOK'
    BY <1>16 DEF MarkConnect, Mark, Phases, InFlight, Finished
  <1>17. ASSUME NEW l \in Lanes, Post(l) PROVE TypeOK'
    BY <1>17 DEF Post, Instance, Phases, InFlight, Finished
  <1>18. ASSUME NEW l \in Lanes, Adopt(l) PROVE TypeOK'
    BY <1>18 DEF Adopt, Alive, Instance, Phases, InFlight, Finished
  <1>19. ASSUME NEW l \in Lanes, PostFails(l) PROVE TypeOK'
    BY <1>19 DEF PostFails, Phases, InFlight, Finished
  <1>20. ASSUME NEW l \in Lanes, PostReturns(l) PROVE TypeOK'
    BY <1>20, <1>a, DropType, <1>b DEF PostReturns, Restarting, Phases, InFlight, Finished
  <1>30. ASSUME NEW l \in Lanes, LaneClosed(l) PROVE TypeOK'
    BY <1>30, <1>b DEF LaneClosed, Phases, InFlight, Finished
  <1>31. CASE RouteClosed
    BY <1>31 DEF RouteClosed
  <1>21. ASSUME NEW l \in Lanes, AwaitReady(l) PROVE TypeOK'
    BY <1>21 DEF AwaitReady, Phases, InFlight, Finished
  <1>22. ASSUME NEW l \in Lanes, WaitExpires(l) PROVE TypeOK'
    BY <1>22 DEF WaitExpires, Phases, InFlight, Finished
  <1>23. ASSUME NEW h \in Hosts, Retarget(h) PROVE TypeOK'
    BY <1>23, <1>a, DropType, <1>b DEF Retarget
  <1>24. ASSUME NEW h \in Hosts, SelfRestart(h) \/ Crash(h) PROVE TypeOK'
    BY <1>24 DEF SelfRestart, Crash, GoesDown, WebStates
  <1>25. ASSUME NEW h \in Hosts, ControlComesUp(h) PROVE TypeOK'
    BY <1>25 DEF ControlComesUp
  <1>26. ASSUME NEW h \in Hosts, WebComesUp(h) PROVE TypeOK'
    BY <1>26 DEF WebComesUp, WebStates
  <1>27. CASE UNCHANGED vars
    BY <1>27 DEF vars
  <1>28. QED
    BY <1>1, <1>2, <1>3, <1>4, <1>5, <1>6, <1>7, <1>8, <1>9, <1>10, <1>11, <1>12, <1>13, <1>14, <1>15,
       <1>16, <1>17, <1>18, <1>19, <1>20, <1>21, <1>22, <1>23, <1>24, <1>25, <1>26, <1>27, <1>29, <1>30, <1>31
       DEF Next, LoopStep, ConnectStep, PollStep, LoopFault, RouteStep, LaneStep, LaneChoice, DaemonStep

\* The process starts with every variable in its type.
LEMMA TypeInit == Init => TypeOK
  <1>1. Init => FlagType
    BY DEF Init, FlagType
  <1>2. Init => DaemonType
    BY DEF Init, DaemonType, WebStates
  <1>3. Init => LinkType
    BY DEF Init, LinkType
  <1>4. Init => LoopType
    BY DEF Init, LoopType, Places, Connecting
  <1>5. Init => LaneType
    BY DEF Init, LaneType, Phases
  <1>6. QED
    BY <1>1, <1>2, <1>3, <1>4, <1>5 DEF Init, TypeOK

-----------------------------------------------------------------------------
(* Who may touch what: the few ways a step can move the connection, the      *)
(* counters a wait reads, and the lanes.                                     *)

\* The flags and the counters move in five ways and no other; any other step leaves
\* them, and the client as it is or let go of.
Torn == CountedDrop /\ UNCHANGED <<countVars, httpOk, epoch, served, mark>> /\ phase' = Woken(phase)
        /\ client' \in {client, None} /\ (client' = None \/ pc \in {"dial", "shake"} \/ Closing')
Quiet == /\ UNCHANGED <<reachable, connected, drops, countVars, httpOk, muddied>>
         /\ client' = client \/ (client' = None /\ Closing)

LEMMA LinkMoves ==
    [Next]_vars => \/ Torn
                   \/ HandshakeAnswered
                   \/ ConnectDone
                   \/ PollDone
                   \/ \E l \in Lanes : PostReturns(l)
                   \/ Quiet
  <1> USE DEF linkVars, countVars, httpVars, daemonVars, laneVars, Torn, Quiet
  <1>1. ConnectStep \/ ConnectFault => Torn \/ HandshakeAnswered \/ ConnectDone \/ Quiet
    BY DEF ConnectStep, DialAnswered, DialRefused, HandshakeFails, ConnectFault, ConnectFails, ConnectForms,
           ArchiveUnreadable
  <1>7. PollStep \/ PollFault => Torn \/ PollDone \/ Quiet
    BY DEF PollStep, PollAnswered, PollBroken, PollFault, PollFails, LoopClosed, PollForms, IdleEnds, EnterLoop, Closing
  <1>2. ASSUME NEW l \in Lanes, LaneStep(l) \/ LaneChoice(l)
        PROVE  PostReturns(l) \/ Quiet
    BY <1>2 DEF LaneStep, LaneChoice, MarkConnect, Post, Adopt, PostFails, LaneClosed, AwaitReady, WaitExpires, Closing
  <1>3. ASSUME NEW h \in Hosts, DaemonStep(h) \/ Crash(h)
        PROVE  Quiet
    BY <1>3 DEF DaemonStep, SelfRestart, Crash, GoesDown, ControlComesUp, WebComesUp
  <1>4. ASSUME NEW h \in Hosts, Retarget(h)
        PROVE  Torn
    BY <1>4 DEF Retarget, Closing
  <1>5. RouteStep \/ UNCHANGED vars => Quiet
    BY DEF RouteStep, RouteClosed, RouteRefresh, Closing, vars
  <1>6. QED
    BY <1>1, <1>2, <1>3, <1>4, <1>5, <1>7 DEF Next, LoopStep, LoopFault

\* A lane is moved by its own actions, and by others only to be woken.
LEMMA LaneMoves ==
    ASSUME TypeOK, [Next]_vars, NEW l \in Lanes
    PROVE  \/ phase'[l] \in {phase[l], Woken(phase)[l]} /\ mark'[l] = mark[l] /\ served'[l] = served[l]
           \/ LaneStep(l) \/ LaneChoice(l)
  <1> USE DEF laneVars
  <1>1. LoopStep \/ LoopFault \/ RouteStep =>
            phase' \in {phase, Woken(phase)} /\ mark' = mark /\ served' = served
    BY DEF LoopStep, ConnectStep, PollStep, LoopFault, DialAnswered, DialRefused, HandshakeAnswered,
           HandshakeFails, ConnectFault, ConnectFails, ConnectForms, ConnectDone, ArchiveUnreadable,
           PollAnswered, PollBroken, PollFault, PollFails, LoopClosed, PollForms, PollDone, IdleEnds,
           RouteStep, RouteClosed, RouteRefresh
  <1>2. ASSUME NEW k \in Lanes, k # l, LaneStep(k) \/ LaneChoice(k)
        PROVE  phase'[l] \in {phase[l], Woken(phase)[l]} /\ mark'[l] = mark[l] /\ served'[l] = served[l]
    BY <1>2 DEF LaneStep, LaneChoice, MarkConnect, Post, Adopt, PostFails, PostReturns, Restarting, LaneClosed,
                AwaitReady, WaitExpires, Woken, TypeOK, LaneType
  <1>3. ASSUME NEW h \in Hosts, DaemonStep(h) \/ Crash(h) \/ Retarget(h)
        PROVE  phase' \in {phase, Woken(phase)} /\ mark' = mark /\ served' = served
    BY <1>3 DEF DaemonStep, SelfRestart, Crash, GoesDown, ControlComesUp, WebComesUp, Retarget
  <1>4. UNCHANGED vars => phase' = phase /\ mark' = mark /\ served' = served
    BY DEF vars
  <1>5. QED
    BY <1>1, <1>2, <1>3, <1>4 DEF Next

\* A teardown begins and ends in six steps and no other.
LEMMA ClosingMoves ==
    ASSUME TypeOK, [Next]_vars
    PROVE  \/ Closing' = Closing
           \/ PollFault \/ LoopClosed \/ RouteClosed
           \/ \E l \in Lanes : PostReturns(l) \/ LaneClosed(l)
           \/ \E h \in Hosts : Retarget(h)
  <1> USE DEF Closing, TypeOK, LaneType, linkVars, loopVars, laneVars
  <1>1. ASSUME phase' \in {phase, Woken(phase)}, route' = route, pc # "closing", pc' # "closing"
        PROVE  Closing' = Closing
    BY <1>1 DEF Woken
  <1>2. CASE ConnectStep \/ ConnectFault
    BY <1>1, <1>2 DEF ConnectStep, DialAnswered, DialRefused, HandshakeAnswered, HandshakeFails, ConnectFault,
           ConnectFails, ConnectForms, ConnectDone, EnterLoop, ArchiveUnreadable
  <1>3. CASE PollStep
    BY <1>1, <1>3 DEF PollStep, PollAnswered, PollBroken, PollFails, PollForms, PollDone, IdleEnds, Idling, EnterLoop
  <1>4. ASSUME NEW l \in Lanes, AwaitReady(l) \/ LaneChoice(l) PROVE Closing' = Closing
    <2>1. phase[l] # "closing" /\ phase'[l] # "closing" /\ pc' = pc /\ route' = route
      BY <1>4 DEF LaneChoice, AwaitReady, MarkConnect, Post, Adopt, PostFails, WaitExpires
    <2>2. \A k \in Lanes : k # l => phase'[k] = phase[k]
      BY <1>4 DEF LaneChoice, AwaitReady, MarkConnect, Post, Adopt, PostFails, WaitExpires
    <2>3. QED
      BY <2>1, <2>2
  <1>5. ASSUME NEW h \in Hosts, DaemonStep(h) \/ Crash(h) PROVE Closing' = Closing
    BY <1>5 DEF DaemonStep, SelfRestart, Crash, GoesDown, ControlComesUp, WebComesUp
  <1>6. CASE RouteRefresh \/ UNCHANGED vars
    BY <1>6 DEF RouteRefresh, vars
  <1>7. QED
    BY <1>2, <1>3, <1>4, <1>5, <1>6 DEF Next, LoopStep, LoopFault, LaneStep, RouteStep

\* The flags keep describing the connection attached, a teardown half way included.
LEMMA LinkStep == IInv /\ [Next]_vars => LinkAgrees'
  <1> SUFFICES ASSUME IInv, [Next]_vars PROVE LinkAgrees'
    OBVIOUS
  <1> USE DEF LinkAgrees, IInv
  <1>1. reachable' = (client' # None /\ ~Closing')
    <2>1. CASE PollFault
      BY <2>1 DEF PollFault, PollFails, CountedDrop, EnterLoop, Closing
    <2>2. CASE LoopClosed \/ RouteClosed
      BY <2>2 DEF LoopClosed, RouteClosed, Closing
    <2>3. CASE \E l \in Lanes : LaneClosed(l)
      BY <2>3 DEF LaneClosed, Closing
    <2>4. ASSUME NEW l \in Lanes, PostReturns(l) PROVE reachable' = (client' # None /\ ~Closing')
      <3>1. CASE mark[l] # None /\ connected
        <4>1. reachable' = FALSE /\ client' = client
          BY <2>4, <3>1 DEF PostReturns, Restarting, OwnDrop
        <4>2. client # None => phase'[l] = "closing"
          BY <2>4, <3>1 DEF PostReturns, Restarting, TypeOK, LaneType, Woken
        <4>3. QED
          BY <4>1, <4>2 DEF Closing
      <3>2. CASE ~(mark[l] # None /\ connected)
        <4>1. UNCHANGED <<reachable, client, pc, route>> /\ phase' = [phase EXCEPT ![l] = "returned"]
          BY <2>4, <3>2 DEF PostReturns, Restarting, linkVars, loopVars
        <4>2. Closing' = Closing
          BY <2>4, <4>1 DEF Closing, PostReturns, TypeOK, LaneType
        <4>3. QED
          BY <4>1, <4>2
      <3>3. QED
        BY <3>1, <3>2
    <2>5. ASSUME NEW h \in Hosts, Retarget(h) PROVE reachable' = (client' # None /\ ~Closing')
      BY <2>5 DEF Retarget, CountedDrop, Closing
    <2>6. CASE Closing' = Closing
      <3>1. CASE HandshakeAnswered
        BY <2>6, <3>1 DEF HandshakeAnswered, Alive, ClosingAgrees
      <3>2. CASE Torn
        BY <2>6, <3>2 DEF Torn, CountedDrop, LoopAgrees
      <3>3. CASE ConnectDone \/ PollDone
        BY <2>6, <3>3 DEF ConnectDone, PollDone, CountedDrop, linkVars
      <3>4. CASE Quiet
        BY <2>6, <3>4 DEF Quiet
      <3>5. QED
        BY <2>4, <3>1, <3>2, <3>3, <3>4, LinkMoves
    <2>7. QED
      BY <2>1, <2>2, <2>3, <2>4, <2>5, <2>6, ClosingMoves
  <1>2. connected' => dropsAtConnect' = drops'
    <2>1. Torn \/ Quiet \/ HandshakeAnswered \/ ConnectDone \/ PollDone => (connected' => dropsAtConnect' = drops')
      BY DEF Torn, CountedDrop, Quiet, HandshakeAnswered, ConnectDone, PollDone, linkVars, countVars
    <2>2. ASSUME NEW l \in Lanes, PostReturns(l) PROVE connected' => dropsAtConnect' = drops'
      BY <2>2 DEF PostReturns, Restarting, OwnDrop, linkVars, countVars
    <2>3. QED
      BY <2>1, <2>2, LinkMoves
  <1>3. connected' => reachable' \/ pc' = "poll"
    <2>7. CASE PollAnswered
      BY <2>7 DEF PollAnswered, Alive, linkVars
    <2>8. CASE LoopClosed
      BY <2>8 DEF LoopClosed
    <2>1. CASE PollStep \/ PollFault
      <3>1. CASE PollForms \/ PollDone \/ IdleEnds
        BY <3>1 DEF PollForms, PollDone, IdleEnds, Idling, EnterLoop, linkVars
      <3>2. CASE PollBroken \/ PollFault
        BY <3>2 DEF PollBroken, PollFault, PollFails, CountedDrop
      <3>3. QED
        BY <2>1, <2>7, <2>8, <3>1, <3>2 DEF PollStep
    <2>2. CASE ConnectStep \/ ConnectFault
      BY <2>2 DEF ConnectStep, DialAnswered, DialRefused, HandshakeAnswered, HandshakeFails, ConnectFault,
                  ConnectFails, CountedDrop, ConnectForms, ConnectDone, EnterLoop, ArchiveUnreadable, linkVars,
                  LoopAgrees, Connecting
    <2>3. ASSUME NEW l \in Lanes, LaneStep(l) \/ LaneChoice(l) PROVE connected' => reachable' \/ pc' = "poll"
      BY <2>3 DEF LaneStep, LaneChoice, MarkConnect, Post, Adopt, PostFails, PostReturns, Restarting, OwnDrop,
                  LaneClosed, AwaitReady, WaitExpires, linkVars, loopVars
    <2>4. ASSUME NEW h \in Hosts, DaemonStep(h) \/ Crash(h) \/ Retarget(h)
          PROVE  connected' => reachable' \/ pc' = "poll"
      BY <2>4 DEF DaemonStep, SelfRestart, Crash, GoesDown, ControlComesUp, WebComesUp, Retarget, CountedDrop,
                  linkVars, loopVars
    <2>5. CASE RouteStep \/ UNCHANGED vars
      BY <2>5 DEF RouteStep, RouteClosed, RouteRefresh, vars, linkVars, loopVars
    <2>6. QED
      BY <2>1, <2>2, <2>3, <2>4, <2>5 DEF Next, LoopStep, LoopFault
  <1>7. QED
    BY <1>1, <1>2, <1>3

\* No step makes a sleeping lane's condition true and leaves it asleep.
LEMMA SleepStep == IInv /\ [Next]_vars => NoSleepThrough'
  <1> SUFFICES ASSUME IInv, [Next]_vars, NEW l \in Lanes, phase'[l] = "asleep" PROVE ~Satisfied(l)'
    BY DEF NoSleepThrough
  <1>1. Torn \/ OwnDrop => ~Satisfied(l)'
    BY DEF Torn, CountedDrop, OwnDrop, Satisfied, Ready
  <1>2. Woken(phase)[l] # "asleep"
    BY DEF Woken
  <1>3. ~ConnectDone /\ ~PollDone
    BY <1>2 DEF ConnectDone, PollDone
  <1>4. CASE \E k \in Lanes : PostReturns(k)
    <2>1. PICK k \in Lanes : PostReturns(k)
      BY <1>4
    <2>2. phase[l] = "asleep" /\ k # l
      BY <2>1 DEF PostReturns, Restarting, Woken, IInv, TypeOK, LaneType
    <2>3. QED
      BY <2>1, <2>2, <1>1 DEF PostReturns, Restarting, IInv, NoSleepThrough, Satisfied, Ready,
                              linkVars, countVars, httpVars
  <1>5. CASE HandshakeAnswered
    BY <1>5 DEF HandshakeAnswered, IInv, NoSleepThrough, Satisfied, Ready, countVars, httpVars, laneVars
  <1>6. CASE Quiet
    <2>1. CASE phase'[l] \in {phase[l], Woken(phase)[l]} /\ mark'[l] = mark[l] /\ served'[l] = served[l]
      BY <1>2, <1>6, <2>1 DEF Quiet, IInv, NoSleepThrough, Satisfied, Ready, linkVars, countVars
    <2>2. CASE LaneStep(l) \/ LaneChoice(l)
      <3>1. AwaitReady(l)
        BY <2>2 DEF LaneStep, LaneChoice, MarkConnect, Post, Adopt, PostFails, PostReturns, Restarting,
                    LaneClosed, WaitExpires, Woken, IInv, TypeOK, LaneType
      <3>2. QED
        BY <3>1 DEF AwaitReady, IInv, TypeOK, LaneType, Satisfied, Ready, linkVars, countVars, httpVars
    <2>3. QED
      BY <2>1, <2>2, LaneMoves DEF IInv
  <1>7. QED
    BY <1>1, <1>3, <1>4, <1>5, <1>6, LinkMoves

\* The loop's place and the attached client keep each other's company.
LEMMA LoopStepAgrees == IInv /\ [Next]_vars => LoopAgrees'
  <1> SUFFICES ASSUME IInv, [Next]_vars PROVE LoopAgrees'
    OBVIOUS
  <1> USE DEF LoopAgrees, Connecting, Polling, IInv
  <1>1. CASE DialAnswered \/ ConnectForms \/ ArchiveUnreadable \/ PollAnswered \/ PollForms \/ PollDone
    BY <1>1 DEF DialAnswered, ConnectForms, ArchiveUnreadable, PollAnswered, PollForms, PollDone, linkVars
  <1>2. CASE HandshakeAnswered
    BY <1>2 DEF HandshakeAnswered
  <1>3. CASE ConnectDone
    BY <1>3 DEF ConnectDone, EnterLoop, CountedDrop
  <1>4. CASE DialRefused \/ HandshakeFails \/ ConnectFault
    BY <1>4 DEF DialRefused, HandshakeFails, ConnectFault, ConnectFails, CountedDrop
  <1>5. CASE PollBroken \/ PollFault
    BY <1>5 DEF PollBroken, PollFault, PollFails, EnterLoop, CountedDrop
  <1>13. CASE LoopClosed
    BY <1>13 DEF LoopClosed, EnterLoop, LinkAgrees, Closing
  <1>6. CASE IdleEnds
    BY <1>6 DEF IdleEnds, EnterLoop, Idling, linkVars, LinkAgrees
  <1>7. CASE RouteStep \/ UNCHANGED vars
    BY <1>7 DEF RouteStep, RouteClosed, RouteRefresh, linkVars, loopVars, vars
  <1>8. ASSUME NEW l \in Lanes, PostReturns(l) PROVE LoopAgrees'
    BY <1>8 DEF PostReturns, Restarting, OwnDrop, linkVars, loopVars
  <1>9. ASSUME NEW l \in Lanes, LaneClosed(l) \/ AwaitReady(l) \/ LaneChoice(l) PROVE LoopAgrees'
    BY <1>9 DEF LaneChoice, LaneClosed, AwaitReady, MarkConnect, Post, Adopt, PostFails, WaitExpires, linkVars, loopVars
  <1>10. ASSUME NEW h \in Hosts, DaemonStep(h) \/ Crash(h) PROVE LoopAgrees'
    BY <1>10 DEF DaemonStep, SelfRestart, Crash, GoesDown, ControlComesUp, WebComesUp, linkVars, loopVars
  <1>11. ASSUME NEW h \in Hosts, Retarget(h) PROVE LoopAgrees'
    BY <1>11 DEF Retarget, CountedDrop, loopVars
  <1>12. QED
    BY <1>1, <1>2, <1>3, <1>4, <1>5, <1>6, <1>7, <1>8, <1>9, <1>10, <1>11, <1>13
       DEF Next, LoopStep, ConnectStep, PollStep, LoopFault, LaneStep

\* A connect body is entered by the handshake alone, and a handshake by a dial.
LEMMA BodyMoves ==
    ASSUME [Next]_vars
    PROVE  /\ pc' = "shake" => pc = "shake" \/ DialAnswered
           /\ pc' \in {"forms", "files"} => pc \in {"forms", "files"} \/ HandshakeAnswered
  <1>1. pc' = "shake" => pc = "shake" \/ DialAnswered
    BY  DEF Next, LoopStep, ConnectStep, PollStep, LoopFault, HandshakeAnswered, DialRefused,
           HandshakeFails, ConnectFault, ConnectFails, ConnectForms, ConnectDone, ArchiveUnreadable, EnterLoop,
           PollAnswered, PollBroken, PollFault, PollFails, LoopClosed, PollForms, PollDone, IdleEnds,
           RouteStep, RouteClosed, RouteRefresh, LaneStep, LaneChoice, MarkConnect, Post, Adopt, PostFails,
           PostReturns, LaneClosed, AwaitReady, WaitExpires, DaemonStep, SelfRestart, Crash, GoesDown,
           ControlComesUp, WebComesUp, Retarget, loopVars, vars
  <1>2. pc' \in {"forms", "files"} => pc \in {"forms", "files"} \/ HandshakeAnswered
    BY  DEF Next, LoopStep, ConnectStep, PollStep, LoopFault, DialAnswered, DialRefused,
           HandshakeFails, ConnectFault, ConnectFails, ConnectForms, ConnectDone, ArchiveUnreadable, EnterLoop,
           PollAnswered, PollBroken, PollFault, PollFails, LoopClosed, PollForms, PollDone, IdleEnds,
           RouteStep, RouteClosed, RouteRefresh, LaneStep, LaneChoice, MarkConnect, Post, Adopt, PostFails,
           PostReturns, LaneClosed, AwaitReady, WaitExpires, DaemonStep, SelfRestart, Crash, GoesDown,
           ControlComesUp, WebComesUp, Retarget, loopVars, vars
  <1>3. QED
    BY <1>1, <1>2

\* A dial is answered when no close is under way, and none begins on a connection
\* being made but that of POST /api/connection.
LEMMA ClosingStep == IInv /\ [Next]_vars => ClosingAgrees'
  <1> SUFFICES ASSUME IInv, [Next]_vars PROVE ClosingAgrees'
    OBVIOUS
  <1> USE DEF ClosingAgrees, IInv
  <1>1. ASSUME pc' = "shake" PROVE ~Closing'
    <2>1. CASE DialAnswered
      BY <2>1 DEF DialAnswered, Closing, laneVars
    <2>2. CASE pc = "shake"
      <3>1. ~Closing /\ client = None /\ ~connected
        BY <2>2 DEF LoopAgrees, Connecting
      <3>2. ~PollFault /\ ~LoopClosed /\ ~RouteClosed /\ (\A l \in Lanes : ~LaneClosed(l))
        BY <2>2, <3>1 DEF PollFault, LoopClosed, RouteClosed, LaneClosed, Closing
      <3>3. ASSUME NEW l \in Lanes, PostReturns(l) PROVE ~Closing'
        BY <2>2, <3>1, <3>3 DEF PostReturns, Restarting, Closing, TypeOK, LaneType, loopVars
      <3>4. ASSUME NEW h \in Hosts, Retarget(h) PROVE ~Closing'
        BY <2>2, <3>1, <3>4 DEF Retarget, Closing, Woken, TypeOK, LaneType, loopVars
      <3>5. QED
        BY <3>1, <3>2, <3>3, <3>4, ClosingMoves
    <2>3. QED
      BY <1>1, <2>1, <2>2, BodyMoves
  <1>2. ASSUME pc' \in {"forms", "files"}, NEW l \in Lanes PROVE phase'[l] # "closing"
    <2>1. CASE HandshakeAnswered
      BY <2>1 DEF HandshakeAnswered, Closing, laneVars
    <2>2. CASE pc \in {"forms", "files"}
      <3>2. phase[l] # "closing" /\ ~connected
        BY <2>2 DEF LoopAgrees, Connecting
      <3>3. CASE LaneStep(l) \/ LaneChoice(l)
        BY <3>2, <3>3 DEF LaneStep, LaneChoice, MarkConnect, Post, Adopt, PostFails, PostReturns, Restarting,
                          LaneClosed, AwaitReady, WaitExpires, TypeOK, LaneType
      <3>4. CASE phase'[l] \in {phase[l], Woken(phase)[l]}
        BY <3>2, <3>4 DEF Woken
      <3>5. QED
        BY <3>3, <3>4, LaneMoves
    <2>3. QED
      BY <1>2, <2>1, <2>2, BodyMoves
  <1>3. QED
    BY <1>1, <1>2

\* Only a change of address takes a connect body its client, or overtakes it.
LEMMA OvertakenStep == IInv /\ [Next]_vars => OvertakenAgrees'
  <1> SUFFICES ASSUME IInv, [Next]_vars PROVE OvertakenAgrees'
    OBVIOUS
  <1> USE DEF OvertakenAgrees, IInv
  <1>1. retargets' = retargets \/ \E h \in Hosts : Retarget(h)
    BY DEF Next, LoopStep, ConnectStep, PollStep, LoopFault, DialAnswered, HandshakeAnswered, DialRefused,
           HandshakeFails, ConnectFault, ConnectFails, ConnectForms, ConnectDone, ArchiveUnreadable,
           PollAnswered, PollBroken, PollFault, PollFails, LoopClosed, PollForms, PollDone, IdleEnds,
           RouteStep, RouteClosed, RouteRefresh, LaneStep, LaneChoice, MarkConnect, Post, Adopt, PostFails,
           PostReturns, LaneClosed, AwaitReady, WaitExpires, DaemonStep, SelfRestart, Crash, GoesDown,
           ControlComesUp, WebComesUp, budgetVars, vars
  <1>2. ASSUME NEW h \in Hosts, Retarget(h) PROVE retargets' > 0
    BY <1>2 DEF Retarget, TypeOK
  <1>3. CASE HandshakeAnswered
    BY <1>3 DEF HandshakeAnswered, LoopAgrees, Connecting
  <1>4. CASE ConnectDone
    BY <1>4 DEF ConnectDone, CountedDrop, EnterLoop, budgetVars
  <1>5. CASE Torn /\ retargets' = retargets
    <2>1. ~connected'
      BY <1>5 DEF Torn, CountedDrop
    <2>2. pc' \notin {"forms", "files"} \/ retargets > 0
      <3>1. LoopStep \/ LoopFault \/ RouteStep
        BY <1>5 DEF Next, LaneStep, LaneChoice, MarkConnect, Post, Adopt, PostFails, PostReturns, Restarting,
             OwnDrop, LaneClosed, AwaitReady, WaitExpires, DaemonStep, SelfRestart, Crash, GoesDown,
             ControlComesUp, WebComesUp, Retarget, linkVars, vars, TypeOK, LinkType, Torn, CountedDrop
      <3>2. QED
        BY <1>5, <3>1 DEF LoopStep, ConnectStep, PollStep, LoopFault, DialAnswered, HandshakeAnswered, DialRefused,
           HandshakeFails, ConnectFault, ConnectFails, ConnectForms, ConnectDone, ArchiveUnreadable,
           PollAnswered, PollBroken, PollFault, PollFails, LoopClosed, PollForms, PollDone, IdleEnds, EnterLoop,
           RouteStep, RouteClosed, RouteRefresh, linkVars, Torn, CountedDrop, TypeOK, LinkType
    <2>3. QED
      BY <1>5, <2>1, <2>2
  <1>6. CASE PollDone /\ retargets' = retargets
    BY <1>6 DEF PollDone, linkVars
  <1>7. ASSUME NEW l \in Lanes, PostReturns(l) PROVE OvertakenAgrees'
    BY <1>7 DEF PostReturns, Restarting, OwnDrop, LoopAgrees, Connecting, linkVars, loopVars, budgetVars
  <1>8. CASE Quiet /\ ~HandshakeAnswered /\ retargets' = retargets
    BY <1>8, BodyMoves DEF Quiet
  <1>9. QED
    BY <1>1, <1>2, <1>3, <1>4, <1>5, <1>6, <1>7, <1>8, LinkMoves

\* A lane records the instance it posts to in the step that posts.
LEMMA RecordsStep == IInv /\ [Next]_vars => RecordsAgree'
  <1> SUFFICES ASSUME IInv, [Next]_vars, NEW l \in Lanes, phase'[l] \in {"idle", "marked"} PROVE served'[l] = None
    BY DEF RecordsAgree
  <1> USE DEF RecordsAgree, IInv, TypeOK, LaneType
  <1>1. CASE phase'[l] \in {phase[l], Woken(phase)[l]} /\ mark'[l] = mark[l] /\ served'[l] = served[l]
    BY <1>1 DEF Woken
  <1>2. CASE LaneStep(l) \/ LaneChoice(l)
    BY <1>2 DEF LaneStep, LaneChoice, MarkConnect, Post, Adopt, PostFails, PostReturns, Restarting, LaneClosed,
                AwaitReady, WaitExpires, Woken
  <1>3. QED
    BY <1>1, <1>2, LaneMoves

\* An instance that is gone stays gone.
LEMMA GoneStaysGone ==
    ASSUME IInv, [Next]_vars, NEW c \in Instance, epoch[c.host] > c.epoch
    PROVE  epoch'[c.host] > c.epoch
  <1> USE DEF IInv, TypeOK, DaemonType, Instance, daemonVars
  <1>1. CASE \E h \in Hosts : SelfRestart(h) \/ Crash(h)
    BY <1>1 DEF SelfRestart, Crash, GoesDown
  <1>2. CASE epoch' = epoch
    BY <1>2
  <1>3. LoopStep \/ LoopFault \/ RouteStep \/ UNCHANGED vars => epoch' = epoch
    BY DEF LoopStep, ConnectStep, PollStep, LoopFault, DialAnswered, DialRefused, HandshakeAnswered,
           HandshakeFails, ConnectFault, ConnectFails, ConnectForms, ConnectDone, ArchiveUnreadable,
           PollAnswered, PollBroken, PollFault, PollFails, LoopClosed, PollForms, PollDone, IdleEnds,
           RouteStep, RouteClosed, RouteRefresh, vars
  <1>4. ASSUME NEW l \in Lanes, LaneStep(l) \/ LaneChoice(l) PROVE epoch' = epoch
    BY <1>4 DEF LaneStep, LaneChoice, MarkConnect, Post, Adopt, PostFails, PostReturns, LaneClosed, AwaitReady, WaitExpires
  <1>5. ASSUME NEW h \in Hosts, ControlComesUp(h) \/ WebComesUp(h) \/ Retarget(h) PROVE epoch' = epoch
    BY <1>5 DEF ControlComesUp, WebComesUp, Retarget
  <1>6. QED
    BY <1>1, <1>2, <1>3, <1>4, <1>5 DEF Next, DaemonStep

\* A counted drop a lane may take for its restart is its restart.
LEMMA EvidenceStep == IInv /\ [Next]_vars => EvidenceIsOfTheRestart'
  <1> SUFFICES ASSUME IInv, [Next]_vars, NEW l \in Lanes, phase'[l] \in InFlight, l \notin muddied',
                      mark'[l] # None, drops' > mark'[l].drops
               PROVE  RestartLanded(l)' /\ (reachable' => client' # served'[l])
    BY DEF EvidenceIsOfTheRestart
  <1> USE DEF IInv, TypeOK, LaneType
  <1>1. RestartLanded(l) /\ served'[l] = served[l] => RestartLanded(l)'
    BY GoneStaysGone DEF RestartLanded
  <1>2. phase[l] \in InFlight /\ l \notin muddied /\ mark[l] # None /\ drops > mark[l].drops
            => RestartLanded(l) /\ (reachable => client # served[l])
    BY DEF EvidenceIsOfTheRestart
  <1>3. CASE LaneStep(l) \/ LaneChoice(l)
    <2>1. ~MarkConnect(l)
      BY DEF MarkConnect, LinkType, linkVars
    <2>2. ~PostFails(l) /\ ~WaitExpires(l)
      BY DEF PostFails, WaitExpires, InFlight
    <2>3. /\ phase[l] \in InFlight /\ drops' = drops /\ muddied' = muddied
          /\ mark'[l] = mark[l] /\ client' \in {client, None} /\ (reachable' => reachable)
      BY <1>3, <2>1, <2>2 DEF LaneStep, LaneChoice, Post, Adopt, PostReturns, Restarting, OwnDrop, LaneClosed,
                              AwaitReady, InFlight, linkVars
    <2>4. RestartLanded(l) /\ (reachable => client # served[l])
      BY <1>2, <2>3
    <2>5. ~Post(l)
      BY <2>4 DEF Post, RecordsAgree, RestartLanded
    <2>6. served' = served
      BY <1>3, <2>1, <2>2, <2>5 DEF LaneStep, LaneChoice, Adopt, PostReturns, LaneClosed, AwaitReady, laneVars
    <2>7. QED
      BY <1>1, <2>3, <2>4, <2>6 DEF RestartLanded
  <1>4. CASE phase'[l] \in {phase[l], Woken(phase)[l]} /\ mark'[l] = mark[l] /\ served'[l] = served[l]
    <2>1. phase[l] \in InFlight
      BY <1>4 DEF Woken, InFlight
    <2>2. CASE CountedDrop
      BY <1>1, <1>4, <2>1, <2>2 DEF CountedDrop, Muddying
    <2>3. CASE HandshakeAnswered
      <3>1. RestartLanded(l) /\ client' = conn /\ Alive(conn)
        BY <1>2, <1>4, <2>1, <2>3 DEF HandshakeAnswered, laneVars
      <3>2. conn # served[l]
        BY <3>1 DEF Alive, RestartLanded, Instance, DaemonType, LoopType
      <3>3. QED
        BY <1>1, <1>4, <3>1, <3>2
    <2>4. CASE ConnectDone \/ PollDone \/ (\E k \in Lanes : PostReturns(k))
      <3>1. CountedDrop \/ (drops' = drops /\ muddied' = muddied /\ client' = client /\ (reachable' => reachable))
        BY <2>4 DEF ConnectDone, PollDone, PostReturns, Restarting, OwnDrop, linkVars
      <3>2. QED
        BY <1>1, <1>2, <1>4, <2>1, <2>2, <3>1 DEF RestartLanded
    <2>5. CASE Quiet
      BY <1>1, <1>2, <1>4, <2>1, <2>5 DEF Quiet, RestartLanded
    <2>6. QED
      BY <2>2, <2>3, <2>4, <2>5, LinkMoves DEF Torn
  <1>5. QED
    BY <1>3, <1>4, LaneMoves

\* The strengthened invariant holds at the start and every step keeps it.
THEOREM Inductive == Spec => []IInv
  <1>1. Init => IInv
    <2>1. Init => LinkAgrees /\ LoopAgrees /\ ClosingAgrees /\ OvertakenAgrees /\ NoSleepThrough /\ RecordsAgree /\ EvidenceIsOfTheRestart
      BY DEF Init, LinkAgrees, LoopAgrees, ClosingAgrees, OvertakenAgrees, Closing, Connecting, Polling, NoSleepThrough, RecordsAgree,
             EvidenceIsOfTheRestart, InFlight
    <2>2. QED
      BY <2>1, TypeInit DEF IInv
  <1>2. IInv /\ [Next]_vars => IInv'
    BY TypeStep, LinkStep, LoopStepAgrees, ClosingStep, OvertakenStep, SleepStep, RecordsStep, EvidenceStep DEF IInv
  <1>3. QED
    BY <1>1, <1>2, PTL DEF Spec

\* Every variable of the supervisor keeps its type in every run of it.
THEOREM TypeCorrect == Spec => []TypeOK
  <1>1. IInv => TypeOK
    BY DEF IInv
  <1>2. QED
    BY <1>1, Inductive, PTL

\* A lane that reads the link half way through a teardown reads it as neither
\* reachable nor, but for a connect body that ends in it, connected.
THEOREM LinkAlwaysAgrees == Spec => []LinkAgrees
  <1>1. IInv => LinkAgrees
    BY DEF IInv
  <1>2. QED
    BY <1>1, Inductive, PTL

\* The loop never meets a client it did not attach, nor idles a poll's interval
\* without one.
THEOREM LoopAlwaysAgrees == Spec => []LoopAgrees
  <1>1. IInv => LoopAgrees
    BY DEF IInv
  <1>2. QED
    BY <1>1, Inductive, PTL

\* `await_ready` never sleeps through the connection it waits for, however many
\* lanes wait on the one event.
THEOREM NobodySleepsThrough == Spec => []NoSleepThrough
  <1>1. IInv => NoSleepThrough
    BY DEF IInv
  <1>2. QED
    BY <1>1, Inductive, PTL

\* A counted drop since the mark, with none ahead of the restart, is the restart.
THEOREM EvidenceIsReal == Spec => []EvidenceIsOfTheRestart
  <1>1. IInv => EvidenceIsOfTheRestart
    BY DEF IInv
  <1>2. QED
    BY <1>1, Inductive, PTL

\* `await_ready` answers True only on a connection made after its restart, as
\* long as no drop was counted between the mark and that restart.
THEOREM WaitsAreHonest == Spec => WaitIsHonest
  <1>1. ASSUME IInv, [Next]_vars, NEW l \in Lanes, phase[l] # "ready", phase'[l] = "ready", l \notin muddied
        PROVE  RestartLanded(l) /\ IF reachable THEN client # served[l] ELSE retargets > 0
    <2> USE DEF IInv, TypeOK, LaneType
    <2>1. phase[l] \in InFlight /\ Satisfied(l)
      <3>1. LaneStep(l) \/ LaneChoice(l)
        BY <1>1, LaneMoves DEF Woken
      <3>2. AwaitReady(l) \/ WaitExpires(l)
        BY <1>1, <3>1 DEF LaneStep, LaneChoice, MarkConnect, Post, Adopt, PostFails, PostReturns, Restarting,
                          LaneClosed, Woken
      <3>3. QED
        BY <1>1, <3>2 DEF AwaitReady, WaitExpires, InFlight
    <2>2. connected /\ mark[l] # None /\ drops > mark[l].drops
      BY <1>1, <2>1 DEF Satisfied, Ready, LinkAgrees
    <2>3. RestartLanded(l) /\ (reachable => client # served[l])
      BY <1>1, <2>1, <2>2 DEF EvidenceIsOfTheRestart
    <2>4. ~reachable => retargets > 0
      BY <1>1, <2>2 DEF OvertakenAgrees
    <2>5. QED
      BY <2>3, <2>4
  <1>2. IInv /\ [Next]_vars =>
            [\A l \in Lanes : phase[l] # "ready" /\ phase'[l] = "ready" /\ l \notin muddied
                => /\ RestartLanded(l)
                   /\ IF reachable THEN client # served[l] ELSE retargets > 0]_vars
    BY <1>1
  <1>3. QED
    BY <1>2, Inductive, PTL DEF Spec, WaitIsHonest

\* While the connect body fetches the web forms and the archive, no lane and no
\* daemon takes its client away: `restarting` passes over a half-made connection.
THEOREM BodyIsUndisturbed == Spec => BodyKeepsItsClient
  <1>1. ASSUME IInv, [Next]_vars, pc \in {"forms", "files"}, pc' = pc, route' = route
        PROVE  client' = client
    <2> USE <1>1
    <2>1. ~connected /\ \A l \in Lanes : phase[l] # "closing"
      BY DEF IInv, LoopAgrees, ClosingAgrees, Connecting
    <2>2. LoopStep \/ LoopFault \/ RouteStep \/ UNCHANGED vars => client' = client
      BY DEF LoopStep, ConnectStep, PollStep, LoopFault, DialAnswered, DialRefused, HandshakeAnswered,
             HandshakeFails, ConnectFault, ConnectForms, ConnectDone, ArchiveUnreadable, EnterLoop,
             PollAnswered, PollBroken, PollFault, LoopClosed, PollForms, PollDone, IdleEnds, Idling, RouteStep,
             RouteClosed, RouteRefresh, ConnectFails, linkVars, vars
    <2>3. ASSUME NEW l \in Lanes, LaneStep(l) \/ LaneChoice(l) PROVE client' = client
      BY <2>1, <2>3 DEF LaneStep, LaneChoice, MarkConnect, Post, Adopt, PostFails, PostReturns, Restarting,
                        LaneClosed, AwaitReady, WaitExpires, linkVars
    <2>4. ASSUME NEW h \in Hosts, DaemonStep(h) \/ Crash(h) PROVE client' = client
      BY <2>4 DEF DaemonStep, SelfRestart, Crash, GoesDown, ControlComesUp, WebComesUp, linkVars
    <2>5. ASSUME NEW h \in Hosts, Retarget(h) PROVE client' = client
      BY <2>5 DEF Retarget
    <2>6. QED
      BY <2>2, <2>3, <2>4, <2>5 DEF Next
  <1>2. IInv /\ [Next]_vars =>
            [(pc \in {"forms", "files"} /\ pc' = pc /\ route' = route) => client' = client]_vars
    BY <1>1
  <1>3. QED
    BY <1>2, Inductive, PTL DEF Spec, BodyKeepsItsClient

-----------------------------------------------------------------------------
(* The supervisor implements ControlLink.                                    *)

\* Only the daemon moves an epoch, and by restarting one host of its own.
LEMMA EpochMoves ==
    ASSUME IInv, [Next]_vars
    PROVE  \/ epoch' = epoch
           \/ \E h \in Hosts : epoch' = [epoch EXCEPT ![h] = @ + 1] /\ UNCHANGED linkVars
  <1>1. LoopStep \/ LoopFault \/ RouteStep \/ UNCHANGED vars => epoch' = epoch
    BY DEF LoopStep, ConnectStep, PollStep, LoopFault, DialAnswered, DialRefused, HandshakeAnswered,
           HandshakeFails, ConnectFault, ConnectFails, ConnectForms, ConnectDone, ArchiveUnreadable,
           PollAnswered, PollBroken, PollFault, PollFails, LoopClosed, PollForms, PollDone, IdleEnds,
           RouteStep, RouteClosed, RouteRefresh,
           vars, daemonVars
  <1>2. ASSUME NEW l \in Lanes, LaneStep(l) \/ LaneChoice(l) PROVE epoch' = epoch
    BY <1>2 DEF LaneStep, LaneChoice, MarkConnect, Post, Adopt, PostFails, PostReturns, LaneClosed, AwaitReady,
                WaitExpires, daemonVars
  <1>3. ASSUME NEW h \in Hosts, ControlComesUp(h) \/ WebComesUp(h) \/ Retarget(h) PROVE epoch' = epoch
    BY <1>3 DEF ControlComesUp, WebComesUp, Retarget
  <1>4. ASSUME NEW h \in Hosts, SelfRestart(h) \/ Crash(h)
        PROVE  epoch' = [epoch EXCEPT ![h] = @ + 1] /\ UNCHANGED linkVars
    BY <1>4 DEF SelfRestart, Crash, GoesDown
  <1>5. QED
    BY <1>1, <1>2, <1>3, <1>4 DEF Next, DaemonStep

\* Every run of the supervisor is, seen through the fields its lanes read, a run of
\* ControlLink: one connection at a time, attached to the instance running at that
\* moment, and never taken for one again once it was given up.
THEOREM Implements == Spec => KeepsPromise
  <1>1. Init => Promise!Init
    BY DEF Init, Promise!Init, Promise!Unattached, Link
  <1>2. ASSUME IInv, [Next]_vars PROVE [Promise!Next]_<<epoch, Link>>
    <2> USE DEF IInv
    <2>0. /\ reachable = (client # None /\ ~Closing) /\ reachable' = (client' # None /\ ~Closing')
          /\ {reachable, connected} \subseteq BOOLEAN
      BY <1>2, LinkStep DEF LinkAgrees, TypeOK, FlagType
    <2>1. CASE epoch' # epoch
      BY <1>2, <2>1, EpochMoves DEF Promise!Next, Promise!Restart, Link, linkVars
    <2>2. ASSUME epoch' = epoch, ~connected', ~reachable', client' \in {client, None}
          PROVE  [Promise!Next]_<<epoch, Link>>
      <3>1. CASE client' = None
        BY <2>2, <3>1 DEF Promise!Next, Promise!Lose, Promise!Unattached, Link
      <3>2. CASE client' = client /\ client # None
        BY <2>2, <3>2 DEF Promise!Next, Promise!GiveUp, Link
      <3>3. QED
        BY <2>2, <3>1, <3>2
    <2>3. CASE HandshakeAnswered
      <3>1. client = None /\ ~connected /\ ~connected' /\ reachable' /\ client' = conn /\ epoch' = epoch
        BY <1>2, <2>3 DEF HandshakeAnswered, LoopAgrees, Connecting, daemonVars
      <3>2. conn.host \in Hosts /\ conn = [host |-> conn.host, epoch |-> epoch[conn.host]] /\ conn # None
        BY <1>2, <2>3 DEF HandshakeAnswered, Alive, TypeOK, LoopType, Instance
      <3>3. Promise!Attach(conn.host)
        BY <3>1, <3>2 DEF Promise!Attach, Promise!Unattached, Link
      <3>4. QED
        BY <3>2, <3>3 DEF Promise!Next
    <2>4. CASE ConnectDone /\ client # None
      <3>1. ~connected /\ connected' /\ client' = client /\ reachable' = reachable /\ epoch' = epoch
        BY <1>2, <2>4 DEF ConnectDone, LoopAgrees, Connecting
      <3>2. Promise!Complete \/ Promise!Overtake
        BY <2>4, <3>1 DEF Promise!Complete, Promise!Overtake, Link
      <3>3. QED
        BY <3>2 DEF Promise!Next
    <2>5. CASE UNCHANGED <<epoch, client, connected, reachable>>
      BY <2>5 DEF Link
    <2>6. ConnectDone /\ client = None => ~connected' /\ ~reachable' /\ client' \in {client, None}
      BY DEF ConnectDone, CountedDrop
    <2>7. PollDone \/ (\E l \in Lanes : PostReturns(l)) =>
            \/ UNCHANGED <<client, connected, reachable>>
            \/ ~connected' /\ ~reachable' /\ client' \in {client, None}
      BY DEF PollDone, PostReturns, Restarting, OwnDrop, linkVars
    <2>8. CASE Quiet /\ epoch' = epoch /\ client' # client
      <3>1. client' = None /\ client # None /\ ~reachable /\ ~reachable' /\ connected' = connected
        BY <2>8, <2>0 DEF Quiet
      <3>2. CASE connected
        BY <2>8, <3>1, <3>2 DEF Promise!Next, Promise!Vanish, Link
      <3>3. CASE ~connected
        BY <2>2, <2>8, <3>1, <3>3
      <3>4. QED
        BY <3>2, <3>3
    <2>9. Torn => ~connected' /\ ~reachable' /\ client' \in {client, None}
      BY DEF Torn, CountedDrop
    <2>10. QED
      BY <1>2, <2>1, <2>2, <2>3, <2>4, <2>5, <2>6, <2>7, <2>8, <2>9, LinkMoves DEF Quiet
  <1>3. QED
    BY <1>1, <1>2, Inductive, PTL DEF Spec, KeepsPromise, Promise!Spec
=============================================================================
