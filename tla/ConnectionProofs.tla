--------------------------- MODULE ConnectionProofs ---------------------------
(* Proofs about a change of connection, for any addresses, credentials, number  *)
(* of saves under way, forms, and moves of the daemons' ports.                  *)
EXTENDS Connection, TLAPS

USE NamesAssumption, LoopIsNoPost, BoundsAssumption

-----------------------------------------------------------------------------
(* The parts of the invariant.                                               *)

\* A refresher walks the forms only where it awaits them.
Walks ==
    /\ \A p \in Posts : pass[p] # None => post[p].at = "refresh"
    /\ pass["loop"] # None => loop.at \in {"load", "forms"}

\* A save that was sent names an address.
Asked == \A p \in Posts : post[p].at = "sent" => post[p].host \in Hosts

\* The connect under way has asked for /config, or has come through.
Loaded ==
    \/ connected /\ current # 0
    \/ loop.at = "loadRest"
    \/ loop.at = "load" /\ pass["loop"] # None /\ pass["loop"].next > 1

\* The link and the connect under way are to the address in force.
Onward ==
    /\ link \in {None, pair.host}
    /\ loop.at \in Connecting => loop.to = pair.host /\ ~connected
    /\ loop.at \in {"about", "load", "loadRest"} => link = pair.host
    /\ connected => link = pair.host

\* What is still read of the forms, and counts, is read through the client in force.
Through ==
    /\ \A p \in Posts : pass[p] # None => pass[p].via = current
    /\ pass["loop"] # None /\ (connected \/ loop.at = "load") => pass["loop"].via = current

\* And what has been read.
Own ==
    /\ Loaded /\ ~readings.error => readings.from = current
    /\ connected /\ httpOk => readings.from = current

\* A save in force that nothing older was writing over as it was laid.
Fresh == laid /\ ~overtaken

IInv == TypeOK /\ Asked /\ Walks /\ (Fresh => Onward /\ Through /\ Own)

Passes == [via : 1..Len(clients), next : 1..Getters, all : BOOLEAN]

-----------------------------------------------------------------------------
(* Types.                                                                    *)

\* Building a client adds at most one, of its type.
LEMMA BuiltType ==
    ASSUME NEW p \in [host : Hosts, password : Credentials], NEW made \in Seq(ClientType)
    PROVE  /\ Built(p, made) \in Seq(ClientType)
           /\ Len(made) <= Len(Built(p, made))
           /\ p.password # NoPassword => Len(Built(p, made)) = Len(made) + 1
  <1>1. CASE p.password = NoPassword
    BY <1>1 DEF Built
  <1>2. CASE p.password # NoPassword
    <2> DEFINE c == [host |-> p.host, password |-> p.password, proof |-> "unknown"]
    <2>1. c \in ClientType
      BY <1>2 DEF ClientType, Credentials, Proofs
    <2> HIDE DEF c
    <2>2. Built(p, made) = Append(made, c)
      BY <1>2 DEF Built, c
    <2>3. QED
      BY <2>1, <2>2
  <1>3. QED
    BY <1>1, <1>2

\* A judged page is a page.
LEMMA JudgedType ==
    ASSUME NEW pg \in PageType, NEW h PROVE JudgedSave(pg, h) \in PageType
  BY DEF JudgedSave, PageType, Verdicts

\* The client a walk goes through, and what a request proves of it, have their types.
LEMMA WalkType ==
    ASSUME PairType, PassType, NEW r \in Refreshers, pass[r] # None
    PROVE  pass[r] \in Passes /\ clients[pass[r].via] \in ClientType /\ ProofOf(r) \in Proofs
  <1>1. pass[r] \in Passes
    BY DEF PassType, Passes
  <1>2. pass[r].via \in 1..Len(clients)
    BY <1>1 DEF Passes
  <1>3. clients[pass[r].via] \in ClientType
    BY <1>2 DEF PairType
  <1>4. ProofOf(r) \in Proofs
    BY <1>3 DEF ProofOf, ClientType, Proofs
  <1>5. QED
    BY <1>1, <1>3, <1>4

\* A request of a walk marks its client and leaves as many clients as there were.
LEMMA FormMoves ==
    ASSUME PairType, PassType, NEW r \in Refreshers, GetsForm(r)
    PROVE  clients' \in Seq(ClientType) /\ Len(clients') = Len(clients)
  <1>1. pass[r] # None /\ clients' = [clients EXCEPT ![pass[r].via] = [@ EXCEPT !.proof = ProofOf(r)]]
    BY DEF GetsForm
  <1>2. pass[r].via \in 1..Len(clients) /\ clients[pass[r].via] \in ClientType /\ ProofOf(r) \in Proofs
    BY <1>1, WalkType DEF Passes
  <1>3. [clients[pass[r].via] EXCEPT !.proof = ProofOf(r)] \in ClientType
    BY <1>2 DEF ClientType
  <1>4. QED
    BY <1>1, <1>2, <1>3 DEF PairType

\* The saves, the ports and the history.
LEMMA WorldStep == WorldType /\ [Next]_vars => WorldType'
  <1> SUFFICES ASSUME WorldType, [Next]_vars PROVE WorldType'
    OBVIOUS
  <1> USE DEF WorldType, worldVars, pastVars, loopKept, pageKept
  <1>1. ASSUME NEW h \in Hosts, Turn(h) PROVE WorldType'
    BY <1>1 DEF Turn, Toggled
  <1>2. ASSUME NEW p \in Posts, Unwritable(p) PROVE WorldType'
    BY <1>2 DEF Unwritable
  <1>3. ASSUME NEW p \in Posts, Lay(p) PROVE WorldType'
    <2>1. UnderWay(p) \in BOOLEAN
      BY DEF UnderWay
    <2>2. QED
      BY <1>3, <2>1 DEF Lay
  <1>4. ASSUME NEW p \in Posts, NEW h \in Hosts, NEW w \in Passwords \cup {None}, Submit(p, h, w) PROVE WorldType'
    <2>1. MaxSaves \in Nat /\ saves \in 0..MaxSaves /\ saves < MaxSaves /\ saves' = saves + 1
      BY <1>4 DEF Submit
    <2>2. saves' \in 0..MaxSaves
      BY <2>1
    <2>3. UNCHANGED worldVars /\ faults' = faults /\ <<laid', overtaken', turned'>> = <<FALSE, FALSE, FALSE>>
      BY <1>4 DEF Submit
    <2>4. QED
      BY <2>2, <2>3
  <1>5. CASE UNCHANGED <<worldVars, pastVars, saves, faults>>
    BY <1>5
  <1>6. QED
    BY <1>1, <1>2, <1>3, <1>4, <1>5
    DEF Next, vars, LoopStep, Dial, Attach, DialFails, Load, Complete, Poll, Heard, PollFails, PollEnds, GetsForm,
        RouteStep, Refresh, Answered, UserStep, Reopen, HealthLands, GraceEnds

\* The pair in force and the clients.
LEMMA PairStep == PairType /\ PassType /\ PanelType /\ Asked /\ [Next]_vars => PairType' /\ Len(clients) <= Len(clients')
  <1> SUFFICES ASSUME PairType, PassType, PanelType, Asked, [Next]_vars
      PROVE  PairType' /\ Len(clients) <= Len(clients')
    OBVIOUS
  <1>1. ASSUME NEW r \in Refreshers, GetsForm(r) PROVE PairType' /\ Len(clients) <= Len(clients')
    <2>1. clients' \in Seq(ClientType) /\ Len(clients') = Len(clients)
      BY <1>1, FormMoves
    <2>2. pair' = pair /\ current' = current
      BY <1>1 DEF GetsForm
    <2>3. QED
      BY <2>1, <2>2 DEF PairType
  <1>2. ASSUME NEW p \in Posts, Lay(p) PROVE PairType' /\ Len(clients) <= Len(clients')
    <2>1. pair' \in [host : Hosts, password : Credentials]
      <3>1. post[p].password \in Passwords \cup {None} /\ post[p].host \in Hosts
        BY <1>2 DEF PanelType, PostType, Asked, Lay
      <3>2. QED
        BY <1>2, <3>1 DEF Lay, PairType, Credentials
    <2>2. clients' = Built(pair', clients) /\ current' = IF pair'.password = NoPassword THEN 0 ELSE Len(clients')
      BY <1>2 DEF Lay
    <2>3. QED
      BY <2>1, <2>2, BuiltType DEF PairType
  <1>3. CASE UNCHANGED <<pair, clients, current>>
    BY <1>3 DEF PairType
  <1>4. QED
    BY <1>1, <1>2, <1>3
    DEF Next, vars, LoopStep, Dial, Attach, DialFails, Load, Complete, Poll, Heard, PollFails, PollEnds, Turn,
        RouteStep, Refresh, Answered, Unwritable, UserStep, Reopen, Submit, HealthLands, GraceEnds, Refreshers,
        worldVars, confVars, pageVars, pastVars, loopKept, pageKept

\* The readings.
LEMMA ReadingsStep == TypeOK /\ PairType' /\ Len(clients) <= Len(clients') /\ [Next]_vars => ReadingsType'
  <1> SUFFICES ASSUME TypeOK, PairType', Len(clients) <= Len(clients'), [Next]_vars PROVE ReadingsType'
    OBVIOUS
  <1>1. ASSUME NEW r \in Refreshers, GetsForm(r) PROVE ReadingsType'
    <2>1. pass[r] \in Passes /\ ProofOf(r) \in Proofs
      BY <1>1, WalkType DEF GetsForm, TypeOK
    <2>2. readings' = Read(r) /\ Len(clients') = Len(clients)
      BY <1>1, FormMoves DEF GetsForm, TypeOK
    <2>3. Read(r).credentials \in Proofs
      BY <2>1 DEF Read, TypeOK, ReadingsType
    <2>4. Read(r).error \in BOOLEAN
      BY DEF Read, Served, TypeOK, ReadingsType
    <2>5. Read(r).from \in 0..Len(clients)
      BY <2>1 DEF Read, TypeOK, ReadingsType, PairType, Passes
    <2>6. QED
      BY <2>2, <2>3, <2>4, <2>5 DEF ReadingsType, Read
  <1>2. CASE UNCHANGED readings
    BY <1>2 DEF ReadingsType, TypeOK, PairType
  <1>3. QED
    BY <1>1, <1>2
    DEF Next, vars, LoopStep, Dial, Attach, DialFails, Load, Complete, Poll, Heard, PollFails, PollEnds, Turn,
        RouteStep, Lay, Refresh, Answered, Unwritable, UserStep, Reopen, Submit, HealthLands, GraceEnds, Refreshers,
        worldVars, confVars, pageVars, pastVars, loopKept, pageKept

\* The link and the loop.
LEMMA LinkStep == TypeOK /\ [Next]_vars => LinkType'
  <1> SUFFICES ASSUME TypeOK, [Next]_vars PROVE LinkType'
    OBVIOUS
  <1> USE DEF TypeOK, LinkType, linkVars, Connecting, Polling, Dropped, Goes
  <1>1. CASE Dial \/ PollFails
    <2>1. loop' = [at |-> "dial", to |-> pair.host] /\ pair.host \in Hosts
      BY <1>1 DEF Dial, PollFails, PairType
    <2>2. UNCHANGED linkVars \/ (Dropped /\ httpOk' = httpOk)
      BY <1>1 DEF Dial, PollFails
    <2>3. QED
      BY <2>1, <2>2
  <1>2. CASE Attach \/ DialFails \/ Poll \/ Heard
    BY <1>2 DEF Attach, DialFails, Poll, Heard
  <1>3. CASE Load \/ Complete \/ PollEnds
    BY <1>3 DEF Load, Complete, PollEnds, Completed, Stamped
  <1>4. ASSUME NEW r \in Refreshers, GetsForm(r) PROVE LinkType'
    BY <1>4 DEF GetsForm
  <1>5. ASSUME NEW p \in Posts, Lay(p) PROVE LinkType'
    BY <1>5 DEF Lay
  <1>6. ASSUME NEW h \in Hosts, Turn(h) PROVE LinkType'
    BY <1>6 DEF Turn
  <1>7. CASE UNCHANGED <<linkVars, loop>>
    BY <1>7
  <1>8. QED
    BY <1>1, <1>2, <1>3, <1>4, <1>5, <1>6, <1>7
    DEF Next, vars, LoopStep, RouteStep, Refresh, Answered, Unwritable, UserStep, Reopen, Submit, HealthLands,
        GraceEnds, Refreshers, pageKept

\* A walk that begins is a walk.
LEMMA BegunType == ASSUME PairType, current # 0 PROVE Begun \in Passes
  BY DEF Begun, Passes, PairType

\* The walks through the forms.
LEMMA PassStep == TypeOK /\ PairType' /\ Len(clients) <= Len(clients') /\ [Next]_vars => PassType'
  <1> SUFFICES ASSUME TypeOK, PairType', Len(clients) <= Len(clients'), [Next]_vars PROVE PassType'
    OBVIOUS
  <1> DEFINE W == [via : 1..Len(clients'), next : 1..Getters, all : BOOLEAN]
  <1>1. Passes \subseteq W /\ pass \in [Refreshers -> Passes \cup {None}]
    BY DEF Passes, TypeOK, PassType, PairType
  <1>2. ASSUME NEW r \in Refreshers, NEW w \in W \cup {None}, pass' = [pass EXCEPT ![r] = w] PROVE PassType'
    BY <1>1, <1>2 DEF PassType
  <1>3. CASE UNCHANGED pass
    BY <1>1, <1>3 DEF PassType
  <1>4. ASSUME NEW r \in Refreshers, GetsForm(r) PROVE PassType'
    <2>1. pass[r] \in Passes
      BY <1>4, WalkType DEF GetsForm, TypeOK
    <2>2. CASE pass[r].next < Getters
      <3> DEFINE w == [pass[r] EXCEPT !.next = pass[r].next + 1, !.all = pass[r].all /\ Served(r)]
      <3>1. pass' = [pass EXCEPT ![r] = w]
        BY <1>4, <2>2, <1>1 DEF GetsForm
      <3>2. w \in Passes
        <4>1. Getters \in Nat /\ pass[r].next \in 1..Getters /\ pass[r].next + 1 \in 1..Getters
          BY <2>1, <2>2 DEF Passes
        <4>2. (pass[r].all /\ Served(r)) \in BOOLEAN
          OBVIOUS
        <4>3. QED
          BY <2>1, <4>1, <4>2 DEF Passes
      <3> HIDE DEF w
      <3>3. QED
        BY <3>1, <3>2, <1>1, <1>2
    <2>3. CASE ~(pass[r].next < Getters)
      BY <1>2, <1>4, <2>3 DEF GetsForm
    <2>4. QED
      BY <2>2, <2>3
  <1>5. CASE (Load \/ Heard) /\ pass' # pass
    <2>1. current # 0 /\ pass' = [pass EXCEPT !["loop"] = Begun]
      BY <1>5 DEF Load, Heard
    <2>2. Begun \in W
      BY <1>1, <2>1, BegunType DEF TypeOK
    <2>3. QED
      BY <1>2, <2>1, <2>2 DEF Refreshers
  <1>6. ASSUME NEW p \in Posts, NEW cur \in 1..Len(clients'), Refreshing(p, cur) PROVE PassType'
    <2>1. pass' = [pass EXCEPT ![p] = [via |-> cur, next |-> 1, all |-> TRUE]]
      BY <1>6 DEF Refreshing
    <2>2. [via |-> cur, next |-> 1, all |-> TRUE] \in W
      OBVIOUS
    <2>3. QED
      BY <1>2, <2>1, <2>2 DEF Refreshers
  <1>7. ASSUME NEW p \in Posts, Lay(p) \/ Refresh(p) PROVE PassType'
    <2>1. current' \in 0..Len(clients')
      BY DEF PairType
    <2>2. pass' = pass \/ (current' # 0 /\ Refreshing(p, current'))
      BY <1>7 DEF Lay, Refresh, Refreshing, confVars
    <2>3. QED
      BY <1>3, <1>6, <2>1, <2>2
  <1>8. QED
    BY <1>3, <1>4, <1>5, <1>7
    DEF Next, vars, LoopStep, Dial, Attach, DialFails, Load, Heard, Complete, Poll, PollFails, PollEnds, Turn,
        RouteStep, Answered, Unwritable, UserStep, Reopen, Submit, HealthLands, GraceEnds, Refreshers, pageKept

\* A press that moves on is a press, for the same address.
LEMMA Pressed ==
    ASSUME NEW s \in PostType
    PROVE  /\ \A o \in Lanes : [s EXCEPT !.at = "answered", !.lane = o] \in PostType
           /\ \A a \in {"refresh", "closing"} : [s EXCEPT !.at = a] \in PostType
  <1>1. /\ s = [at |-> s.at, host |-> s.host, password |-> s.password, lane |-> s.lane]
        /\ s.host \in Hosts \cup {None} /\ s.password \in Passwords \cup {None} /\ s.lane \in Lanes \cup {None}
    BY DEF PostType
  <1>2. ASSUME NEW o \in Lanes PROVE [s EXCEPT !.at = "answered", !.lane = o] \in PostType
    <2>1. [s EXCEPT !.at = "answered", !.lane = o]
            = [at |-> "answered", host |-> s.host, password |-> s.password, lane |-> o]
      <3> DEFINE t == [s EXCEPT !.at = "answered"]
      <3>1. [s EXCEPT !.at = "answered", !.lane = o] = [t EXCEPT !.lane = o]
        OBVIOUS
      <3>2. t = [at |-> "answered", host |-> s.host, password |-> s.password, lane |-> s.lane]
        BY <1>1
      <3> HIDE DEF t
      <3>3. [t EXCEPT !.lane = o] = [at |-> "answered", host |-> s.host, password |-> s.password, lane |-> o]
        BY <3>2
      <3>4. QED
        BY <3>1, <3>3
    <2>2. QED
      BY <1>1, <2>1 DEF PostType
  <1>3. ASSUME NEW a \in {"refresh", "closing"} PROVE [s EXCEPT !.at = a] \in PostType
    <2>1. [s EXCEPT !.at = a] = [at |-> a, host |-> s.host, password |-> s.password, lane |-> s.lane]
      BY <1>1
    <2>2. QED
      BY <1>1, <2>1 DEF PostType
  <1>4. QED
    BY <1>2, <1>3

\* Every press is one, and the panel and its last reading have their types.
LEMMA PanelStep == PanelType /\ [Next]_vars => PanelType'
  <1> SUFFICES ASSUME PanelType, [Next]_vars PROVE PanelType'
    OBVIOUS
  <1> USE DEF PanelType, pageVars
  <1>1. ASSUME NEW p \in Posts, NEW s \in PostType, post' = [post EXCEPT ![p] = s] PROVE post' \in [Posts -> PostType]
    BY <1>1
  <1>2. ASSUME NEW r \in Refreshers, GetsForm(r) PROVE PanelType'
    <2>1. \A c, a : Outcome(c, a) \in Lanes
      BY DEF Outcome, Lanes
    <2>2. post' = post \/ (r \in Posts /\ \E o \in Lanes : post' = [post EXCEPT ![r] = [@ EXCEPT !.at = "answered", !.lane = o]])
      BY <1>2, <2>1 DEF GetsForm, Refreshers
    <2>3. post' \in [Posts -> PostType]
      <3>1. ASSUME NEW q \in Posts, NEW o \in Lanes PROVE [post[q] EXCEPT !.at = "answered", !.lane = o] \in PostType
        BY Pressed
      <3>2. QED
        BY <1>1, <2>2, <3>1
    <2>4. QED
      BY <1>2, <2>3 DEF GetsForm
  <1>3. ASSUME NEW p \in Posts, Lay(p) \/ Refresh(p) PROVE PanelType'
    <2>1. \/ post' = [post EXCEPT ![p] = [@ EXCEPT !.at = "answered", !.lane = "no_credentials"]]
          \/ post' = [post EXCEPT ![p] = [@ EXCEPT !.at = "refresh"]]
          \/ post' = [post EXCEPT ![p] = [@ EXCEPT !.at = "closing"]]
      BY <1>3 DEF Lay, Refresh, Refreshing
    <2>2. post' \in [Posts -> PostType]
      <3>1. /\ [post[p] EXCEPT !.at = "answered", !.lane = "no_credentials"] \in PostType
            /\ [post[p] EXCEPT !.at = "refresh"] \in PostType
            /\ [post[p] EXCEPT !.at = "closing"] \in PostType
        BY Pressed DEF Lanes
      <3>2. QED
        BY <1>1, <2>1, <3>1
    <2>3. QED
      BY <1>3, <2>2 DEF Lay, Refresh
  <1>4. Idle \in PostType
    BY DEF Idle, PostType
  <1>5. ASSUME NEW p \in Posts, Unwritable(p) PROVE PanelType'
    BY <1>4, <1>5 DEF Unwritable
  <1>6. ASSUME NEW p \in Posts, Answered(p) PROVE PanelType'
    <2>1. [page EXCEPT !.grace = FALSE, !.lane = post[p].lane] \in PageType
      BY DEF PageType, PostType
    <2>2. page' \in PageType
      BY <1>6, <2>1, JudgedType DEF Answered
    <2>3. QED
      BY <1>4, <1>6, <2>2 DEF Answered, pageKept
  <1>7. CASE HealthLands
    <2>1. Health \in Reading
      BY DEF Health, Reading
    <2>2. QED
      BY <1>7, <2>1, JudgedType DEF HealthLands, pageKept
  <1>8. CASE Reopen \/ GraceEnds
    BY <1>8 DEF Reopen, GraceEnds, PageType, pageKept
  <1>9. ASSUME NEW p \in Posts, NEW h \in Hosts, NEW w \in Passwords \cup {None}, Submit(p, h, w) PROVE PanelType'
    <2>1. [at |-> "sent", host |-> h, password |-> w, lane |-> None] \in PostType
      BY DEF PostType
    <2>2. page' \in PageType
      BY <1>9 DEF Submit, PageType, Verdicts
    <2>3. QED
      BY <1>9, <2>1, <2>2 DEF Submit, pageKept
  <1>10. CASE UNCHANGED <<post, pageVars>>
    BY <1>10
  <1>11. QED
    BY <1>2, <1>3, <1>5, <1>6, <1>7, <1>8, <1>9, <1>10
    DEF Next, vars, LoopStep, Dial, Attach, DialFails, Load, Complete, Poll, Heard, PollFails, PollEnds, Turn,
        RouteStep, UserStep, Refreshers, loopKept

\* A save under way keeps the address it was pressed with.
LEMMA AskedStep == PanelType /\ Asked /\ [Next]_vars => Asked'
  <1> SUFFICES ASSUME PanelType, Asked, [Next]_vars PROVE Asked'
    OBVIOUS
  <1>1. ASSUME NEW p \in Posts, NEW s, s.at # "sent" \/ s.host \in Hosts, post' = [post EXCEPT ![p] = s]
        PROVE Asked'
    BY <1>1 DEF Asked, PanelType
  <1>2. ASSUME NEW r \in Refreshers, GetsForm(r) PROVE Asked'
    <2>1. post' = post \/ (r \in Posts /\ \E o : post' = [post EXCEPT ![r] = [@ EXCEPT !.at = "answered", !.lane = o]])
      BY <1>2 DEF GetsForm, Refreshers
    <2>2. ASSUME r \in Posts, NEW o, post' = [post EXCEPT ![r] = [@ EXCEPT !.at = "answered", !.lane = o]]
          PROVE Asked'
      <3> DEFINE s == [post[r] EXCEPT !.at = "answered", !.lane = o]
      <3>1. post[r] \in PostType
        BY <2>2 DEF PanelType
      <3>2. s.at = "answered"
        BY <3>1 DEF PostType
      <3>3. post' = [post EXCEPT ![r] = s]
        BY <2>2
      <3> HIDE DEF s
      <3>4. QED
        BY <1>1, <2>2, <3>2, <3>3
    <2>3. QED
      BY <2>1, <2>2 DEF Asked
  <1>3. ASSUME NEW p \in Posts, Lay(p) \/ Refresh(p) PROVE Asked'
    <2>1. \/ post' = [post EXCEPT ![p] = [@ EXCEPT !.at = "answered", !.lane = "no_credentials"]]
          \/ post' = [post EXCEPT ![p] = [@ EXCEPT !.at = "refresh"]]
          \/ post' = [post EXCEPT ![p] = [@ EXCEPT !.at = "closing"]]
      BY <1>3 DEF Lay, Refresh, Refreshing
    <2>2. post[p] \in PostType
      BY DEF PanelType
    <2>3. /\ [post[p] EXCEPT !.at = "answered", !.lane = "no_credentials"].at = "answered"
          /\ \A a : [post[p] EXCEPT !.at = a].at = a
      BY <2>2 DEF PostType
    <2>4. \E s : s.at # "sent" /\ post' = [post EXCEPT ![p] = s]
      BY <2>1, <2>3
    <2>5. QED
      BY <1>1, <2>4
  <1>4. ASSUME NEW p \in Posts, Unwritable(p) \/ Answered(p) PROVE Asked'
    BY <1>1, <1>4 DEF Unwritable, Answered, Idle
  <1>5. ASSUME NEW p \in Posts, NEW h \in Hosts, NEW w \in Passwords \cup {None}, Submit(p, h, w) PROVE Asked'
    BY <1>1, <1>5 DEF Submit
  <1>6. CASE UNCHANGED post
    BY <1>6 DEF Asked
  <1>7. QED
    BY <1>2, <1>3, <1>4, <1>5, <1>6
    DEF Next, vars, LoopStep, Dial, Attach, DialFails, Load, Complete, Poll, Heard, PollFails, PollEnds, Turn,
        RouteStep, UserStep, Reopen, HealthLands, GraceEnds, Refreshers, loopKept, pageKept

\* All of it.
LEMMA TypeStep == TypeOK /\ Asked /\ [Next]_vars => TypeOK' /\ Asked'
  <1> SUFFICES ASSUME TypeOK, Asked, [Next]_vars PROVE TypeOK' /\ Asked'
    OBVIOUS
  <1>1. PairType' /\ Len(clients) <= Len(clients')
    BY PairStep DEF TypeOK
  <1>2. ReadingsType' /\ LinkType' /\ PassType'
    BY <1>1, ReadingsStep, LinkStep, PassStep
  <1>3. WorldType' /\ PanelType' /\ Asked'
    BY WorldStep, PanelStep, AskedStep DEF TypeOK
  <1>4. QED
    BY <1>1, <1>2, <1>3 DEF TypeOK

LEMMA InitType == Init => TypeOK /\ Asked /\ Walks
  <1> SUFFICES ASSUME Init PROVE TypeOK /\ Asked /\ Walks
    OBVIOUS
  <1>1. pair \in [host : Hosts, password : Credentials]
    BY DEF Init
  <1>2. PairType
    <2>1. <<>> \in Seq(ClientType)
      OBVIOUS
    <2>2. clients \in Seq(ClientType) /\ current = Len(clients)
      BY <1>1, <2>1, BuiltType DEF Init
    <2>3. Len(clients) \in Nat
      BY <2>2
    <2>4. QED
      BY <1>1, <2>2, <2>3 DEF PairType
  <1>3. LinkType
    BY <1>1 DEF Init, LinkType, Connecting
  <1>4. ReadingsType /\ PassType
    BY <1>2 DEF Init, ReadingsType, PassType, Proofs, PairType
  <1>5. PanelType
    BY DEF Init, PanelType, PostType, Idle, PageType, Unheard, Reading
  <1>6. WorldType
    <2>1. MaxSaves \in Nat /\ ctl = Hosts /\ web \subseteq Hosts
      BY DEF Init
    <2>2. saves \in 0..MaxSaves /\ turns \in Nat /\ faults \in Nat
      BY <2>1 DEF Init
    <2>3. QED
      BY <2>1, <2>2 DEF Init, WorldType
  <1>7. Asked /\ Walks
    BY DEF Init, Asked, Walks, Idle, Refreshers
  <1>8. QED
    BY <1>2, <1>3, <1>4, <1>5, <1>6, <1>7 DEF TypeOK

-----------------------------------------------------------------------------
(* The induction.                                                            *)

\* What the parts about a save in force speak of.
savedVars == <<pair, current, readings, link, connected, httpOk, loop, pass>>

\* A walk begins and ends with the place where its refresher awaits it.
LEMMA WalksStep == TypeOK /\ Walks /\ [Next]_vars => Walks'
  <1> SUFFICES ASSUME TypeOK, Walks, [Next]_vars PROVE Walks'
    OBVIOUS
  <1>1. /\ pass \in [Refreshers -> Passes \cup {None}] /\ post \in [Posts -> PostType]
        /\ "loop" \in Refreshers /\ Posts \subseteq Refreshers /\ "loop" \notin Posts
    BY DEF TypeOK, PassType, PanelType, Passes, Refreshers
  <1>2. ASSUME NEW r \in Refreshers, GetsForm(r) PROVE Walks'
    <2>1. CASE pass[r].next < Getters
      BY <1>1, <1>2, <2>1 DEF GetsForm, Walks
    <2>2. CASE ~(pass[r].next < Getters) /\ r = "loop"
      BY <1>1, <1>2, <2>2 DEF GetsForm, Walks
    <2>3. CASE ~(pass[r].next < Getters) /\ r # "loop"
      <3>1. /\ pass' = [pass EXCEPT ![r] = None] /\ UNCHANGED loop
            /\ \A q \in Posts \ {r} : post'[q] = post[q]
        BY <1>1, <1>2, <2>3 DEF GetsForm
      <3>2. QED
        BY <1>1, <2>3, <3>1 DEF Walks
    <2>4. QED
      BY <2>1, <2>2, <2>3
  <1>3. ASSUME NEW p \in Posts, NEW cur, Refreshing(p, cur), pass[p] = None, UNCHANGED loop PROVE Walks'
    <2>1. CASE cur = 0
      BY <1>1, <1>3, <2>1 DEF Refreshing, Walks, PostType
    <2>2. CASE cur # 0
      BY <1>1, <1>3, <2>2 DEF Refreshing, Walks, PostType
    <2>3. QED
      BY <2>1, <2>2
  <1>4. ASSUME NEW p \in Posts, Lay(p) \/ Refresh(p) PROVE Walks'
    <2>1. pass[p] = None /\ UNCHANGED loop
      BY <1>4 DEF Walks, Lay, Refresh
    <2>2. CASE \E cur : Refreshing(p, cur)
      BY <1>3, <2>1, <2>2
    <2>3. CASE post' = [post EXCEPT ![p].at = "closing"] /\ UNCHANGED pass
      BY <1>1, <2>1, <2>3 DEF Walks
    <2>4. QED
      BY <1>4, <2>2, <2>3 DEF Lay, Refresh
  <1>5. ASSUME NEW p \in Posts, NEW s, post[p].at \in {"idle", "sent", "answered"},
               post' = [post EXCEPT ![p] = s], UNCHANGED <<loop, pass>> PROVE Walks'
    BY <1>1, <1>5 DEF Walks
  <1>6. ASSUME NEW p \in Posts, Unwritable(p) \/ Answered(p) PROVE Walks'
    BY <1>5, <1>6 DEF Unwritable, Answered, pageKept
  <1>7. ASSUME NEW p \in Posts, NEW h \in Hosts, NEW w \in Passwords \cup {None}, Submit(p, h, w) PROVE Walks'
    <2>1. post[p].at = "idle" /\ UNCHANGED <<loop, pass>>
      BY <1>7 DEF Submit, pageKept
    <2> DEFINE s == [at |-> "sent", host |-> h, password |-> w, lane |-> None]
    <2>2. post' = [post EXCEPT ![p] = s]
      BY <1>7 DEF Submit
    <2> HIDE DEF s
    <2>3. QED
      BY <1>1, <2>1, <2>2 DEF Walks
  <1>8. CASE UNCHANGED <<post, loop, pass>>
    BY <1>8 DEF Walks
  <1>9. CASE Load \/ Heard
    BY <1>1, <1>9 DEF Load, Heard, Completed, Goes, LinkType, TypeOK, loopKept, Walks
  <1>10. CASE Dial \/ Attach \/ DialFails \/ Complete \/ Poll \/ PollFails \/ PollEnds
    <2>1. pass["loop"] = None /\ UNCHANGED <<post, pass>>
      BY <1>10 DEF Dial, Attach, DialFails, Complete, Poll, PollFails, PollEnds, Walks, loopKept
    <2>2. QED
      BY <2>1 DEF Walks
  <1>11. QED
    BY <1>1, <1>2, <1>4, <1>6, <1>7, <1>8, <1>9, <1>10
    DEF Next, vars, LoopStep, Turn, RouteStep, UserStep, Reopen, HealthLands, GraceEnds, pageKept

Kept == Onward /\ Through /\ Own

\* A save laid with nothing older under way starts afresh.
LEMMA LaidAfresh ==
    ASSUME TypeOK, Walks, NEW p \in Posts, Lay(p), ~UnderWay(p) PROVE Kept'
  <1>1. /\ link' = None /\ connected' = FALSE /\ UNCHANGED loop
        /\ loop.at \notin Connecting
    BY DEF Lay, Dropped, UnderWay
  <1>2. pass \in [Refreshers -> Passes \cup {None}] /\ Posts \subseteq Refreshers /\ "loop" \in Refreshers
    BY DEF TypeOK, PassType, Passes, Refreshers
  <1>3. \A q \in Posts : pass[q] = None
    BY DEF Lay, Walks, UnderWay
  <1>4. pass' = pass \/ pass' = [pass EXCEPT ![p] = [via |-> current', next |-> 1, all |-> TRUE]]
    BY DEF Lay, Refreshing
  <1>5. \A q \in Posts : pass'[q] # None => pass'[q].via = current'
    BY <1>2, <1>3, <1>4
  <1>6. Onward'
    BY <1>1 DEF Onward, Connecting
  <1>7. Through'
    BY <1>1, <1>5 DEF Through, Connecting
  <1>8. Own'
    BY <1>1 DEF Own, Loaded, Connecting
  <1>9. QED
    BY <1>6, <1>7, <1>8 DEF Kept

\* A request of a walk leaves what the client in force has read, or adds to it.
LEMMA FormKeeps ==
    ASSUME TypeOK, Walks, Kept, NEW r \in Refreshers, GetsForm(r) PROVE Kept'
  <1>1. /\ pass \in [Refreshers -> Passes \cup {None}]
        /\ "loop" \in Refreshers /\ Posts \subseteq Refreshers /\ "loop" \notin Posts
    BY DEF TypeOK, PassType, Passes, Refreshers
  <1>2. pass[r] # None /\ pass[r] \in Passes /\ pass[r].next \in 1..Getters
    BY <1>1 DEF GetsForm, Passes
  <1>3. UNCHANGED <<pair, current, link, connected, httpOk>>
    BY DEF GetsForm, linkVars
  <1>4. \/ UNCHANGED loop
        \/ r = "loop" /\ loop' = [loop EXCEPT !.at = "loadRest"] /\ loop.at = "load" /\ pass[r].next = Getters
        \/ r = "loop" /\ loop' = [loop EXCEPT !.at = "caps"] /\ loop.at # "load"
    BY <1>2 DEF GetsForm
  <1>5. /\ \A q \in Refreshers : pass'[q] # None => pass[q] # None /\ pass'[q].via = pass[q].via
        /\ \A q \in Refreshers \ {r} : pass'[q] = pass[q]
    <2>1. CASE pass[r].next < Getters
      <3> DEFINE w == [pass[r] EXCEPT !.next = pass[r].next + 1, !.all = pass[r].all /\ Served(r)]
      <3>1. pass' = [pass EXCEPT ![r] = w]
        BY <1>1, <2>1 DEF GetsForm
      <3>2. w.via = pass[r].via
        BY <1>2 DEF Passes
      <3> HIDE DEF w
      <3>3. QED
        BY <1>1, <1>2, <3>1, <3>2
    <2>2. CASE ~(pass[r].next < Getters)
      BY <1>1, <2>2 DEF GetsForm
    <2>3. QED
      BY <2>1, <2>2
  <1>6. loop' \in [at : Connecting \cup Polling \cup {"idle"}, to : Hosts] /\ loop'.to = loop.to
    BY <1>4 DEF TypeOK, LinkType, Connecting, Polling
  <1>7. loop'.at = loop.at \/ (loop.at = "load" /\ loop'.at = "loadRest") \/ loop'.at = "caps"
    BY <1>4, <1>6 DEF TypeOK, LinkType
  <1>8. Onward'
    BY <1>3, <1>6, <1>7 DEF Kept, Onward, Connecting
  <1>9. Through'
    BY <1>1, <1>3, <1>5, <1>7 DEF Kept, Through
  <1>10. readings'.error = (IF pass[r].next = 1 THEN ~Served(r) ELSE readings.error)
         /\ readings'.from = (IF pass[r].next = 1 /\ Served(r) THEN pass[r].via ELSE readings.from)
    BY DEF GetsForm, Read
  <1>11. Own'
    <2>1. CASE pass[r].next = 1 /\ Served(r)
      <3>1. (connected \/ loop.at = "load" \/ r \in Posts) => pass[r].via = current
        BY <1>1, <1>2 DEF Kept, Through, Refreshers
      <3>2. Loaded' => connected \/ loop.at = "load" \/ r \in Posts
        <4>1. CASE r = "loop"
          <5>1. loop.at # "loadRest"
            BY <1>1, <1>2, <4>1 DEF Walks
          <5>2. QED
            BY <1>3, <1>7, <5>1 DEF Loaded
        <4>2. QED
          BY <4>1 DEF Refreshers
      <3>3. QED
        BY <1>3, <1>10, <2>1, <3>1, <3>2 DEF Own
    <2>2. CASE pass[r].next = 1 /\ ~Served(r)
      BY <1>3, <1>10, <2>2 DEF Own, Kept
    <2>3. CASE pass[r].next # 1
      <3>1. Loaded' => Loaded
        <4>1. CASE r = "loop"
          <5>1. pass["loop"].next > 1
            BY <1>2, <2>3, <4>1
          <5>2. loop.at = "load" => Loaded
            BY <1>1, <1>2, <4>1, <5>1 DEF Loaded
          <5>3. QED
            BY <1>3, <1>7, <5>2 DEF Loaded
        <4>2. CASE r # "loop"
          <5>1. UNCHANGED loop /\ pass'["loop"] = pass["loop"]
            BY <1>1, <1>4, <1>5, <4>2
          <5>2. QED
            BY <1>3, <5>1 DEF Loaded
        <4>3. QED
          BY <4>1, <4>2
      <3>2. QED
        BY <1>3, <1>10, <2>3, <3>1 DEF Own, Kept
    <2>4. QED
      BY <2>1, <2>2, <2>3
  <1>12. QED
    BY <1>8, <1>9, <1>11 DEF Kept

\* The loop connects, loads and stamps what is in force.
LEMMA LoopKeeps ==
    ASSUME TypeOK, Walks, Kept,
           Dial \/ Attach \/ DialFails \/ Load \/ Complete \/ Poll \/ Heard \/ PollFails \/ PollEnds
    PROVE  Kept'
  <1>1. /\ pass \in [Refreshers -> Passes \cup {None}]
        /\ "loop" \in Refreshers /\ Posts \subseteq Refreshers /\ "loop" \notin Posts
        /\ pair.host \in Hosts /\ pair.host # None
        /\ loop \in [at : Connecting \cup Polling \cup {"idle"}, to : Hosts]
    BY DEF TypeOK, PassType, Passes, Refreshers, PairType, LinkType
  <1>2. UNCHANGED <<pair, current, readings>>
    BY DEF Dial, Attach, DialFails, Load, Complete, Poll, Heard, PollFails, PollEnds, loopKept, confVars
  <1>3. pass["loop"] = None
    BY DEF Dial, Attach, DialFails, Load, Complete, Poll, Heard, PollFails, PollEnds, Walks
  <1>4. \/ UNCHANGED pass
        \/ pass' = [pass EXCEPT !["loop"] = Begun]
    BY DEF Dial, Attach, DialFails, Load, Complete, Poll, Heard, PollFails, PollEnds
  <1>5. Through'
    <2>1. Begun.via = current
      BY DEF Begun
    <2>2. \A p \in Posts : pass'[p] = pass[p]
      BY <1>1, <1>4
    <2>3. pass'["loop"] # None => pass'["loop"].via = current
      BY <1>1, <1>3, <1>4, <2>1
    <2>4. QED
      BY <1>2, <2>2, <2>3 DEF Kept, Through
  <1> USE DEF Kept, Onward, Own, Loaded, Connecting, Polling, Goes, linkVars
  <1>6. CASE Dial \/ Poll
    BY <1>1, <1>2, <1>3, <1>5, <1>6 DEF Dial, Poll
  <1>7. CASE Attach
    BY <1>1, <1>2, <1>3, <1>5, <1>7 DEF Attach
  <1>8. CASE DialFails \/ PollFails
    BY <1>1, <1>2, <1>3, <1>5, <1>8 DEF DialFails, PollFails, Dropped
  <1>9. CASE Load
    <2>1. CASE current = 0
      BY <1>1, <1>2, <1>3, <1>5, <1>9, <2>1 DEF Load, Completed, Stamped
    <2>2. CASE current # 0
      BY <1>1, <1>2, <1>3, <1>5, <1>9, <2>2 DEF Load, Begun
    <2>3. QED
      BY <2>1, <2>2
  <1>10. CASE Complete
    BY <1>1, <1>2, <1>3, <1>5, <1>10 DEF Complete, Completed, Stamped
  <1>11. CASE Heard
    BY <1>1, <1>2, <1>3, <1>5, <1>11 DEF Heard
  <1>12. CASE PollEnds
    BY <1>1, <1>2, <1>3, <1>5, <1>12 DEF PollEnds, Stamped
  <1>13. QED
    BY <1>6, <1>7, <1>8, <1>9, <1>10, <1>11, <1>12

\* What does not touch the link, the readings or a walk keeps all three.
LEMMA ElseKeeps ==
    ASSUME Kept, UNCHANGED savedVars PROVE Kept'
  BY DEF Kept, Onward, Through, Own, Loaded, savedVars

LEMMA RefreshKeeps ==
    ASSUME TypeOK, Kept, NEW p \in Posts, Refresh(p) PROVE Kept'
  <1>1. UNCHANGED <<pair, current, readings, link, connected, httpOk, loop>>
    BY DEF Refresh, confVars, linkVars
  <1>2. pass' = pass \/ pass' = [pass EXCEPT ![p] = [via |-> current, next |-> 1, all |-> TRUE]]
    BY DEF Refresh, Refreshing
  <1>3. pass \in [Refreshers -> Passes \cup {None}] /\ Posts \subseteq Refreshers /\ p # "loop" /\ "loop" \in Refreshers
    BY DEF TypeOK, PassType, Passes, Refreshers
  <1>4. pass'["loop"] = pass["loop"] /\ \A q \in Posts : pass'[q] # None => pass'[q] = pass[q] \/ pass'[q].via = current
    BY <1>2, <1>3
  <1>5. Through'
    BY <1>1, <1>4 DEF Kept, Through
  <1>6. Onward' /\ Own'
    BY <1>1, <1>4 DEF Kept, Onward, Own, Loaded
  <1>7. QED
    BY <1>5, <1>6 DEF Kept

\* A save in force stays what it was when it was laid.
LEMMA FreshStep ==
    ASSUME TypeOK, Walks, Fresh => Kept, [Next]_vars PROVE Fresh' => Kept'
  <1> SUFFICES ASSUME Fresh' PROVE Kept'
    OBVIOUS
  <1>1. ASSUME NEW p \in Posts, Lay(p) PROVE Kept'
    BY <1>1, LaidAfresh DEF Lay, Fresh
  <1>2. ASSUME NEW p \in Posts, Refresh(p) PROVE Kept'
    BY <1>2, RefreshKeeps DEF Refresh, Fresh, pastVars
  <1>3. ASSUME NEW r \in Refreshers, GetsForm(r) PROVE Kept'
    BY <1>3, FormKeeps DEF GetsForm, Fresh, pastVars
  <1>4. CASE Dial \/ Attach \/ DialFails \/ Load \/ Complete \/ Poll \/ Heard \/ PollFails \/ PollEnds
    <2>1. UNCHANGED pastVars
      BY <1>4 DEF Dial, Attach, DialFails, Load, Complete, Poll, Heard, PollFails, PollEnds, loopKept
    <2>2. QED
      BY <1>4, <2>1, LoopKeeps DEF Fresh, pastVars
  <1>5. CASE UNCHANGED <<savedVars, laid, overtaken>>
    BY <1>5, ElseKeeps DEF Fresh
  <1>6. ASSUME NEW p \in Posts, NEW h \in Hosts, NEW w \in Passwords \cup {None}, Submit(p, h, w) PROVE Kept'
    BY <1>6 DEF Submit, Fresh
  <1>7. ASSUME NEW p \in Posts, Answered(p) \/ Unwritable(p) PROVE Kept'
    BY <1>5, <1>7 DEF Answered, Unwritable, savedVars, pageKept, confVars, linkVars, pastVars
  <1>8. CASE Reopen \/ HealthLands \/ GraceEnds
    BY <1>5, <1>8 DEF Reopen, HealthLands, GraceEnds, savedVars, pageKept, confVars, linkVars, pastVars
  <1>9. ASSUME NEW h \in Hosts, Turn(h) PROVE Kept'
    BY <1>5, <1>9 DEF Turn, savedVars, confVars, linkVars
  <1>10. CASE UNCHANGED vars
    BY <1>5, <1>10 DEF vars, savedVars, confVars, linkVars, pastVars
  <1>11. QED
    BY <1>1, <1>2, <1>3, <1>4, <1>6, <1>7, <1>8, <1>9, <1>10 DEF Next, LoopStep, RouteStep, UserStep, Refreshers

LEMMA InitHolds == Init => IInv
  BY InitType DEF IInv, Fresh, Init

LEMMA StepHolds == IInv /\ [Next]_vars => IInv'
  <1> SUFFICES ASSUME IInv, [Next]_vars PROVE IInv'
    OBVIOUS
  <1>1. TypeOK' /\ Asked'
    BY TypeStep DEF IInv
  <1>2. Walks'
    BY WalksStep DEF IInv
  <1>3. Fresh' => Kept'
    BY FreshStep DEF IInv, Kept
  <1>4. QED
    BY <1>1, <1>2, <1>3 DEF IInv, Kept

LEMMA AlwaysIInv == Spec => []IInv
  BY InitHolds, StepHolds, PTL DEF Spec

\* Every variable of the panel, the route, the loop and the daemons keeps its type.
THEOREM TypeCorrect == Spec => []TypeOK
  BY AlwaysIInv, PTL DEF IInv

\* submitConnection, judge: what is shown as saved is what is in force.
THEOREM SavedAlwaysTrue == Spec => SavedIsTrue
  <1> DEFINE Says == page'.verdict = "saved" /\ page.verdict # "saved" /\ post' = post /\ laid /\ ~overtaken
                        => link = pair.host /\ readings.from = current
  <1>1. IInv /\ [Next]_vars => [Says]_vars
    <2> SUFFICES ASSUME IInv, [Next]_vars, page'.verdict = "saved", page.verdict # "saved", post' = post,
                        laid, ~overtaken
        PROVE  link = pair.host /\ readings.from = current
      OBVIOUS
    <2>1. page \in PageType /\ post \in [Posts -> PostType]
      BY DEF IInv, TypeOK, PanelType
    <2>2. ASSUME NEW p \in Posts, Answered(p) PROVE FALSE
      BY <2>1, <2>2 DEF Answered, Idle
    <2>3. ASSUME NEW p \in Posts, NEW h \in Hosts, NEW w \in Passwords \cup {None}, Submit(p, h, w) PROVE FALSE
      BY <2>1, <2>3 DEF Submit, PageType
    <2>4. CASE HealthLands
      <3>1. JudgedSave(page, Health).verdict = "saved" => connected /\ httpOk
        BY <2>1 DEF JudgedSave, PageType, Health
      <3>2. connected /\ httpOk
        BY <2>4, <3>1 DEF HealthLands
      <3>3. Onward /\ Own
        BY DEF IInv, Fresh
      <3>4. QED
        BY <3>2, <3>3 DEF Onward, Own
    <2>5. CASE Reopen \/ GraceEnds
      <3>1. None # "saved"
        BY DEF Verdicts
      <3>2. QED
        BY <2>1, <2>5, <3>1 DEF Reopen, GraceEnds, PageType
    <2>6. QED
      BY <2>2, <2>3, <2>4, <2>5
      DEF Next, vars, LoopStep, Dial, Attach, DialFails, Load, Complete, Poll, Heard, PollFails, PollEnds, Turn,
          RouteStep, Lay, Refresh, GetsForm, Unwritable, UserStep, loopKept, pageVars
  <1>2. QED
    BY AlwaysIInv, <1>1, PTL DEF Spec, SavedIsTrue
=============================================================================
