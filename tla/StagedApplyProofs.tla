-------------------------- MODULE StagedApplyProofs --------------------------
(* Proofs about the staged apply: its types for any number of requests, and  *)
(* for one request at a time, with the buffer left alone meanwhile, that the *)
(* apply loses nothing and touches nothing it was not asked to.              *)
EXTENDS StagedApply, TLAPS

USE FieldsAssumption, ValuesAssumption, PassesAssumption, SwitchesAssumption, BoundsAssumption

\* A request about to post has a backup to build on.
Grounded == \A r \in Requests : at[r] = "posting" => base[r] \in Config

TInv == TypeOK /\ Grounded

-----------------------------------------------------------------------------
(* Configurations and edits.                                                *)

\* Folding edits into a configuration makes a configuration.
LEMMA OverlayIsConfig == ASSUME NEW c \in Config, NEW e \in Edits PROVE Overlay(c, e) \in Config
  BY DEF Overlay, Config, Edits

\* The live part of a configuration is a reading.
LEMMA LiveIsTyped == ASSUME NEW c \in Config PROVE Live(c) \in [LiveDomain -> Values] /\ Live(c) \in Readings
  BY DEF Live, Config, Readings

\* The configuration the daemon starts with, and the empty buffer.
LEMMA FactoryIsConfig == Factory \in Config /\ NoEdits \in Edits
  BY DEF Config, NoEdits, Edits

\* The settings that ride along are edits.
LEMMA MergedIsEdits == ASSUME ManagerType, NEW e \in Edits PROVE Merged(e) \in Edits
  BY DEF ManagerType, Merged, Edits, Readings

\* What a lane can have read of the engine.
LEMMA HeardIsReadings == ASSUME ManagerType, DaemonType PROVE Heard \in Readings
  BY DEF ManagerType, DaemonType, Heard, Readings

\* What a resync leaves behind.
LEMMA ResyncedIsReadings == ASSUME DaemonType PROVE Resynced \in Readings
  BY DEF DaemonType, Resynced, Readings

\* A step within its bound keeps the account.
LEMMA SpendIsBounded ==
    ASSUME spent \in [Bounded -> Nat], \A k \in Bounded : spent[k] <= Budget[k], NEW j \in Bounded, Spend(j)
    PROVE  spent' \in [Bounded -> Nat] /\ \A k \in Bounded : spent'[k] <= Budget[k]
  <1>1. \A k \in Bounded : Budget[k] \in Nat
    BY DEF Budget, Bounded
  <1>2. spent[j] + 1 \in Nat /\ spent[j] + 1 <= Budget[j]
    BY <1>1 DEF Spend
  <1>3. QED
    BY <1>1, <1>2 DEF Spend

\* The archive taken is a configuration, whatever stays deaf to it.
LEMMA AdoptIsTyped ==
    ASSUME DaemonType, RequestType, landed \subseteq Fields \X Values, NEW r \in Requests, base[r] \in Config,
           NEW deaf, Adopt(r, deaf)
    PROVE  /\ file' \in Config /\ engine' \in [LiveDomain -> Values] /\ up' \in BOOLEAN
           /\ shipped' \subseteq Uploads /\ landed' \subseteq Fields \X Values
  <1>1. Overlay(base[r], merged[r]) \in Config
    BY OverlayIsConfig DEF RequestType
  <1>2. file' \in Config
    BY <1>1 DEF Adopt, Config
  <1>3. engine' \in [LiveDomain -> Values]
    BY <1>2, LiveIsTyped DEF Adopt
  <1>4. landed' \subseteq Fields \X Values
    <2>1. \A f \in Fields : file'[f] \in Values
      BY <1>2 DEF Config
    <2>2. landed' = landed \cup {<<f, file'[f]>> : f \in Fields}
      BY DEF Adopt
    <2>3. QED
      BY <2>1, <2>2
  <1>5. QED
    BY <1>2, <1>3, <1>4 DEF Adopt, DaemonType, RequestType

-----------------------------------------------------------------------------
(* Types.                                                                    *)

\* The induction starts.
LEMMA InitTyped == Init => TInv
  <1> SUFFICES ASSUME Init PROVE TInv
    OBVIOUS
  <1>1. DaemonType
    BY FactoryIsConfig, LiveIsTyped DEF Init, DaemonType
  <1>2. ManagerType
    BY FactoryIsConfig, LiveIsTyped DEF Init, ManagerType
  <1>3. RequestType
    BY FactoryIsConfig DEF Init, RequestType, Places, Verdicts, Results
  <1>4. HistoryType
    <2>1. \A k \in Bounded : Budget[k] \in Nat
      BY DEF Budget, Bounded
    <2>2. QED
      BY <2>1, FactoryIsConfig, LiveIsTyped DEF Init, HistoryType
  <1>5. Grounded
    BY DEF Init, Grounded
  <1>6. QED
    BY <1>1, <1>2, <1>3, <1>4, <1>5 DEF TInv, TypeOK

\* The end of a pass and the end of a request keep the types of the requests.
LEMMA AnswerTyped ==
    ASSUME RequestType, before \in [Requests -> Config \cup {None}], NEW r \in Requests, NEW how \in Results, Answer(r, how)
    PROVE  RequestType' /\ before' = before /\ base' = base /\ at' = [at EXCEPT ![r] = "idle"]
  BY DEF Answer, RequestType, Places

\* A further pass, or the end of the last one.
LEMMA NextPassTyped ==
    ASSUME RequestType, NEW r \in Requests, NEW v \in Verdicts, NextPass(r, v)
    PROVE  /\ RequestType' /\ before' = before /\ base' = base
           /\ at' = [at EXCEPT ![r] = "waiting"] \/ at' = [at EXCEPT ![r] = "idle"]
  <1>1. tries[r] > 1 => tries[r] - 1 \in 0..Passes
    BY DEF RequestType
  <1>2. CASE tries[r] > 1
    BY <1>1, <1>2 DEF NextPass, RequestType, Places
  <1>3. CASE ~(tries[r] > 1)
    BY <1>3 DEF NextPass, RequestType, Places, Results
  <1>4. QED
    BY <1>2, <1>3

\* An apply that starts, on either lane.
LEMMA BeginTyped ==
    ASSUME TInv, NEW r \in Requests, NEW k \in {"staged", "engine"}, NEW e \in Edits, NEW n \in 0..Passes, Begin(r, k, e, n)
    PROVE  TInv'
  <1> USE DEF TInv, TypeOK
  <1>1. DaemonType'
    BY DEF Begin, DaemonType, daemonVars
  <1>2. ManagerType'
    BY DEF Begin, ManagerType, bufferVars
  <1>3. RequestType'
    <2>1. Merged(e) \in Edits
      BY MergedIsEdits
    <2>2. QED
      BY <2>1 DEF Begin, RequestType, Places, Verdicts, Results
  <1>4. HistoryType'
    <2>1. chosen' \in Readings
      BY HeardIsReadings DEF Begin, HistoryType
    <2>2. before' \in [Requests -> Config \cup {None}]
      BY DEF Begin, HistoryType, DaemonType
    <2>3. QED
      BY <2>1, <2>2 DEF Begin, HistoryType
  <1>5. Grounded'
    BY DEF Begin, Grounded, RequestType
  <1>6. QED
    BY <1>1, <1>2, <1>3, <1>4, <1>5

\* A staging, an upload, a discard, a live write.
LEMMA UserTyped == ASSUME TInv, User PROVE TInv'
  <1> USE DEF TInv, TypeOK
  <1>1. RequestType' /\ Grounded' /\ before' = before
    BY DEF User, Stage, Park, Discard, LiveWrite, requestVars, RequestType, Grounded
  <1>2. ASSUME NEW k \in Bounded, Spend(k) PROVE spent' \in [Bounded -> Nat] /\ \A j \in Bounded : spent'[j] <= Budget[j]
    BY <1>2, SpendIsBounded DEF HistoryType
  <1>3. ASSUME NEW f \in Fields, NEW v \in Values \cup {None}, Stage(f, v) PROVE DaemonType' /\ ManagerType' /\ HistoryType'
    <2>1. DaemonType' /\ ManagerType'
      BY <1>3 DEF Stage, DaemonType, ManagerType, daemonVars, Edits
    <2>2. landed' \subseteq Fields \X Values
      <3>1. file[f] \in Values
        BY DEF DaemonType, Config
      <3>2. QED
        BY <1>3, <3>1 DEF Stage, HistoryType
    <2>3. spent' \in [Bounded -> Nat] /\ \A j \in Bounded : spent'[j] <= Budget[j]
      BY <1>2, <1>3 DEF Stage, Bounded
    <2>4. QED
      BY <1>1, <1>3, <2>1, <2>2, <2>3 DEF Stage, HistoryType
  <1>4. ASSUME NEW u \in Uploads, Park(u) PROVE DaemonType' /\ ManagerType' /\ HistoryType'
    <2>1. spent' \in [Bounded -> Nat] /\ \A j \in Bounded : spent'[j] <= Budget[j]
      BY <1>2, <1>4 DEF Park, Bounded
    <2>2. QED
      BY <1>1, <1>4, <2>1 DEF Park, DaemonType, ManagerType, HistoryType
  <1>5. ASSUME Discard PROVE DaemonType' /\ ManagerType' /\ HistoryType'
    <2>1. spent' \in [Bounded -> Nat] /\ \A j \in Bounded : spent'[j] <= Budget[j]
      BY <1>2, <1>5 DEF Discard, Bounded
    <2>2. QED
      BY <1>1, <1>5, <2>1, FactoryIsConfig DEF Discard, DaemonType, ManagerType, HistoryType, daemonVars
  <1>6. ASSUME NEW f \in LiveDomain, NEW v \in Values, LiveWrite(f, v) PROVE DaemonType' /\ ManagerType' /\ HistoryType'
    <2>1. spent' \in [Bounded -> Nat] /\ \A j \in Bounded : spent'[j] <= Budget[j]
      BY <1>2, <1>6 DEF LiveWrite, Bounded
    <2>2. engine' \in [LiveDomain -> Values] /\ known' \in Readings /\ chosen' \in Readings
      BY <1>6 DEF LiveWrite, DaemonType, HistoryType, Readings
    <2>3. QED
      BY <1>1, <1>6, <2>1, <2>2 DEF LiveWrite, DaemonType, ManagerType, HistoryType, bufferVars
  <1>7. QED
    BY <1>1, <1>3, <1>4, <1>5, <1>6 DEF User

\* The daemon, its endpoints and the poll.
LEMMA WorldTyped == ASSUME TInv, Poll \/ ComesUp \/ EndpointChanges \/ UNCHANGED vars PROVE TInv'
  <1> USE DEF TInv, TypeOK
  <1>1. RequestType' /\ Grounded' /\ before' = before
    BY DEF Poll, ComesUp, EndpointChanges, vars, requestVars, RequestType, Grounded
  <1>2. CASE Poll
    <2>1. known' \in Readings
      BY <1>2 DEF Poll, DaemonType, Readings
    <2>2. QED
      BY <1>1, <1>2, <2>1 DEF Poll, daemonVars, bufferVars, DaemonType, ManagerType, HistoryType
  <1>3. CASE ComesUp
    BY <1>1, <1>3 DEF ComesUp, bufferVars, DaemonType, ManagerType, HistoryType
  <1>4. CASE EndpointChanges
    <2>1. spent' \in [Bounded -> Nat] /\ \A j \in Bounded : spent'[j] <= Budget[j]
      BY <1>4, SpendIsBounded DEF EndpointChanges, Bounded, HistoryType
    <2>2. offered' \subseteq Values
      BY <1>4 DEF EndpointChanges, DaemonType
    <2>3. QED
      BY <1>1, <1>4, <2>1, <2>2 DEF EndpointChanges, bufferVars, DaemonType, ManagerType, HistoryType
  <1>5. CASE UNCHANGED vars
    BY <1>1, <1>5 DEF vars, daemonVars, bufferVars, DaemonType, ManagerType, HistoryType
  <1>6. QED
    BY <1>2, <1>3, <1>4, <1>5

\* The parts of an apply up to its post.
LEMMA FetchingTyped ==
    ASSUME TInv, NEW r \in Requests, Fetch(r) \/ FetchUnusable(r) \/ WireFails(r) \/ NeverServed(r) \/ Refused(r)
    PROVE  TInv'
  <1> USE DEF TInv, TypeOK
  <1>1. verdict[r] \in Verdicts
    BY DEF RequestType
  <1>2. DaemonType'
    BY DEF Fetch, FetchUnusable, WireFails, NeverServed, Refused, daemonVars, DaemonType
  <1>3. ManagerType'
    BY DEF Fetch, FetchUnusable, WireFails, NeverServed, Refused, bufferVars, ManagerType, DaemonType
  <1>4. CASE Fetch(r)
    <2>1. merged' \in [Requests -> Edits]
      <3>1. Merged(edits[r]) \in Edits
        BY MergedIsEdits DEF RequestType
      <3>2. QED
        BY <1>4, <3>1 DEF Fetch, RequestType
    <2>2. carried' \in [Requests -> SUBSET Uploads]
      BY <1>4 DEF Fetch, RequestType, ManagerType
    <2>3. base' \in [Requests -> Config \cup {None}] /\ at' \in [Requests -> Places]
      BY <1>4 DEF Fetch, RequestType, DaemonType, Places
    <2>4. RequestType' /\ HistoryType'
      BY <1>4, <2>1, <2>2, <2>3 DEF Fetch, RequestType, HistoryType
    <2>5. Grounded'
      BY <1>4 DEF Fetch, Grounded, RequestType, DaemonType
    <2>6. QED
      BY <1>2, <1>3, <2>4, <2>5
  <1>5. ASSUME NEW how \in Results, Answer(r, how) PROVE RequestType' /\ Grounded' /\ before' = before
    BY <1>5, AnswerTyped DEF Grounded, RequestType, HistoryType
  <1>6. ASSUME NextPass(r, verdict[r]) PROVE RequestType' /\ Grounded' /\ before' = before
    BY <1>1, <1>6, NextPassTyped DEF Grounded, RequestType
  <1>7. CASE FetchUnusable(r) \/ Refused(r)
    <2>1. RequestType' /\ Grounded' /\ before' = before
      BY <1>5, <1>7 DEF FetchUnusable, Refused, Results
    <2>2. QED
      BY <1>2, <1>3, <1>7, <2>1 DEF FetchUnusable, Refused, HistoryType
  <1>8. CASE NeverServed(r)
    BY <1>2, <1>3, <1>6, <1>8 DEF NeverServed, HistoryType
  <1>9. CASE WireFails(r)
    <2>1. spent' \in [Bounded -> Nat] /\ \A j \in Bounded : spent'[j] <= Budget[j]
      BY <1>9, SpendIsBounded DEF WireFails, Bounded, HistoryType
    <2>2. RequestType' /\ Grounded' /\ before' = before
      BY <1>6, <1>9 DEF WireFails
    <2>3. QED
      BY <1>2, <1>3, <1>9, <2>1, <2>2 DEF WireFails, HistoryType
  <1>10. QED
    BY <1>4, <1>7, <1>8, <1>9

\* The post, answered or not.
LEMMA PostTyped == ASSUME TInv, NEW r \in Requests, Post(r) \/ PostUnanswered(r) PROVE TInv'
  <1> USE DEF TInv, TypeOK
  <1>1. base[r] \in Config
    BY DEF Post, PostUnanswered, Grounded
  <1>2. ASSUME NEW deaf, Adopt(r, deaf)
        PROVE  /\ file' \in Config /\ engine' \in [LiveDomain -> Values] /\ up' \in BOOLEAN
               /\ shipped' \subseteq Uploads /\ landed' \subseteq Fields \X Values
    BY <1>1, <1>2, AdoptIsTyped DEF HistoryType
  <1>3. CASE Post(r)
    <2>1. PICK deaf \in SUBSET Fields :
             /\ IF deaf = {} THEN UNCHANGED spent ELSE Spend("deaf")
             /\ Adopt(r, deaf \cup Untakeable(r))
      BY <1>3 DEF Post
    <2>2. spent' \in [Bounded -> Nat] /\ \A j \in Bounded : spent'[j] <= Budget[j]
      BY <2>1, SpendIsBounded DEF Bounded, HistoryType
    <2>3. DaemonType' /\ landed' \subseteq Fields \X Values
      BY <1>2, <1>3, <2>1 DEF Post, DaemonType
    <2>4. RequestType' /\ Grounded' /\ before' = before
      BY <1>3 DEF Post, RequestType, Grounded, Places
    <2>5. ManagerType' /\ HistoryType'
      BY <1>3, <2>2, <2>3, <2>4 DEF Post, bufferVars, ManagerType, HistoryType
    <2>6. QED
      BY <2>3, <2>4, <2>5
  <1>4. CASE PostUnanswered(r)
    <2>1. spent' \in [Bounded -> Nat] /\ \A j \in Bounded : spent'[j] <= Budget[j]
      BY <1>4, SpendIsBounded DEF PostUnanswered, Bounded, HistoryType
    <2>2. DaemonType' /\ landed' \subseteq Fields \X Values
      BY <1>2, <1>4 DEF PostUnanswered, DaemonType
    <2>3. RequestType' /\ Grounded' /\ before' = before
      <3>1. verdict[r] \in Verdicts
        BY DEF RequestType
      <3>2. QED
        BY <1>4, <3>1, NextPassTyped DEF PostUnanswered, Grounded, RequestType
    <2>4. ManagerType' /\ HistoryType'
      BY <1>4, <2>1, <2>2, <2>3 DEF PostUnanswered, bufferVars, ManagerType, HistoryType
    <2>5. QED
      BY <2>2, <2>3, <2>4
  <1>5. QED
    BY <1>3, <1>4

\* The verdict and what follows from it.
LEMMA JudgingTyped == ASSUME TInv, NEW r \in Requests, Converges(r) \/ Diverges(r) \/ Finish(r) PROVE TInv'
  <1> USE DEF TInv, TypeOK
  <1>1. DaemonType'
    BY DEF Converges, Diverges, Finish, daemonVars, DaemonType
  <1>2. CASE Converges(r)
    <2>1. RequestType' /\ Grounded'
      BY <1>2 DEF Converges, RequestType, Grounded, Places, Verdicts
    <2>2. QED
      BY <1>1, <1>2, <2>1 DEF Converges, bufferVars, ManagerType, HistoryType
  <1>3. CASE Diverges(r)
    <2>1. form' \subseteq Values
      BY <1>3 DEF Diverges, DaemonType, ManagerType
    <2>2. ManagerType'
      BY <1>3, <2>1 DEF Diverges, bufferVars, ManagerType
    <2>3. RequestType' /\ Grounded' /\ before' = before
      <3>1. PICK v \in {"diverged", "gone"} :
               \/ /\ verdict' = [verdict EXCEPT ![r] = v] /\ at' = [at EXCEPT ![r] = "settling"]
                  /\ UNCHANGED <<kind, tries, edits, merged, base, carried, result, before>>
               \/ NextPass(r, "diverged")
        BY <1>3 DEF Diverges
      <3>2. CASE NextPass(r, "diverged")
        BY <3>2, NextPassTyped DEF Verdicts, Grounded, RequestType
      <3>3. CASE ~NextPass(r, "diverged")
        BY <3>1, <3>3 DEF RequestType, Grounded, Places, Verdicts
      <3>4. QED
        BY <3>2, <3>3
    <2>4. QED
      BY <1>1, <1>3, <2>2, <2>3 DEF Diverges, HistoryType
  <1>4. CASE Finish(r)
    <2>1. RequestType' /\ Grounded' /\ before' = before
      <3>1. Settled(r) \in Results
        BY DEF Settled, Results
      <3>2. QED
        BY <1>4, <3>1, AnswerTyped DEF Finish, Grounded, RequestType, HistoryType
    <2>2. ManagerType'
      BY <1>4, ResyncedIsReadings, FactoryIsConfig DEF Finish, bufferVars, ManagerType
    <2>3. chosen' \in Readings
      <3>1. edits[r] \in Edits
        BY DEF RequestType
      <3>2. QED
        BY <1>4, <3>1 DEF Finish, HistoryType, Readings, Edits
    <2>4. QED
      BY <1>1, <1>4, <2>1, <2>2, <2>3 DEF Finish, HistoryType
  <1>5. QED
    BY <1>2, <1>3, <1>4

\* A request that begins.
LEMMA BeginningTyped ==
    ASSUME TInv, NEW r \in Requests, Apply(r) \/ \E f \in Fields, v \in Values : ApplyEngine(r, f, v) PROVE TInv'
  <1>1. CASE Apply(r)
    BY <1>1, BeginTyped DEF Apply, TInv, TypeOK, ManagerType
  <1>2. ASSUME NEW f \in Fields, NEW v \in Values, ApplyEngine(r, f, v) PROVE TInv'
    <2>1. [NoEdits EXCEPT ![f] = v] \in Edits /\ 1 \in 0..Passes
      BY DEF NoEdits, Edits
    <2>2. QED
      BY <1>2, <2>1, BeginTyped DEF ApplyEngine
  <1>3. QED
    BY <1>1, <1>2

\* Every reachable state is typed, and a post has a configuration to build on.
LEMMA TypedSafety == Spec => []TInv
  <1>1. TInv /\ [Next]_vars => TInv'
    BY BeginningTyped, FetchingTyped, PostTyped, JudgingTyped, UserTyped, WorldTyped DEF Next, Advance
  <1>2. QED
    BY InitTyped, <1>1, PTL DEF Spec

\* TypeOK of the staged apply, for any number of requests, fields and passes.
THEOREM TypeCorrect == Spec => []TypeOK
  <1>1. TInv => TypeOK
    BY DEF TInv
  <1>2. QED
    BY TypedSafety, <1>1, PTL

-----------------------------------------------------------------------------
(* One request at a time: what it posts is built on what is there.           *)

Alone == \A q, r \in Requests : q = r

Based == \A r \in Requests : at[r] = "posting" => archive = file /\ base[r] = file

\* No step of the one request at work comes between its backup and its post.
LEMMA BasedStep == ASSUME Alone, TInv, Based, [Next]_vars PROVE Based'
  <1> SUFFICES ASSUME NEW r \in Requests, at'[r] = "posting" PROVE archive' = file' /\ base'[r] = file'
    BY DEF Based
  <1> USE DEF TInv, TypeOK, RequestType
  <1>1. \A q \in Requests : q = r
    BY DEF Alone
  <1>2. ASSUME at[r] = "posting", UNCHANGED <<file, archive, base>> PROVE archive' = file' /\ base'[r] = file'
    BY <1>2 DEF Based
  <1>3. CASE Apply(r) \/ \E f \in Fields, v \in Values : ApplyEngine(r, f, v)
    BY <1>3 DEF Apply, ApplyEngine, Begin
  <1>4. CASE Fetch(r)
    BY <1>4 DEF Fetch, daemonVars
  <1>5. CASE FetchUnusable(r) \/ Refused(r) \/ Finish(r)
    BY <1>5 DEF FetchUnusable, Refused, Finish, Answer
  <1>6. CASE WireFails(r) \/ NeverServed(r) \/ PostUnanswered(r)
    BY <1>6 DEF WireFails, NeverServed, PostUnanswered, NextPass
  <1>7. CASE Post(r) \/ Converges(r)
    BY <1>7 DEF Post, Converges
  <1>8. CASE Diverges(r)
    BY <1>8 DEF Diverges, NextPass
  <1>9. CASE User
    BY <1>2, <1>9 DEF User, Stage, Park, Discard, LiveWrite, daemonVars, requestVars
  <1>10. CASE Poll \/ ComesUp \/ EndpointChanges \/ UNCHANGED vars
    BY <1>2, <1>10 DEF Poll, ComesUp, EndpointChanges, vars, daemonVars, requestVars
  <1>11. QED
    BY <1>1, <1>3, <1>4, <1>5, <1>6, <1>7, <1>8, <1>9, <1>10 DEF Next, Advance

\* The archive about to be posted was built on the file as it is.
LEMMA BasedSafety == ASSUME Alone PROVE Spec => [](TInv /\ Based)
  <1>1. Init => Based
    BY DEF Init, Based
  <1>2. Based /\ TInv /\ [Next]_vars => Based'
    BY BasedStep
  <1>3. QED
    BY <1>1, <1>2, TypedSafety, PTL DEF Spec

\* BackupIsCurrent, for one request at a time, whatever else goes on meanwhile:
\* the copy on disk is the configuration the post is about to overwrite.
THEOREM BackupAlwaysCurrent == ASSUME Alone PROVE Spec => []BackupIsCurrent
  <1>1. Based => BackupIsCurrent
    BY DEF Based, BackupIsCurrent
  <1>2. QED
    BY BasedSafety, <1>1, PTL

\* A post by a grounded request changes only what it merged.
LEMMA AdoptTouchesMerged ==
    ASSUME TInv, Based, NEW r \in Requests, at[r] = "posting", NEW deaf, Adopt(r, deaf), NEW f \in Fields, file'[f] # file[f]
    PROVE  merged[r][f] = file'[f]
  <1>1. file' = [g \in Fields |-> IF g \in deaf THEN file[g] ELSE Overlay(file, merged[r])[g]]
    BY DEF Adopt, Based
  <1>2. file'[f] = Overlay(file, merged[r])[f]
    BY <1>1
  <1>3. QED
    BY <1>2 DEF Overlay

\* UntouchedSurvives, for one request at a time, whatever else goes on meanwhile: a
\* field of the file changes only to a value the posting request asked for or carries.
THEOREM UntouchedAlwaysSurvives == ASSUME Alone PROVE Spec => UntouchedSurvives
  <1>1. TInv /\ Based /\ [Next]_vars =>
          [\A f \in Fields : file'[f] # file[f] => \E r \in Requests : at[r] = "posting" /\ merged[r][f] = file'[f]]_vars
    <2> SUFFICES ASSUME TInv, Based, Next, NEW f \in Fields, file'[f] # file[f]
                 PROVE  \E r \in Requests : at[r] = "posting" /\ merged[r][f] = file'[f]
      OBVIOUS
    <2>1. PICK r \in Requests : Post(r) \/ PostUnanswered(r)
      BY ZenonT(60) DEF Next, Advance, Apply, ApplyEngine, Begin, Fetch, FetchUnusable, WireFails, NeverServed, Refused, Converges,
             Diverges, Finish, User, Stage, Park, Discard, LiveWrite, Poll, ComesUp, EndpointChanges, daemonVars
    <2>2. PICK deaf : Adopt(r, deaf)
      BY <2>1 DEF Post, PostUnanswered
    <2>3. at[r] = "posting"
      BY <2>1 DEF Post, PostUnanswered
    <2>4. QED
      BY <2>2, <2>3, AdoptTouchesMerged
  <1>2. QED
    BY BasedSafety, <1>1, PTL DEF Spec, UntouchedSurvives

-----------------------------------------------------------------------------
(* One request at a time and the buffer left alone meanwhile: nothing is lost. *)

Holding(r) == kind[r] = "staged" /\ at[r] # "idle" => \A f \in Fields : staged[f] \in {None, merged[r][f]}
Carrying(r) ==
    /\ kind[r] = "staged" /\ at[r] = "posting" => parked \subseteq carried[r]
    /\ kind[r] = "staged" /\ at[r] \in {"verifying", "settling"} => parked \subseteq shipped
Landing(r) ==
    /\ at[r] = "verifying" => \A f \in Fields : <<f, file[f]>> \in landed
    /\ kind[r] = "staged" /\ at[r] = "settling" /\ verdict[r] = "converged" =>
          \A f \in Fields : staged[f] = None \/ <<f, staged[f]>> \in landed

Kept == \A r \in Requests : Holding(r) /\ Carrying(r) /\ Landing(r)

\* A pass that ends leaves nothing to keep but the edits.
LEMMA EndedIsKept ==
    ASSUME TInv, Kept, NEW r \in Requests, UNCHANGED <<kind, merged, staged>>, at' \in [Requests -> Places],
           at'[r] \in {"waiting", "idle"}, at[r] # "idle"
    PROVE  Holding(r)' /\ Carrying(r)' /\ Landing(r)'
  BY DEF Kept, Holding, Carrying, Landing

\* Nothing is lost by a step that leaves all of it alone, or lets some of it go.
LEMMA StillKept ==
    ASSUME Kept, NEW r \in Requests, UNCHANGED <<at, kind, merged, carried, verdict, staged, parked, shipped, file, landed>>
    PROVE  Holding(r)' /\ Carrying(r)' /\ Landing(r)'
  BY DEF Kept, Holding, Carrying, Landing

\* A post lands what the archive carries, whether or not it is answered.
LEMMA PostKeeps ==
    ASSUME TInv, Kept, NEW r \in Requests, Post(r) \/ PostUnanswered(r)
    PROVE  Holding(r)' /\ Carrying(r)' /\ Landing(r)'
  <1> USE DEF TInv, TypeOK, RequestType
  <1>1. CASE Post(r)
    <2>1. PICK deaf : Adopt(r, deaf)
      BY <1>1 DEF Post
    <2>2. at'[r] = "verifying"
      BY <1>1 DEF Post
    <2>3. Holding(r)'
      BY <1>1 DEF Post, bufferVars, Kept, Holding
    <2>4. Carrying(r)'
      BY <1>1, <2>1 DEF Post, bufferVars, Adopt, Kept, Carrying
    <2>5. Landing(r)'
      BY <2>1, <2>2 DEF Adopt, Landing
    <2>6. QED
      BY <2>3, <2>4, <2>5
  <1>2. CASE PostUnanswered(r)
    <2>1. at' \in [Requests -> Places] /\ at'[r] \in {"waiting", "idle"} /\ at[r] # "idle"
      BY <1>2 DEF PostUnanswered, NextPass, Places
    <2>2. QED
      BY <1>2, <2>1, EndedIsKept DEF PostUnanswered, NextPass, bufferVars
  <1>3. QED
    BY <1>1, <1>2

\* A verdict takes nothing back, and an apply that ends leaves nothing to keep.
LEMMA JudgingKeeps ==
    ASSUME TInv, Kept, NEW r \in Requests, Converges(r) \/ Diverges(r) \/ Finish(r)
    PROVE  Holding(r)' /\ Carrying(r)' /\ Landing(r)'
  <1> USE DEF TInv, TypeOK, RequestType
  <1>1. CASE Converges(r)
    <2>1. at[r] = "verifying" /\ at'[r] = "settling" /\ UNCHANGED <<kind, merged, carried, staged, parked, shipped, file, landed>>
      BY <1>1 DEF Converges, bufferVars, daemonVars
    <2>2. Holding(r)' /\ Carrying(r)'
      BY <2>1 DEF Kept, Holding, Carrying
    <2>3. kind[r] = "staged" => \A f \in Fields : staged[f] = None \/ <<f, staged[f]>> \in landed
      <3>1. SUFFICES ASSUME kind[r] = "staged", NEW f \in Fields, staged[f] # None PROVE <<f, staged[f]>> \in landed
        OBVIOUS
      <3>2. staged[f] = merged[r][f]
        BY <2>1, <3>1 DEF Kept, Holding
      <3>3. merged[r][f] = file[f]
        BY <1>1, <3>1, <3>2 DEF Converges, Asked, Matches
      <3>4. QED
        BY <2>1, <3>2, <3>3 DEF Kept, Landing
    <2>4. Landing(r)'
      BY <2>1, <2>3 DEF Landing
    <2>5. QED
      BY <2>2, <2>4
  <1>2. CASE Diverges(r)
    <2>1. PICK v \in {"diverged", "gone"} :
             \/ /\ verdict' = [verdict EXCEPT ![r] = v] /\ at' = [at EXCEPT ![r] = "settling"]
                /\ UNCHANGED <<kind, tries, edits, merged, base, carried, result, before>>
             \/ NextPass(r, "diverged")
      BY <1>2 DEF Diverges
    <2>2. UNCHANGED <<staged, parked, shipped, file, landed>> /\ at[r] = "verifying"
      BY <1>2 DEF Diverges, bufferVars, daemonVars
    <2>3. CASE NextPass(r, "diverged")
      <3>1. at' \in [Requests -> Places] /\ at'[r] \in {"waiting", "idle"} /\ UNCHANGED <<kind, merged>>
        BY <2>3 DEF NextPass, Places
      <3>2. QED
        BY <2>2, <3>1, EndedIsKept
    <2>4. CASE ~NextPass(r, "diverged")
      BY <2>1, <2>2, <2>4 DEF Kept, Holding, Carrying, Landing
    <2>5. QED
      BY <2>3, <2>4
  <1>3. CASE Finish(r)
    BY <1>3 DEF Finish, Answer, Holding, Carrying, Landing
  <1>4. QED
    BY <1>1, <1>2, <1>3

\* Every step keeps what the apply under way holds, carries and has landed.
LEMMA KeptStep == ASSUME Alone, ~EditsMeanwhile, TInv, Kept, [Next]_vars PROVE Kept'
  <1> SUFFICES ASSUME NEW r \in Requests PROVE Holding(r)' /\ Carrying(r)' /\ Landing(r)'
    BY DEF Kept
  <1> USE DEF TInv, TypeOK, RequestType
  <1>1. \A q \in Requests : q = r
    BY DEF Alone
  <1>2. CASE Apply(r)
    BY <1>2 DEF Apply, Begin, bufferVars, Merged, Holding, Carrying, Landing
  <1>3. CASE \E f \in Fields, v \in Values : ApplyEngine(r, f, v)
    BY <1>3 DEF ApplyEngine, Begin, Holding, Carrying, Landing
  <1>4. CASE Fetch(r)
    BY <1>4 DEF Fetch, bufferVars, Kept, Holding, Carrying, Landing
  <1>5. CASE FetchUnusable(r) \/ Refused(r)
    BY <1>5 DEF FetchUnusable, Refused, Answer, Holding, Carrying, Landing
  <1>6. CASE WireFails(r) \/ NeverServed(r)
    <2>1. at' \in [Requests -> Places] /\ at'[r] \in {"waiting", "idle"} /\ at[r] # "idle"
      BY <1>6 DEF WireFails, NeverServed, NextPass, Places
    <2>2. QED
      BY <1>6, <2>1, EndedIsKept DEF WireFails, NeverServed, NextPass, bufferVars
  <1>7. CASE Post(r) \/ PostUnanswered(r)
    BY <1>7, PostKeeps
  <1>8. CASE Converges(r) \/ Diverges(r) \/ Finish(r)
    BY <1>8, JudgingKeeps
  <1>9. CASE User
    <2>1. CASE \E f \in LiveDomain, v \in Values : LiveWrite(f, v)
      BY <2>1, StillKept DEF LiveWrite, bufferVars, requestVars
    <2>2. CASE ~\E f \in LiveDomain, v \in Values : LiveWrite(f, v)
      <3>1. at[r] = "idle" /\ at'[r] = "idle"
        BY <1>9, <2>2 DEF User, Stage, Park, Discard, Quiescent, requestVars
      <3>2. QED
        BY <3>1 DEF Holding, Carrying, Landing
    <2>3. QED
      BY <2>1, <2>2
  <1>10. CASE Poll \/ ComesUp \/ EndpointChanges \/ UNCHANGED vars
    BY <1>10, StillKept DEF Poll, ComesUp, EndpointChanges, vars, daemonVars, bufferVars, requestVars
  <1>11. QED
    BY <1>1, <1>2, <1>3, <1>4, <1>5, <1>6, <1>7, <1>8, <1>9, <1>10 DEF Next, Advance

\* What an apply holds, carries and has landed, throughout.
LEMMA KeptSafety == ASSUME Alone, ~EditsMeanwhile PROVE Spec => [](TInv /\ Kept)
  <1>1. Init => Kept
    BY DEF Init, Kept, Holding, Carrying, Landing
  <1>2. Kept /\ TInv /\ [Next]_vars => Kept'
    BY KeptStep
  <1>3. QED
    BY <1>1, <1>2, TypedSafety, PTL DEF Spec

\* Only a converged staged apply takes from the buffer by itself.
LEMMA OnlyFinishTakes ==
    ASSUME TInv, Next, ~User, staged' # staged \/ parked' # parked
    PROVE  \E r \in Requests : Finish(r) /\ verdict[r] = "converged" /\ kind[r] = "staged"
  BY ZenonT(60) DEF Next, Advance, Apply, ApplyEngine, Begin, Fetch, FetchUnusable, WireFails, NeverServed, Refused, Post,
         PostUnanswered, Converges, Diverges, Finish, Poll, ComesUp, EndpointChanges, bufferVars

\* UploadsShip, for one request at a time with the buffer left alone: a parked upload
\* is let go of only once it is on the daemon's disk.
THEOREM UploadsAlwaysShip == ASSUME Alone, ~EditsMeanwhile PROVE Spec => UploadsShip
  <1>1. TInv /\ Kept /\ [Next]_vars => [User \/ parked \ parked' \subseteq shipped]_vars
    <2> SUFFICES ASSUME TInv, Kept, Next, ~User, parked' # parked PROVE parked \subseteq shipped
      OBVIOUS
    <2>1. QED
      BY OnlyFinishTakes DEF Finish, Kept, Carrying
  <1>2. QED
    BY KeptSafety, <1>1, PTL DEF Spec, UploadsShip

\* NothingDropped, for one request at a time with the buffer left alone: a staged
\* value leaves the buffer by itself only after the daemon's file has held it.
THEOREM NothingEverDropped == ASSUME Alone, ~EditsMeanwhile PROVE Spec => NothingDropped
  <1>1. TInv /\ Kept /\ [Next]_vars =>
          [User \/ \A f \in Fields : staged[f] \in {None, staged'[f]} \/ <<f, staged[f]>> \in landed]_vars
    <2> SUFFICES ASSUME TInv, Kept, Next, ~User, staged' # staged, NEW f \in Fields, staged[f] # None
                 PROVE  <<f, staged[f]>> \in landed
      OBVIOUS
    <2>1. QED
      BY OnlyFinishTakes DEF Finish, Kept, Landing
  <1>2. QED
    BY KeptSafety, <1>1, PTL DEF Spec, NothingDropped

-----------------------------------------------------------------------------
(* One request at a time and no live write meanwhile: what is heard comes back. *)

\* Readings are forgotten only once the engine runs what is in the file.
Forgotten == \A f \in LiveDomain : known[f] = None => engine[f] = file[f]

\* What the staged lane was given for the live settings is what was chosen.
Given(r) ==
    kind[r] = "staged" /\ at[r] # "idle" =>
        \A f \in LiveDomain :
            IF edits[r][f] # None THEN merged[r][f] = edits[r][f]
            ELSE \/ chosen[f] = None
                 \/ merged[r][f] = chosen[f]
                 \/ merged[r][f] = None /\ file[f] = chosen[f]

\* The hardware card has one pass and no live setting of its own; until it has posted,
\* the engine plays what was chosen, and what rides along is that.
Riding(r) ==
    kind[r] = "engine" /\ at[r] # "idle" =>
        /\ tries[r] = 1
        /\ \A f \in LiveDomain : edits[r][f] = None
        /\ \A f \in LiveDomain : chosen[f] # None =>
              /\ at[r] \in {"waiting", "posting"} => engine[f] = chosen[f]
              /\ at[r] = "waiting" => known[f] \in {None, chosen[f]}
              /\ at[r] = "posting" => \/ merged[r][f] = chosen[f]
                                      \/ merged[r][f] = None /\ file[f] = chosen[f]

\* The daemon has taken everything it was given, or the request at hand checks that.
Obeyed == spent["deaf"] = 0 \/ \A r \in Requests : kind[r] = "staged"

\* A daemon that has just restarted plays its file; a verdict stands on it; an apply
\* that took has the engine on what was chosen.
Playing(r) ==
    /\ at[r] \in {"verifying", "settling"} => engine = Live(file)
    /\ kind[r] = "staged" /\ at[r] = "settling" /\ verdict[r] = "converged" => Matches(file, merged[r])
    /\ kind[r] = "engine" /\ at[r] \in {"verifying", "settling"} /\ spent["deaf"] = 0 =>
          \A f \in LiveDomain : chosen[f] \in {None, engine[f]}
    /\ at[r] = "idle" /\ result[r] = "applied" /\ Obeyed =>
          \A f \in LiveDomain : chosen[f] \in {None, engine[f]}

Heeded == Forgotten /\ \A r \in Requests : Given(r) /\ Riding(r) /\ Playing(r)

\* What is heeded, of one request, speaks of nothing else than these.
Heeding(r) == Given(r) /\ Riding(r) /\ Playing(r)
StillHeard == UNCHANGED <<file, engine, at, kind, tries, edits, merged, verdict, result, chosen>> /\ spent'["deaf"] = spent["deaf"]

\* Nothing is unheeded by a step that leaves all of it alone, but for readings taken afresh.
LEMMA StillHeeded ==
    ASSUME TInv, Heeded, NEW r \in Requests, Alone, StillHeard, known' \in {known, engine}
    PROVE  Forgotten' /\ Heeding(r)'
  <1> USE DEF TInv, TypeOK, DaemonType, ManagerType, RequestType, HistoryType
  <1>1. Forgotten'
    BY DEF StillHeard, Heeded, Forgotten
  <1>2. Given(r)'
    BY DEF StillHeard, Heeded, Given
  <1>3. Riding(r)'
    BY DEF StillHeard, Heeded, Riding
  <1>4. Playing(r)'
    BY DEF StillHeard, Heeded, Playing, Obeyed, Live
  <1>5. QED
    BY <1>1, <1>2, <1>3, <1>4 DEF Heeding

\* A request that starts on either lane takes along what is heard.
LEMMA BeginHeeds ==
    ASSUME Alone, TInv, Heeded, NEW r \in Requests, NEW k \in {"staged", "engine"}, NEW e \in Edits, NEW n \in Nat,
           Begin(r, k, e, n), k = "engine" => n = 1 /\ \A f \in LiveDomain : e[f] = None
    PROVE  Forgotten' /\ Heeding(r)'
  <1> USE DEF TInv, TypeOK, DaemonType, ManagerType, RequestType, HistoryType
  <1>1. \A q \in Requests : q = r
    BY DEF Alone
  <1>2. /\ at'[r] = "waiting" /\ kind'[r] = k /\ tries'[r] = n /\ edits'[r] = e /\ merged'[r] = Merged(e)
        /\ result'[r] = "none" /\ chosen' = Heard /\ UNCHANGED <<file, engine, known>>
    BY <1>1 DEF Begin, Quiescent, daemonVars
  <1>3. Forgotten'
    BY <1>2 DEF Heeded, Forgotten
  <1>4. \A f \in LiveDomain : Heard[f] # None => engine[f] = Heard[f] /\ known[f] \in {None, Heard[f]}
    BY DEF Heard
  <1>5. Given(r)'
    <2>1. SUFFICES ASSUME NEW f \in LiveDomain
                   PROVE  IF e[f] # None THEN Merged(e)[f] = e[f]
                          ELSE \/ Heard[f] = None
                               \/ Merged(e)[f] = Heard[f]
                               \/ Merged(e)[f] = None /\ file[f] = Heard[f]
      BY <1>2 DEF Given
    <2>2. Merged(e)[f] = IF e[f] = None THEN known[f] ELSE e[f]
      BY DEF Merged
    <2>3. known[f] = None => engine[f] = file[f]
      BY DEF Heeded, Forgotten
    <2>4. QED
      BY <1>4, <2>2, <2>3
  <1>6. Riding(r)'
    BY <1>2, <1>4 DEF Riding
  <1>7. Playing(r)'
    BY <1>2 DEF Playing
  <1>8. QED
    BY <1>3, <1>5, <1>6, <1>7 DEF Heeding

\* A request that ends without having taken leaves nothing to heed.
LEMMA EndedIsHeeded ==
    ASSUME TInv, Heeded, NEW r \in Requests, UNCHANGED <<kind, tries, edits, merged, chosen, known>>,
           at'[r] = "idle", result'[r] # "applied", Forgotten'
    PROVE  Forgotten' /\ Heeding(r)'
  BY DEF Heeding, Given, Riding, Playing

\* Another pass has the engine as it was, or the file as it was posted.
LEMMA NextPassHeeds ==
    ASSUME TInv, Heeded, NEW r \in Requests, NEW v \in Verdicts, NextPass(r, v), at[r] # "idle",
           Forgotten', Given(r)'
    PROVE  Forgotten' /\ Heeding(r)'
  <1> USE DEF TInv, TypeOK, RequestType
  <1>1. CASE tries[r] > 1
    <2>1. at'[r] = "waiting" /\ UNCHANGED <<kind, result>>
      BY <1>1 DEF NextPass
    <2>2. kind[r] # "engine"
      BY <1>1 DEF Heeded, Riding
    <2>3. QED
      BY <2>1, <2>2 DEF Heeding, Riding, Playing
  <1>2. CASE ~(tries[r] > 1)
    BY <1>2 DEF NextPass, Heeding, Given, Riding, Playing
  <1>3. QED
    BY <1>1, <1>2

\* An archive taken has the engine on the file, and leaves what rides along as it was given.
LEMMA AdoptHeeds ==
    ASSUME TInv, Based, Heeded, NEW r \in Requests, at[r] = "posting", NEW deaf, Adopt(r, deaf),
           UNCHANGED <<kind, edits, merged, chosen, known>>
    PROVE  /\ Forgotten' /\ Given(r)' /\ engine' = Live(file')
           /\ \A f \in LiveDomain : file'[f] = IF f \in deaf \/ merged[r][f] = None THEN file[f] ELSE merged[r][f]
  <1> USE DEF TInv, TypeOK, DaemonType, ManagerType, RequestType, HistoryType
  <1>1. engine' = Live(file') /\ file' = [f \in Fields |-> IF f \in deaf THEN file[f] ELSE Overlay(file, merged[r])[f]]
    BY DEF Adopt, Based
  <1>2. \A f \in LiveDomain : file'[f] = IF f \in deaf \/ merged[r][f] = None THEN file[f] ELSE merged[r][f]
    BY <1>1 DEF Overlay
  <1>3. Forgotten'
    BY <1>1 DEF Forgotten, Live
  <1>4. Given(r)'
    BY <1>2 DEF Heeded, Given
  <1>5. QED
    BY <1>1, <1>2, <1>3, <1>4

\* A post, answered or not, has the engine play what was chosen, or be found not to.
LEMMA PostHeeds ==
    ASSUME TInv, Based, Heeded, NEW r \in Requests, Post(r) \/ PostUnanswered(r)
    PROVE  Forgotten' /\ Heeding(r)'
  <1> USE DEF TInv, TypeOK, DaemonType, ManagerType, RequestType, HistoryType
  <1>1. CASE Post(r)
    <2>1. PICK deaf \in SUBSET Fields :
             /\ IF deaf = {} THEN UNCHANGED spent ELSE Spend("deaf")
             /\ Adopt(r, deaf \cup Untakeable(r))
      BY <1>1 DEF Post
    <2>2. at[r] = "posting" /\ at'[r] = "verifying" /\ UNCHANGED <<kind, tries, edits, merged, chosen, known>>
      BY <1>1 DEF Post
    <2>3. /\ Forgotten' /\ Given(r)' /\ engine' = Live(file')
          /\ \A f \in LiveDomain : file'[f] = IF f \in deaf \cup Untakeable(r) \/ merged[r][f] = None
                                              THEN file[f] ELSE merged[r][f]
      BY <2>1, <2>2, AdoptHeeds
    <2>4. Riding(r)'
      BY <2>2 DEF Heeded, Riding
    <2>5. spent'["deaf"] = 0 => deaf = {}
      BY <2>1 DEF Spend, Bounded
    <2>6. kind[r] = "engine" /\ spent'["deaf"] = 0 => \A f \in LiveDomain : chosen[f] \in {None, engine'[f]}
      <3>1. SUFFICES ASSUME kind[r] = "engine", deaf = {}, NEW f \in LiveDomain, chosen[f] # None PROVE chosen[f] = engine'[f]
        BY <2>5
      <3>2. f \notin Untakeable(r)
        BY DEF Untakeable
      <3>3. merged[r][f] = chosen[f] \/ (merged[r][f] = None /\ file[f] = chosen[f])
        <4>1. Riding(r)
          BY DEF Heeded
        <4>2. QED
          BY <2>2, <3>1, <4>1 DEF Riding
      <3>4. file'[f] = chosen[f]
        BY <2>3, <3>1, <3>2, <3>3
      <3>5. QED
        BY <2>3, <3>4 DEF Live
    <2>7. Playing(r)'
      BY <2>2, <2>3, <2>6 DEF Playing
    <2>8. QED
      BY <2>3, <2>4, <2>7 DEF Heeding
  <1>2. CASE PostUnanswered(r)
    <2>1. Adopt(r, Untakeable(r)) /\ NextPass(r, verdict[r]) /\ at[r] = "posting" /\ UNCHANGED <<chosen, known>>
      BY <1>2 DEF PostUnanswered
    <2>2. UNCHANGED <<kind, edits, merged>>
      BY <2>1 DEF NextPass
    <2>3. Forgotten' /\ Given(r)'
      BY <2>1, <2>2, AdoptHeeds
    <2>4. QED
      BY <2>1, <2>3, NextPassHeeds
  <1>3. QED
    BY <1>1, <1>2

\* The archive is built, or comes to nothing, with the readings at hand.
LEMMA FetchingHeeds ==
    ASSUME TInv, Heeded, NEW r \in Requests, Fetch(r) \/ FetchUnusable(r) \/ WireFails(r) \/ NeverServed(r) \/ Refused(r)
    PROVE  Forgotten' /\ Heeding(r)'
  <1> USE DEF TInv, TypeOK, DaemonType, ManagerType, RequestType, HistoryType
  <1>1. Forgotten' /\ UNCHANGED <<file, engine, known, chosen>>
    BY DEF Fetch, FetchUnusable, WireFails, NeverServed, Refused, daemonVars, Heeded, Forgotten
  <1>2. CASE Fetch(r)
    <2>1. at[r] = "waiting" /\ at'[r] = "posting" /\ UNCHANGED <<kind, tries, edits>>
      BY <1>2 DEF Fetch
    <2>2. kind[r] = "staged" => merged' = merged
      BY <1>2 DEF Fetch
    <2>3. kind[r] = "engine" => merged'[r] = Merged(edits[r])
      BY <1>2 DEF Fetch
    <2>4. Given(r)'
      BY <1>1, <2>1, <2>2 DEF Heeded, Given
    <2>5. Riding(r)'
      <3>1. SUFFICES ASSUME kind[r] = "engine"
                     PROVE  /\ tries[r] = 1 /\ \A f \in LiveDomain : edits[r][f] = None
                            /\ \A f \in LiveDomain : chosen[f] # None =>
                                  /\ engine[f] = chosen[f]
                                  /\ merged'[r][f] = chosen[f] \/ (merged'[r][f] = None /\ file[f] = chosen[f])
        BY <1>1, <2>1 DEF Riding
      <3>2. /\ tries[r] = 1 /\ \A f \in LiveDomain : edits[r][f] = None
            /\ \A f \in LiveDomain : chosen[f] # None => engine[f] = chosen[f] /\ known[f] \in {None, chosen[f]}
        BY <2>1, <3>1 DEF Heeded, Riding
      <3>3. \A f \in LiveDomain : merged'[r][f] = known[f]
        BY <2>3, <3>1, <3>2 DEF Merged
      <3>4. \A f \in LiveDomain : known[f] = None => engine[f] = file[f]
        BY DEF Heeded, Forgotten
      <3>5. QED
        BY <3>2, <3>3, <3>4
    <2>6. Playing(r)'
      BY <2>1 DEF Playing
    <2>7. QED
      BY <1>1, <2>4, <2>5, <2>6 DEF Heeding
  <1>3. CASE FetchUnusable(r) \/ Refused(r)
    <2>1. at'[r] = "idle" /\ result'[r] # "applied" /\ UNCHANGED <<kind, tries, edits, merged>>
      BY <1>3 DEF FetchUnusable, Refused, Answer
    <2>2. QED
      BY <1>1, <2>1, EndedIsHeeded
  <1>4. CASE WireFails(r) \/ NeverServed(r)
    <2>1. NextPass(r, verdict[r]) /\ at[r] # "idle"
      BY <1>4 DEF WireFails, NeverServed
    <2>2. Given(r)'
      BY <1>1, <2>1 DEF NextPass, Heeded, Given
    <2>3. QED
      BY <1>1, <2>1, <2>2, NextPassHeeds
  <1>5. QED
    BY <1>2, <1>3, <1>4

\* An apply that took has the engine on what was chosen.
LEMMA FinishHeeds ==
    ASSUME Alone, TInv, Heeded, NEW r \in Requests, Finish(r)
    PROVE  Forgotten' /\ Heeding(r)'
  <1> USE DEF TInv, TypeOK, DaemonType, ManagerType, RequestType, HistoryType
  <1>1. at[r] = "settling" /\ at'[r] = "idle" /\ result'[r] = Settled(r) /\ UNCHANGED <<file, engine, kind, edits, merged, spent>>
    BY DEF Finish, Answer, daemonVars
  <1>2. engine = Live(file)
    BY <1>1 DEF Heeded, Playing
  <1>3. Forgotten'
    <2>1. known' \in {known, Resynced}
      BY DEF Finish
    <2>2. QED
      BY <1>1, <1>2, <2>1 DEF Forgotten, Live
  <1>4. Given(r)' /\ Riding(r)'
    BY <1>1 DEF Given, Riding
  <1>5. Settled(r) = "applied" /\ (spent["deaf"] = 0 \/ kind[r] = "staged") => \A f \in LiveDomain : chosen'[f] \in {None, engine[f]}
    <2>1. SUFFICES ASSUME Settled(r) = "applied", spent["deaf"] = 0 \/ kind[r] = "staged", NEW f \in LiveDomain, chosen'[f] # None
                   PROVE  chosen'[f] = engine[f]
      OBVIOUS
    <2>2. verdict[r] = "converged"
      BY <2>1 DEF Settled
    <2>3. chosen'[f] = IF edits[r][f] = None THEN chosen[f] ELSE edits[r][f]
      BY <2>2 DEF Finish
    <2>4. engine[f] = file[f]
      BY <1>2 DEF Live
    <2>5. CASE kind[r] = "staged"
      <3>1. merged[r][f] \in {None, file[f]}
        BY <1>1, <2>2, <2>5 DEF Heeded, Playing, Matches
      <3>2. IF edits[r][f] # None THEN merged[r][f] = edits[r][f]
            ELSE \/ chosen[f] = None
                 \/ merged[r][f] = chosen[f]
                 \/ merged[r][f] = None /\ file[f] = chosen[f]
        BY <1>1, <2>5 DEF Heeded, Given
      <3>3. QED
        BY <2>1, <2>3, <2>4, <3>1, <3>2
    <2>6. CASE kind[r] = "engine"
      BY <1>1, <2>1, <2>3, <2>6 DEF Heeded, Riding, Playing
    <2>7. QED
      BY <2>5, <2>6
  <1>6. Obeyed' => spent["deaf"] = 0 \/ kind[r] = "staged"
    BY <1>1 DEF Obeyed
  <1>7. Playing(r)'
    BY <1>1, <1>5, <1>6 DEF Playing
  <1>8. QED
    BY <1>3, <1>4, <1>7 DEF Heeding

\* A verdict stands on the file the engine runs.
LEMMA JudgingHeeds ==
    ASSUME TInv, Heeded, NEW r \in Requests, Converges(r) \/ Diverges(r)
    PROVE  Forgotten' /\ Heeding(r)'
  <1> USE DEF TInv, TypeOK, DaemonType, ManagerType, RequestType, HistoryType
  <1>1. /\ Forgotten' /\ at[r] = "verifying"
        /\ UNCHANGED <<file, engine, known, chosen, spent, kind, edits, merged>>
    BY DEF Converges, Diverges, NextPass, daemonVars, Heeded, Forgotten
  <1>2. Given(r)'
    BY <1>1 DEF Heeded, Given
  <1>3. CASE Converges(r)
    <2>1. at'[r] = "settling" /\ tries' = tries /\ Matches(file, Asked(r))
      BY <1>3 DEF Converges
    <2>2. kind[r] = "staged" => Matches(file, merged[r])'
      BY <1>1, <2>1 DEF Asked, Matches
    <2>3. Riding(r)'
      BY <1>1, <2>1 DEF Heeded, Riding
    <2>4. Playing(r)'
      BY <1>1, <2>1, <2>2 DEF Heeded, Playing, Live
    <2>5. QED
      BY <1>1, <1>2, <2>3, <2>4 DEF Heeding
  <1>4. CASE Diverges(r)
    <2>1. PICK v \in {"diverged", "gone"} :
             \/ /\ verdict' = [verdict EXCEPT ![r] = v] /\ at' = [at EXCEPT ![r] = "settling"]
                /\ UNCHANGED <<kind, tries, edits, merged, base, carried, result, before>>
             \/ NextPass(r, "diverged")
      BY <1>4 DEF Diverges
    <2>2. CASE NextPass(r, "diverged")
      BY <1>1, <1>2, <2>2, NextPassHeeds DEF Verdicts
    <2>3. CASE ~NextPass(r, "diverged")
      <3>1. at'[r] = "settling" /\ verdict'[r] # "converged" /\ tries' = tries
        BY <2>1, <2>3
      <3>2. Riding(r)'
        BY <1>1, <3>1 DEF Heeded, Riding
      <3>3. Playing(r)'
        BY <1>1, <3>1 DEF Heeded, Playing, Live
      <3>4. QED
        BY <1>1, <1>2, <3>2, <3>3 DEF Heeding
    <2>4. QED
      BY <2>2, <2>3
  <1>5. QED
    BY <1>3, <1>4

\* The user, and the world: a live write is heard and chosen at once.
LEMMA UserHeeds ==
    ASSUME Alone, ~LiveMeanwhile, TInv, Heeded, NEW r \in Requests, User
    PROVE  Forgotten' /\ Heeding(r)'
  <1> USE DEF TInv, TypeOK, DaemonType, ManagerType, RequestType, HistoryType
  <1>1. CASE \E f \in LiveDomain, v \in Values : LiveWrite(f, v)
    <2>1. PICK f \in LiveDomain, v \in Values : LiveWrite(f, v)
      BY <1>1
    <2>2. /\ at[r] = "idle" /\ at' = at /\ result' = result /\ kind' = kind /\ file' = file
          /\ engine' = [engine EXCEPT ![f] = v] /\ known' = engine' /\ chosen' = [chosen EXCEPT ![f] = v]
      BY <2>1 DEF LiveWrite, Quiescent, requestVars
    <2>3. Forgotten'
      BY <2>2 DEF Forgotten
    <2>4. Given(r)' /\ Riding(r)'
      BY <2>2 DEF Given, Riding
    <2>5. spent'["deaf"] = spent["deaf"]
      BY <2>1 DEF LiveWrite, Spend, Bounded
    <2>6. Obeyed' => Obeyed
      BY <2>2, <2>5 DEF Obeyed
    <2>7. Playing(r)'
      <3>1. ASSUME result[r] = "applied", Obeyed, NEW g \in LiveDomain PROVE chosen'[g] \in {None, engine'[g]}
        <4>1. chosen[g] \in {None, engine[g]}
          BY <2>2, <3>1 DEF Heeded, Playing
        <4>2. QED
          BY <2>2, <4>1 DEF Readings
      <3>2. QED
        BY <2>2, <2>6, <3>1 DEF Playing
    <2>8. QED
      BY <2>3, <2>4, <2>7 DEF Heeding
  <1>2. CASE ~\E f \in LiveDomain, v \in Values : LiveWrite(f, v)
    <2>1. StillHeard /\ known' = known
      BY <1>2 DEF User, Stage, Park, Discard, StillHeard, Spend, Bounded, daemonVars, requestVars
    <2>2. QED
      BY <2>1, StillHeeded
  <1>3. QED
    BY <1>1, <1>2

\* Every step keeps what is heard on its way back.
LEMMA HeededStep == ASSUME Alone, ~LiveMeanwhile, TInv, Based, Heeded, [Next]_vars PROVE Heeded'
  <1> USE DEF TInv, TypeOK, DaemonType, ManagerType, RequestType, HistoryType
  <1>1. ASSUME NEW r \in Requests PROVE Forgotten' /\ Heeding(r)'
    <2>1. \A q \in Requests : q = r
      BY DEF Alone
    <2>2. CASE Apply(r)
      <3>1. Begin(r, "staged", staged, Passes) /\ staged \in Edits /\ Passes \in Nat
        BY <2>2 DEF Apply
      <3>2. QED
        BY <3>1, BeginHeeds
    <2>3. CASE \E f \in Fields, v \in Values : ApplyEngine(r, f, v)
      <3>1. PICK f \in Fields, v \in Values : ApplyEngine(r, f, v)
        BY <2>3
      <3>2. Begin(r, "engine", [NoEdits EXCEPT ![f] = v], 1) /\ f \notin LiveDomain
        BY <3>1 DEF ApplyEngine
      <3>3. [NoEdits EXCEPT ![f] = v] \in Edits /\ \A g \in LiveDomain : [NoEdits EXCEPT ![f] = v][g] = None
        BY <3>2 DEF NoEdits, Edits
      <3>4. QED
        BY <3>2, <3>3, BeginHeeds
    <2>4. CASE Fetch(r) \/ FetchUnusable(r) \/ WireFails(r) \/ NeverServed(r) \/ Refused(r)
      BY <2>4, FetchingHeeds
    <2>5. CASE Post(r) \/ PostUnanswered(r)
      BY <2>5, PostHeeds
    <2>6. CASE Converges(r) \/ Diverges(r)
      BY <2>6, JudgingHeeds
    <2>7. CASE Finish(r)
      BY <2>7, FinishHeeds
    <2>8. CASE User
      BY <2>8, UserHeeds
    <2>9. CASE Poll \/ ComesUp \/ EndpointChanges \/ UNCHANGED vars
      <3>1. StillHeard /\ known' \in {known, engine}
        BY <2>9 DEF Poll, ComesUp, EndpointChanges, vars, daemonVars, requestVars, StillHeard, Spend, Bounded
      <3>2. QED
        BY <3>1, StillHeeded
    <2>10. QED
      BY <2>1, <2>2, <2>3, <2>4, <2>5, <2>6, <2>7, <2>8, <2>9 DEF Next, Advance
  <1>2. CASE Requests = {}
    <2>1. Forgotten'
      <3>1. CASE \E f \in LiveDomain, v \in Values : LiveWrite(f, v)
        BY <3>1 DEF LiveWrite, Forgotten
      <3>2. CASE ~\E f \in LiveDomain, v \in Values : LiveWrite(f, v)
        <4>1. UNCHANGED <<file, engine>> /\ known' \in {known, engine}
          BY <1>2, <3>2 DEF Next, User, Stage, Park, Discard, Poll, ComesUp, EndpointChanges, vars, daemonVars
        <4>2. QED
          BY <4>1 DEF Heeded, Forgotten
      <3>3. QED
        BY <3>1, <3>2
    <2>2. QED
      BY <1>2, <2>1 DEF Heeded
  <1>3. QED
    BY <1>1, <1>2 DEF Heeded, Heeding

\* What is heard is on its way back, throughout.
LEMMA HeededSafety == ASSUME Alone, ~LiveMeanwhile PROVE Spec => [](TInv /\ Heeded)
  <1>1. Init => Heeded
    <2> SUFFICES ASSUME Init PROVE Heeded
      OBVIOUS
    <2>1. Forgotten
      BY DEF Init, Forgotten, Live
    <2>2. ASSUME NEW r \in Requests PROVE Given(r) /\ Riding(r) /\ Playing(r)
      BY DEF Init, Given, Riding, Playing
    <2>3. QED
      BY <2>1, <2>2 DEF Heeded
  <1>2. Heeded /\ TInv /\ Based /\ [Next]_vars => Heeded'
    BY HeededStep
  <1>3. QED
    BY <1>1, <1>2, BasedSafety, PTL DEF Spec

\* PlaysAsChosen, for one request at a time with no live write meanwhile, as long as
\* the daemon takes what the hardware card posts, which checks its own attribute alone:
\* after an applied request the engine plays what the user was hearing or asked for.
THEOREM PlaysAlwaysAsChosen == ASSUME Alone, ~LiveMeanwhile PROVE Spec => [](Obeyed => PlaysAsChosen)
  <1>1. Heeded /\ Obeyed => PlaysAsChosen
    BY DEF Heeded, Playing, PlaysAsChosen, Quiescent
  <1>2. QED
    BY HeededSafety, <1>1, PTL
=============================================================================
