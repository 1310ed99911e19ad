---------------------------- MODULE EditorProofs ----------------------------
(* Proofs about the editing page for any presets, any choices and any number of *)
(* calls under way, moves of the user, failures and steps of another page.    *)
EXTENDS Editor, TLAPS

USE PresetsAssumption, ChoicesAssumption, BoundsAssumption

-----------------------------------------------------------------------------
(* Edits and configurations.                                                *)

LEMMA NothingIsAnEdit == Nothing \in Edits /\ DOMAIN Nothing = {}
<1>1. Nothing \in [{} -> Levels] /\ DOMAIN Nothing = {}
  BY DEF Nothing
<1>2. {} \in SUBSET Fields
  OBVIOUS
<1> QED BY <1>1, <1>2 DEF Edits

LEMMA EditIsPartial == \A e \in Edits : DOMAIN e \subseteq Fields /\ \A f \in DOMAIN e : e[f] \in Levels
BY DEF Edits

LEMMA OverEdits ==
    ASSUME NEW a \in Edits, NEW b \in Edits
    PROVE  /\ Over(a, b) \in Edits /\ DOMAIN Over(a, b) = DOMAIN a \cup DOMAIN b
           /\ \A f \in DOMAIN a : Over(a, b)[f] = a[f]
           /\ \A f \in DOMAIN b \ DOMAIN a : Over(a, b)[f] = b[f]
<1> DEFINE S == DOMAIN b \cup DOMAIN a
<1>1. S \in SUBSET Fields
  BY EditIsPartial
<1>2. \A f \in S : Over(a, b)[f] \in Levels
  BY EditIsPartial DEF Over
<1>3. Over(a, b) \in [S -> Levels]
  BY <1>2 DEF Over
<1> QED BY <1>1, <1>3 DEF Edits, Over

LEMMA OverConfig ==
    ASSUME NEW a \in Edits, NEW c \in Config
    PROVE  Over(a, c) \in Config
<1>1. DOMAIN a \subseteq Fields /\ DOMAIN c = Fields
  BY EditIsPartial DEF Config
<1>2. \A f \in Fields : (IF f \in DOMAIN a THEN a[f] ELSE c[f]) \in Levels
  BY EditIsPartial DEF Config
<1>3. DOMAIN c \cup DOMAIN a = Fields
  BY <1>1
<1> QED BY <1>2, <1>3 DEF Over, Config

LEMMA RestrictEdit ==
    ASSUME NEW b \in Edits, NEW S, S \subseteq DOMAIN b
    PROVE  /\ Restrict(b, S) \in Edits /\ DOMAIN Restrict(b, S) = S
           /\ \A f \in S : Restrict(b, S)[f] = b[f]
<1>1. S \in SUBSET Fields /\ \A f \in S : b[f] \in Levels
  BY EditIsPartial
<1>2. Restrict(b, S) \in [S -> Levels]
  BY <1>1 DEF Restrict
<1> QED BY <1>1, <1>2 DEF Restrict, Edits

LEMMA CoupledEdit == \A f \in Fields, v \in Levels : Coupled(f, v) \in Edits
<1> SUFFICES ASSUME NEW f \in Fields, NEW v \in Levels PROVE Coupled(f, v) \in Edits
  OBVIOUS
<1> DEFINE T == {"fixed_volume", "volume_fixed"}
<1>1. T \in SUBSET Fields /\ {f} \in SUBSET Fields
  BY DEF Fields
<1>2. [g \in T |-> IF g = f THEN 1 ELSE 0] \in [T -> Levels] /\ [g \in {f} |-> v] \in [{f} -> Levels]
  BY DEF Levels
<1>3. [g \in T |-> IF g = f THEN 1 ELSE 0] \in Edits /\ [g \in {f} |-> v] \in Edits
  BY <1>1, <1>2 DEF Edits
<1> QED BY <1>3 DEF Coupled

LEMMA BaselineConfig == \A p \in Page : Baseline(p) \in Config
BY DEF Page, Baseline

LEMMA EffectiveConfig == \A p \in Page : Effective(p) \in Config
BY BaselineConfig, OverConfig DEF Effective, Page

LEMMA CleanFields == \A p \in Page : Clean(p) \in SUBSET Fields
BY EditIsPartial DEF Clean, Page

LEMMA PrunedPage ==
    ASSUME NEW p \in Page
    PROVE  /\ Pruned(p) \in Page /\ Pruned(p).staged = p.staged /\ Pruned(p).config = p.config
           /\ Pruned(p).acknowledged => p.acknowledged
           /\ Effective(Pruned(p)) = Effective(p) /\ Baseline(Pruned(p)) = Baseline(p)
<1> DEFINE b == p.acknowledged /\ Pins(Effective(p))
<1>1. b \in BOOLEAN /\ (b => p.acknowledged)
  BY DEF Page, Pins
<1> HIDE DEF b
<1>2. [p EXCEPT !.acknowledged = b] \in Page
  BY <1>1 DEF Page
<1>3. Pruned(p) = [p EXCEPT !.acknowledged = b]
  BY DEF Pruned, b
<1>4. /\ Pruned(p).staged = p.staged /\ Pruned(p).config = p.config /\ Pruned(p).preview = p.preview
      /\ Pruned(p).acknowledged = b
  BY <1>3 DEF Page
<1> QED BY <1>1, <1>2, <1>3, <1>4 DEF Effective, Baseline

-----------------------------------------------------------------------------
(* Calls.                                                                   *)

Slot == Call \cup {Idle}

LEMMA SlotKinds ==
    ASSUME NEW c \in Slot
    PROVE  /\ c.kind = "idle" <=> c = Idle
           /\ c.kind = "stage" => c \in [kind : {"stage"}, at : {"sent", "merged", "failed"}, body : Edits, drop : SUBSET Fields, on : Config]
           /\ c.kind = "discard" => c \in [kind : {"discard"}, at : Served]
           /\ c.kind = "preset" => c \in [kind : {"preset"}, at : Served, name : Names]
           /\ c.kind = "config" => c \in [kind : {"config"}, at : Served, running : Config, active : Names, after : Occasions]
           /\ c.kind = "pending" => c \in [kind : {"pending"}, at : Served, echo : Edits, after : Occasions]
           /\ c.kind = "snapshot" => c \in [kind : {"snapshot"}, at : Served, echo : Edits]
           /\ c.kind = "apply" => c \in [kind : {"apply"}, at : {"sent", "begun", "failed"}, to : Names \cup {None}, fields : Edits,
                                         on : Config, target : Config]
           /\ c.kind = "verdict" => c \in [kind : {"verdict"}, at : Served, after : Occasions]
           /\ c.kind \in {"idle", "stage", "discard", "preset", "config", "pending", "snapshot", "apply", "verdict"}
<1>1. CASE c = Idle
  BY <1>1 DEF Idle
<1>2. CASE c \in Call
  BY <1>2 DEF Call, Idle
<1> QED BY <1>1, <1>2 DEF Slot

LEMMA NothingIsAnAnswer ==
    /\ Idle \in Slot /\ Idle.kind = "idle"
    /\ Snapshot \in Slot /\ Snapshot.kind = "snapshot"
    /\ \A a \in Occasions : /\ Verdict(a) \in Slot /\ Verdict(a).kind = "verdict"
                            /\ Refresh(a) \in Slot /\ Refresh(a).kind = "config"
                            /\ Reread(a) \in Slot /\ Reread(a).kind = "pending"
<1>1. Nothing \in Edits /\ First \in Names /\ Presets[First] \in Config
  BY NothingIsAnEdit
<1>2. Idle \in Slot /\ Idle.kind = "idle"
  BY DEF Slot, Idle
<1>3. Snapshot \in Slot /\ Snapshot.kind = "snapshot"
  BY <1>1 DEF Snapshot, Slot, Call, Served
<1>4. ASSUME NEW a \in Occasions PROVE Verdict(a) \in Slot /\ Verdict(a).kind = "verdict"
  BY DEF Verdict, Slot, Call, Served
<1>5. ASSUME NEW a \in Occasions PROVE Refresh(a) \in Slot /\ Refresh(a).kind = "config"
  BY <1>1 DEF Refresh, Slot, Call, Served
<1>6. ASSUME NEW a \in Occasions PROVE Reread(a) \in Slot /\ Reread(a).kind = "pending"
  BY <1>1 DEF Reread, Slot, Call, Served
<1> QED BY <1>2, <1>3, <1>4, <1>5, <1>6

LEMMA CallsAre == TypeOK => \A l \in Lines : calls[l] \in Slot
BY DEF TypeOK, Slot

\* One line moves.
Put(l, c) == calls' = [calls EXCEPT ![l] = c]

LEMMA Lined ==
    ASSUME TypeOK, NEW l \in Lines, NEW c \in Slot, Put(l, c)
    PROVE  /\ calls' \in [Lines -> Call \cup {Idle}]
           /\ \A m \in Lines : calls'[m] = IF m = l THEN c ELSE calls[m]
BY DEF TypeOK, Put, Slot

LEMMA SendDoes ==
    ASSUME Room, NEW c, Send(c)
    PROVE  \E l \in Lines : calls[l] = Idle /\ Put(l, c)
<1> DEFINE l == CHOOSE m \in Lines : calls[m] = Idle
<1>1. l \in Lines /\ calls[l] = Idle
  BY DEF Room
<1>2. Put(l, c)
  BY DEF Send, Put
<1> QED BY <1>1, <1>2

LEMMA SpendType ==
    ASSUME TypeOK, NEW k \in Bounded, Spend(k)
    PROVE  spent' \in [Bounded -> Nat] /\ \A j \in Bounded : spent'[j] <= Budget[j]
<1>1. Budget[k] \in Nat /\ spent[k] \in Nat /\ spent[k] < Budget[k]
  BY DEF Budget, Bounded, TypeOK, Spend
<1>2. spent \in [Bounded -> Nat] /\ spent' = [spent EXCEPT ![k] = spent[k] + 1]
  BY DEF TypeOK, Spend
<1>3. spent' \in [Bounded -> Nat] /\ spent'[k] = spent[k] + 1 /\ \A j \in Bounded \ {k} : spent'[j] = spent[j]
  BY <1>1, <1>2
<1>4. \A j \in Bounded : spent[j] <= Budget[j]
  BY DEF TypeOK
<1> QED BY <1>1, <1>3, <1>4

-----------------------------------------------------------------------------
(* What the page's steps do.                                                *)

Within == spent' \in [Bounded -> Nat] /\ \A j \in Bounded : spent'[j] <= Budget[j]

\* A call that may yet put an edit into the buffer or take an entry out.
Stages(c) == c.kind = "stage" /\ c.at \in {"sent", "merged"}
Clears(c) == c.kind = "discard" /\ c.at = "sent"
Confirmed(c) == c.kind = "apply" /\ Pins(c.target) /\ ~Pins(c.on) => said'

\* A step of the user, or of the poll's timer, asks or changes what is on the page, sends a
\* call that stages nothing, or stages an edit.
Same == owed' = owed /\ raced' = raced
Quiet == calls' = calls /\ Same
Calling ==
    \E l \in Lines, c \in Slot :
        /\ calls[l] = Idle /\ Put(l, c) /\ ~Stages(c)
        /\ c.kind = "apply" /\ Pins(c.target) /\ ~Pins(c.on) => page.acknowledged \/ said'
        /\ (Same /\ ~Clears(c)) \/ (owed' = Nothing /\ raced' = {})

Staging ==
    \E l \in Lines, body \in Edits, drop \in SUBSET Fields, on \in Config :
        /\ calls[l] = Idle /\ Put(l, StageCall(body, drop, on)) /\ StageCall(body, drop, on) \in Slot
        /\ \A g \in DOMAIN body : g \in drop <=> body[g] = on[g]
        /\ owed' \in Edits
        /\ \A f \in DOMAIN owed' :
              /\ f \notin drop
              /\ f \in DOMAIN body => owed'[f] = body[f]
              /\ f \notin DOMAIN body => f \in DOMAIN owed /\ owed'[f] = owed[f]
        /\ raced' = (raced \ DOMAIN body) \cup (DOMAIN body \cap Touched)

UserStep ==
    /\ page' \in Page /\ (page'.acknowledged => page.acknowledged \/ said')
    /\ said' \in BOOLEAN /\ (said => said') /\ Within
    /\ UNCHANGED <<server, stale>>
    /\ Quiet \/ Calling \/ Staging

\* An edit, once it is staged.
LEMMA StageDoes ==
    ASSUME TypeOK, Room, NEW p \in Page, NEW f \in Fields, NEW v \in Levels, Stage(p, f, v)
    PROVE  page' \in Page /\ page'.acknowledged = p.acknowledged /\ Staging
<1> DEFINE body == Coupled(f, v)
           over == Over(body, p.staged)
           next == [p EXCEPT !.staged = over]
           drop == Clean(next)
           on == Baseline(p)
           o == Over(body, owed)
<1>1. body \in Edits /\ p.staged \in Edits /\ owed \in Edits
  BY CoupledEdit DEF Page, TypeOK
<1>4. /\ page' = next /\ Send(StageCall(body, drop, on))
      /\ owed' = Restrict(o, DOMAIN o \ drop)
      /\ raced' = (raced \ DOMAIN body) \cup (DOMAIN body \cap Touched)
  BY DEF Stage, Owing
<1> HIDE DEF body
<1>0. \A b \in Edits : Over(body, b) \in Edits /\ (\A g \in DOMAIN body : g \in DOMAIN Over(body, b) /\ Over(body, b)[g] = body[g])
  BY <1>1, OverEdits
<1>2. over \in Edits /\ (\A g \in DOMAIN body : g \in DOMAIN over /\ over[g] = body[g])
  BY <1>0, <1>1
<1>3. /\ o \in Edits /\ DOMAIN o = DOMAIN body \cup DOMAIN owed
      /\ \A g \in DOMAIN body : o[g] = body[g]
      /\ \A g \in DOMAIN owed \ DOMAIN body : o[g] = owed[g]
  BY <1>1, OverEdits
<1> HIDE DEF over, o
<1>5. next \in Page /\ next.staged = over /\ next.acknowledged = p.acknowledged /\ Baseline(next) = on
  BY <1>2 DEF Page, Baseline
<1>6. drop = {g \in DOMAIN over : over[g] = on[g]} /\ drop \in SUBSET Fields /\ on \in Config
  BY <1>5, CleanFields, BaselineConfig DEF Clean
<1> HIDE DEF next, drop, on
<1>7. \A g \in DOMAIN body : g \in drop <=> body[g] = on[g]
  BY <1>2, <1>6
<1>8. StageCall(body, drop, on) \in Slot
  BY <1>1, <1>6 DEF StageCall, Slot, Call
<1>9. /\ owed' \in Edits /\ DOMAIN owed' = DOMAIN o \ drop
      /\ \A g \in DOMAIN o \ drop : owed'[g] = o[g]
  BY <1>3, <1>4, RestrictEdit
<1>10. \A g \in DOMAIN owed' :
          /\ g \notin drop
          /\ g \in DOMAIN body => owed'[g] = body[g]
          /\ g \notin DOMAIN body => g \in DOMAIN owed /\ owed'[g] = owed[g]
  BY <1>3, <1>9
<1>11. PICK l \in Lines : calls[l] = Idle /\ Put(l, StageCall(body, drop, on))
  BY <1>4, SendDoes
<1>12. Staging
  <2> USE <1>1, <1>6, <1>11 DEF Staging
  <2> WITNESS l \in Lines, body \in Edits, drop \in SUBSET Fields, on \in Config
  <2> QED BY <1>4, <1>7, <1>8, <1>9, <1>10, <1>11
<1> QED BY <1>4, <1>5, <1>12

\* An apply, once it is sent.
LEMMA CommitDoes ==
    ASSUME TypeOK, Room, NEW p \in Page, Commit(p)
    PROVE  /\ page' \in Page /\ page'.acknowledged = p.acknowledged
           /\ \E l \in Lines, c \in Slot : /\ calls[l] = Idle /\ Put(l, c) /\ c.kind = "apply"
                                          /\ c.on = p.config /\ c.target = Effective(p)
<1> DEFINE to == IF p.preview = p.active THEN None ELSE p.preview
           c == [kind |-> "apply", at |-> "sent", to |-> to, fields |-> Nothing, on |-> p.config, target |-> Effective(p)]
<1>1. to \in Names \cup {None} /\ p.config \in Config /\ Effective(p) \in Config /\ Nothing \in Edits
  BY EffectiveConfig, NothingIsAnEdit DEF Page
<1>2. c \in Slot
  BY <1>1 DEF Slot, Call
<1>3. Send(c) /\ page' = [p EXCEPT !.applying = TRUE]
  BY DEF Commit
<1>4. c.kind = "apply" /\ c.on = p.config /\ c.target = Effective(p)
  OBVIOUS
<1> HIDE DEF c
<1>5. PICK l \in Lines : calls[l] = Idle /\ Put(l, c)
  BY <1>3, SendDoes
<1>6. page' \in Page /\ page'.acknowledged = p.acknowledged
  BY <1>3 DEF Page
<1> QED BY <1>2, <1>4, <1>5, <1>6

LEMMA EditDoes ==
    ASSUME TypeOK, NEW f \in Fields, NEW v \in Levels, Edit(f, v)
    PROVE  UserStep
<1>1. Within
  BY SpendType DEF Edit, Bounded, Within
<1>2. UNCHANGED <<server, stale, said>> /\ Room
  BY DEF Edit
<1>3. page \in Page /\ said \in BOOLEAN
  BY DEF TypeOK
<1>4. CASE page' = Open(page, [owner |-> "edit", field |-> f, value |-> v]) /\ UNCHANGED <<calls, owed, raced>>
  <2> DEFINE q == [owner |-> "edit", field |-> f, value |-> v]
  <2>1. q \in Question
    BY DEF Question
  <2>2. page' = [page EXCEPT !.question = q]
    BY <1>4 DEF Open
  <2> HIDE DEF q
  <2>3. page' \in Page /\ page'.acknowledged = page.acknowledged
    BY <1>3, <2>1, <2>2 DEF Page
  <2>4. Quiet
    BY <1>4 DEF Quiet, Same
  <2> QED BY <1>1, <1>2, <1>3, <2>3, <2>4 DEF UserStep
<1>5. CASE Stage(page, f, v)
  <2>1. page' \in Page /\ page'.acknowledged = page.acknowledged /\ Staging
    BY <1>2, <1>3, <1>5, StageDoes
  <2> QED BY <1>1, <1>2, <1>3, <2>1 DEF UserStep
<1> QED BY <1>4, <1>5 DEF Edit

LEMMA ApplyAllDoes == ASSUME TypeOK, ApplyAll PROVE UserStep
<1> DEFINE p == Pruned(page)
<1>1. Within
  BY SpendType DEF ApplyAll, Bounded, Within
<1>2. UNCHANGED <<server, stale, said>> /\ Same /\ Room
  BY DEF ApplyAll, history, Same
<1>3. page \in Page /\ said \in BOOLEAN
  BY DEF TypeOK
<1>4. p \in Page /\ (p.acknowledged => page.acknowledged)
  BY <1>3, PrunedPage
<1>5. \/ page' = Open(p, [owner |-> "apply"]) /\ calls' = calls
      \/ /\ ~(Pins(Effective(p)) /\ ~Pins(p.config) /\ ~p.acknowledged)
         /\ Commit(p)
  BY DEF ApplyAll
<1> HIDE DEF p
<1>6. CASE page' = Open(p, [owner |-> "apply"]) /\ calls' = calls
  <2> DEFINE q == [owner |-> "apply"]
  <2>1. q \in Question
    BY DEF Question
  <2>2. page' = [p EXCEPT !.question = q]
    BY <1>6 DEF Open
  <2> HIDE DEF q
  <2>3. page' \in Page /\ page'.acknowledged = p.acknowledged
    BY <1>4, <2>1, <2>2 DEF Page
  <2>4. Quiet
    BY <1>2, <1>6 DEF Quiet
  <2> QED BY <1>1, <1>2, <1>3, <1>4, <2>3, <2>4 DEF UserStep
<1>7. CASE ~(Pins(Effective(p)) /\ ~Pins(p.config) /\ ~p.acknowledged) /\ Commit(p)
  <2>1. PICK l \in Lines, c \in Slot : /\ calls[l] = Idle /\ Put(l, c) /\ c.kind = "apply"
                                      /\ c.on = p.config /\ c.target = Effective(p)
    BY <1>2, <1>4, <1>7, CommitDoes
  <2>2. page' \in Page /\ page'.acknowledged = p.acknowledged
    BY <1>2, <1>4, <1>7, CommitDoes
  <2>3. ~Stages(c) /\ ~Clears(c) /\ (Pins(c.target) /\ ~Pins(c.on) => page.acknowledged)
    BY <1>4, <1>7, <2>1 DEF Stages, Clears
  <2>4. Calling
    BY <1>2, <2>1, <2>3 DEF Calling
  <2> QED BY <1>1, <1>2, <1>3, <1>4, <2>2, <2>4 DEF UserStep
<1> QED BY <1>5, <1>6, <1>7

LEMMA AnswerDoes ==
    ASSUME TypeOK, NEW yes \in BOOLEAN, Answer(yes)
    PROVE  UserStep
<1> DEFINE q == page.question
           a == page.acknowledged \/ yes
           p == [page EXCEPT !.question = None, !.acknowledged = a]
<1>1. Within
  BY DEF Answer, Within, TypeOK
<1>2. UNCHANGED <<server, stale>> /\ said' = (said \/ yes)
  BY DEF Answer
<1>3. page \in Page /\ said \in BOOLEAN /\ q \in Question
  BY DEF TypeOK, Page, Answer
<1>4. a \in BOOLEAN /\ (yes => a)
  BY <1>3 DEF Page
<1>5. \/ page' = p /\ UNCHANGED <<calls, owed, raced>>
      \/ yes /\ Room /\ q.owner = "edit" /\ Stage(p, q.field, q.value)
      \/ yes /\ Room /\ q.owner # "edit" /\ Commit(p) /\ UNCHANGED <<owed, raced>>
  BY DEF Answer
<1>6. p \in Page /\ p.acknowledged = a
  <2> HIDE DEF a
  <2> QED BY <1>3, <1>4 DEF Page
<1>7. said' \in BOOLEAN /\ (said => said') /\ (yes => said') /\ (a => page.acknowledged \/ said')
  BY <1>2, <1>3
<1> HIDE DEF p, a
<1>8. CASE page' = p /\ UNCHANGED <<calls, owed, raced>>
  <2>1. Quiet
    BY <1>8 DEF Quiet, Same
  <2> QED BY <1>1, <1>2, <1>6, <1>7, <1>8, <2>1 DEF UserStep
<1>9. CASE yes /\ Room /\ q.owner = "edit" /\ Stage(p, q.field, q.value)
  <2>1. q.field \in Fields /\ q.value \in Levels
    BY <1>3, <1>9 DEF Question
  <2>2. page' \in Page /\ page'.acknowledged = p.acknowledged /\ Staging
    BY <1>6, <1>9, <2>1, StageDoes
  <2> QED BY <1>1, <1>2, <1>6, <1>7, <2>2 DEF UserStep
<1>10. CASE yes /\ Room /\ q.owner # "edit" /\ Commit(p) /\ UNCHANGED <<owed, raced>>
  <2>1. PICK l \in Lines, c \in Slot : calls[l] = Idle /\ Put(l, c) /\ c.kind = "apply"
    BY <1>6, <1>10, CommitDoes
  <2>2. page' \in Page /\ page'.acknowledged = p.acknowledged
    BY <1>6, <1>10, CommitDoes
  <2>3. ~Stages(c) /\ ~Clears(c) /\ Same
    BY <1>10, <2>1 DEF Stages, Clears, Same
  <2>4. Calling
    BY <1>7, <1>10, <2>1, <2>3 DEF Calling
  <2> QED BY <1>1, <1>2, <1>6, <1>7, <2>2, <2>4 DEF UserStep
<1> QED BY <1>5, <1>8, <1>9, <1>10

\* A call that stages nothing and is no apply.
LEMMA CallingDoes ==
    ASSUME Room, NEW c \in Slot, Send(c), c.kind \notin {"stage", "apply"},
           (Same /\ c.kind # "discard") \/ (owed' = Nothing /\ raced' = {})
    PROVE  Calling
<1>1. PICK l \in Lines : calls[l] = Idle /\ Put(l, c)
  BY SendDoes
<1>2. ~Stages(c) /\ (c.kind # "discard" => ~Clears(c)) /\ c.kind # "apply"
  BY DEF Stages, Clears
<1> QED BY <1>1, <1>2 DEF Calling

LEMMA PickDoes ==
    ASSUME TypeOK, NEW n \in Names, Pick(n)
    PROVE  UserStep
<1>1. Within
  BY SpendType DEF Pick, Bounded, Within
<1>2. UNCHANGED <<server, stale, said>> /\ Same /\ Room
  BY DEF Pick, history, Same
<1>3. page \in Page /\ said \in BOOLEAN
  BY DEF TypeOK
<1>4. CASE page' = [page EXCEPT !.preview = None] /\ UNCHANGED calls
  <2>1. page' \in Page /\ page'.acknowledged = page.acknowledged
    BY <1>3, <1>4 DEF Page
  <2> QED BY <1>1, <1>2, <1>3, <1>4, <2>1 DEF UserStep, Quiet
<1>5. CASE Send([kind |-> "preset", at |-> "sent", name |-> n]) /\ UNCHANGED page
  <2> DEFINE c == [kind |-> "preset", at |-> "sent", name |-> n]
  <2>1. c \in Slot /\ c.kind = "preset" /\ Send(c)
    BY <1>5 DEF Slot, Call, Served
  <2> HIDE DEF c
  <2>2. Calling
    BY <1>2, <2>1, CallingDoes
  <2> QED BY <1>1, <1>2, <1>3, <1>5, <2>2 DEF UserStep
<1> QED BY <1>4, <1>5 DEF Pick

LEMMA DiscardAllDoes == ASSUME TypeOK, DiscardAll PROVE UserStep
<1> DEFINE c == [kind |-> "discard", at |-> "sent"]
<1>1. UNCHANGED <<server, stale, said>> /\ Room /\ owed' = Nothing /\ raced' = {} /\ Send(c)
  BY DEF DiscardAll
<1>2. Within
  BY SpendType DEF DiscardAll, Bounded, Within
<1>3. page \in Page /\ said \in BOOLEAN /\ page' = [page EXCEPT !.preview = None]
  BY DEF TypeOK, DiscardAll
<1>4. c \in Slot /\ c.kind = "discard"
  BY DEF Slot, Call, Served
<1> HIDE DEF c
<1>5. Calling
  BY <1>1, <1>4, CallingDoes
<1>6. page' \in Page /\ page'.acknowledged = page.acknowledged
  BY <1>3 DEF Page
<1> QED BY <1>1, <1>2, <1>3, <1>5, <1>6 DEF UserStep

LEMMA PollDoes == ASSUME TypeOK, Poll PROVE UserStep
<1> DEFINE c == Refresh("poll")
<1>1. UNCHANGED <<page, server, stale, said, spent>> /\ Same /\ Room /\ Send(c)
  BY DEF Poll, history, Same
<1>2. c \in Slot /\ c.kind = "config"
  BY NothingIsAnAnswer DEF Occasions
<1>3. page \in Page /\ said \in BOOLEAN /\ Within
  BY <1>1 DEF TypeOK, Within
<1> HIDE DEF c
<1>4. Calling
  BY <1>1, <1>2, CallingDoes
<1> QED BY <1>1, <1>3, <1>4 DEF UserStep

-----------------------------------------------------------------------------
(* What the other steps do.                                                 *)

Server == [buffer : Edits, running : Config, active : Names]
Background ==
    /\ page' \in Page /\ (page'.acknowledged => page.acknowledged)
    /\ said' = said /\ Within /\ server' \in Server

\* A line moves that neither was about to stage nor is: an answer is made or received, a
\* call fails, an apply begins or comes to nothing.
Passive ==
    /\ Background /\ Same /\ server'.buffer = server.buffer
    /\ (server' = server /\ stale' = stale) \/ stale' = TRUE
    /\ \E l \in Lines, c \in Slot :
          /\ Put(l, c) /\ ~Stages(calls[l]) /\ ~Stages(c) /\ ~Clears(c)
          /\ c.kind = "apply" => calls[l].kind = "apply" /\ c.on = calls[l].on /\ c.target = calls[l].target

Merging ==
    /\ Background /\ Same /\ server'.running = server.running
    /\ \E l \in Lines, c \in Slot :
          /\ Put(l, c) /\ At(l, "stage", "sent") /\ c.kind = "stage" /\ c.at = "merged"
          /\ c.body = calls[l].body /\ c.drop = calls[l].drop /\ c.on = calls[l].on
          /\ server'.buffer = Over(c.body, server.buffer)
          /\ stale' = (stale \/ c.on # server.running)

Dropping ==
    /\ Background /\ Same /\ stale' = stale /\ server'.running = server.running
    /\ \E l \in Lines : /\ Put(l, Snapshot) /\ At(l, "stage", "merged")
                        /\ server'.buffer = Restrict(server.buffer, DOMAIN server.buffer \ calls[l].drop)

Discarding ==
    /\ Background /\ Same /\ stale' = FALSE /\ server'.buffer = Nothing
    /\ \E l \in Lines : Put(l, Snapshot) /\ At(l, "discard", "sent")

Failing ==
    /\ Background /\ server' = server /\ stale' = stale /\ raced' = raced
    /\ \E l \in Lines, c \in Slot :
          /\ Put(l, c) /\ At(l, "stage", "sent") /\ c.kind = "stage" /\ c.at = "failed"
          /\ owed' = Restrict(owed, DOMAIN owed \ DOMAIN calls[l].body)

\* The buffer goes, and with it all that no call still carries.
Taking ==
    /\ Background /\ Taken /\ server'.buffer = Nothing
    /\ \/ calls' = calls
       \/ \E l \in Lines, c \in Slot : Put(l, c) /\ ~Stages(calls[l]) /\ ~Stages(c) /\ ~Clears(c) /\ c.kind # "apply"

\* The other page stages an edit, and drops what is clean.
Intruding ==
    /\ Background /\ calls' = calls /\ raced' = raced /\ stale' = stale /\ server'.running = server.running
    /\ \E body \in Edits :
          LET b == Over(body, server.buffer) IN
          /\ server'.buffer = Restrict(b, {g \in DOMAIN b : b[g] # server.running[g]})
          /\ owed' = Restrict(owed, {g \in DOMAIN owed \ DOMAIN body : g \in Carried \/ owed[g] # server.running[g]})

LEMMA Steady ==
    ASSUME TypeOK, UNCHANGED <<page, said, spent>>, server' \in Server
    PROVE  Background
BY DEF TypeOK, Background, Within, Server

LEMMA ServerTypes ==
    ASSUME TypeOK
    PROVE  /\ server \in Server
           /\ \A b \in Edits : /\ [server EXCEPT !.buffer = b] \in Server /\ [server EXCEPT !.buffer = b].buffer = b
                               /\ [server EXCEPT !.buffer = b].running = server.running
           /\ \A c \in Config : /\ [server EXCEPT !.running = c] \in Server
                                /\ [server EXCEPT !.running = c].buffer = server.buffer
BY DEF TypeOK, Server

\* A call that waits for its thread, by what it is.
LEMMA AtAre ==
    ASSUME TypeOK, NEW l \in Lines
    PROVE  /\ \A at : At(l, "stage", at) => calls[l] \in [kind : {"stage"}, at : {"sent", "merged", "failed"}, body : Edits,
                                                         drop : SUBSET Fields, on : Config]
           /\ \A at : At(l, "apply", at) => calls[l] \in [kind : {"apply"}, at : {"sent", "begun", "failed"}, to : Names \cup {None},
                                                         fields : Edits, on : Config, target : Config]
           /\ Stages(calls[l]) <=> At(l, "stage", "sent") \/ At(l, "stage", "merged")
           /\ Clears(calls[l]) <=> At(l, "discard", "sent")
BY CallsAre, SlotKinds DEF At, Stages, Clears

LEMMA MergeDoes == ASSUME TypeOK, NEW l \in Lines, Merge(l) PROVE Merging
<1> DEFINE d == calls[l]
           c == [d EXCEPT !.at = "merged"]
           b == Over(d.body, server.buffer)
<1>1. At(l, "stage", "sent") /\ d \in [kind : {"stage"}, at : {"sent", "merged", "failed"}, body : Edits, drop : SUBSET Fields, on : Config]
  BY AtAre DEF Merge
<1>2. c \in Slot /\ c.kind = "stage" /\ c.at = "merged" /\ c.body = d.body /\ c.drop = d.drop /\ c.on = d.on
  BY <1>1 DEF Slot, Call
<1>3. server.buffer \in Edits /\ d.body \in Edits
  BY <1>1 DEF TypeOK
<1>4. /\ server' = [server EXCEPT !.buffer = b] /\ Put(l, c)
      /\ stale' = (stale \/ d.on # server.running) /\ UNCHANGED <<page, said, spent>> /\ Same
  BY DEF Merge, Moves, Put, Same
<1> HIDE DEF c, d
<1>5. b \in Edits
  BY <1>3, OverEdits
<1>6. server' \in Server /\ server'.buffer = b /\ server'.running = server.running
  <2> HIDE DEF b
  <2> QED BY <1>4, <1>5, ServerTypes
<1>7. Background
  BY <1>4, <1>6, Steady
<1> QED BY <1>1, <1>2, <1>4, <1>6, <1>7 DEF Merging, d

LEMMA DropDoes == ASSUME TypeOK, NEW l \in Lines, Drop(l) PROVE Dropping
<1> DEFINE S == DOMAIN server.buffer \ calls[l].drop
           b == Restrict(server.buffer, S)
<1>1. At(l, "stage", "merged") /\ server' = [server EXCEPT !.buffer = b] /\ Put(l, Snapshot)
  BY DEF Drop, Moves, Put
<1>2. UNCHANGED <<page, stale, said, spent>> /\ Same
  BY DEF Drop, history, Same
<1>3. server.buffer \in Edits
  BY DEF TypeOK
<1>4. b \in Edits
  BY <1>3, RestrictEdit
<1>5. server' \in Server /\ server'.buffer = b /\ server'.running = server.running
  <2> HIDE DEF b
  <2> QED BY <1>1, <1>4, ServerTypes
<1>6. Background
  BY <1>2, <1>5, Steady
<1> QED BY <1>1, <1>2, <1>5, <1>6 DEF Dropping

LEMMA DiscardDoes == ASSUME TypeOK, NEW l \in Lines, Discard(l) PROVE Discarding
<1>1. At(l, "discard", "sent") /\ server' = [server EXCEPT !.buffer = Nothing] /\ Put(l, Snapshot) /\ stale' = FALSE
  BY DEF Discard, Moves, Put
<1>2. UNCHANGED <<page, said, spent>> /\ Same
  BY DEF Discard, Same
<1>3. server' \in Server /\ server'.buffer = Nothing
  BY <1>1, NothingIsAnEdit, ServerTypes
<1>4. Background
  BY <1>2, <1>3, Steady
<1> QED BY <1>1, <1>2, <1>3, <1>4 DEF Discarding

\* A move of a line that has nothing left to stage, with the rest as it was.
LEMMA Idly ==
    ASSUME TypeOK, NEW l \in Lines, NEW c \in Slot, Put(l, c), c.kind \notin {"stage", "discard", "apply"},
           ~Stages(calls[l]), Background, Same, UNCHANGED <<server, stale>>
    PROVE  Passive
<1>1. ~Stages(c) /\ ~Clears(c)
  BY DEF Stages, Clears
<1> QED BY <1>1 DEF Passive

LEMMA ReadDoes == ASSUME TypeOK, NEW l \in Lines, Read(l) PROVE Passive
<1> DEFINE d == calls[l]
           e == [d EXCEPT !.at = "answered", !.echo = server.buffer]
           r == [d EXCEPT !.at = "answered", !.running = server.running, !.active = server.active]
           n == [d EXCEPT !.at = "answered"]
<1>1. server \in Server /\ server.buffer \in Edits /\ server.running \in Config /\ server.active \in Names
  BY DEF TypeOK, Server
<1>2. UNCHANGED <<page, server, stale, said, spent>> /\ Same
  BY DEF Read, history, Same
<1>3. Background
  BY <1>1, <1>2, Steady
<1>4. \/ d.kind \in {"snapshot", "pending"} /\ Put(l, e)
      \/ d.kind = "config" /\ Put(l, r)
      \/ d.kind = "preset" /\ Put(l, n)
  BY DEF Read, Moves, Put
<1>5. d \in Slot /\ (d.kind # "stage" => ~Stages(d))
  BY CallsAre DEF Stages
<1>6. CASE d.kind = "snapshot" /\ Put(l, e)
  <2>1. d \in [kind : {"snapshot"}, at : Served, echo : Edits]
    BY <1>5, <1>6, SlotKinds
  <2>2. e \in Slot /\ e.kind = "snapshot"
    BY <1>1, <2>1 DEF Slot, Call, Served
  <2> HIDE DEF e
  <2> QED BY <1>2, <1>3, <1>5, <1>6, <2>2, Idly
<1>7. CASE d.kind = "pending" /\ Put(l, e)
  <2>1. d \in [kind : {"pending"}, at : Served, echo : Edits, after : Occasions]
    BY <1>5, <1>7, SlotKinds
  <2>2. e \in Slot /\ e.kind = "pending"
    BY <1>1, <2>1 DEF Slot, Call, Served
  <2> HIDE DEF e
  <2> QED BY <1>2, <1>3, <1>5, <1>7, <2>2, Idly
<1>8. CASE d.kind = "config" /\ Put(l, r)
  <2>1. d \in [kind : {"config"}, at : Served, running : Config, active : Names, after : Occasions]
    BY <1>5, <1>8, SlotKinds
  <2>2. r \in Slot /\ r.kind = "config"
    BY <1>1, <2>1 DEF Slot, Call, Served
  <2> HIDE DEF r
  <2> QED BY <1>2, <1>3, <1>5, <1>8, <2>2, Idly
<1>9. CASE d.kind = "preset" /\ Put(l, n)
  <2>1. d \in [kind : {"preset"}, at : Served, name : Names]
    BY <1>5, <1>9, SlotKinds
  <2>2. n \in Slot /\ n.kind = "preset"
    BY <2>1 DEF Slot, Call, Served
  <2> HIDE DEF n
  <2> QED BY <1>2, <1>3, <1>5, <1>9, <2>2, Idly
<1> QED BY <1>4, <1>6, <1>7, <1>8, <1>9

LEMMA ApplyBeginsDoes == ASSUME TypeOK, NEW l \in Lines, ApplyBegins(l) PROVE Passive
<1> DEFINE d == calls[l]
           c == [d EXCEPT !.at = "begun", !.fields = server.buffer]
<1>1. server \in Server /\ server.buffer \in Edits
  BY DEF TypeOK, Server
<1>2. UNCHANGED <<page, server, stale, said, spent>> /\ Same
  BY DEF ApplyBegins, history, Same
<1>3. Background
  BY <1>1, <1>2, Steady
<1>4. d \in [kind : {"apply"}, at : {"sent", "begun", "failed"}, to : Names \cup {None}, fields : Edits, on : Config, target : Config]
  BY AtAre DEF ApplyBegins
<1>5. ~Stages(d) /\ (Put(l, Verdict("refused")) \/ Put(l, c))
  BY <1>4 DEF ApplyBegins, Moves, Put, Stages
<1>6. Verdict("refused") \in Slot /\ Verdict("refused").kind = "verdict"
  BY NothingIsAnAnswer DEF Occasions
<1>7. CASE Put(l, Verdict("refused"))
  BY <1>2, <1>3, <1>5, <1>6, <1>7, Idly
<1>8. CASE Put(l, c)
  <2>1. c \in Slot /\ c.kind = "apply" /\ c.on = d.on /\ c.target = d.target
    BY <1>1, <1>4 DEF Slot, Call
  <2> HIDE DEF c
  <2>2. ~Stages(c) /\ ~Clears(c) /\ d.kind = "apply"
    BY <1>4, <2>1 DEF Stages, Clears
  <2>3. \E m \in Lines, b \in Slot :
           /\ Put(m, b) /\ ~Stages(calls[m]) /\ ~Stages(b) /\ ~Clears(b)
           /\ b.kind = "apply" => calls[m].kind = "apply" /\ b.on = calls[m].on /\ b.target = calls[m].target
    BY <1>5, <1>8, <2>1, <2>2
  <2> QED BY <1>2, <1>3, <2>3 DEF Passive
<1> QED BY <1>5, <1>7, <1>8

\* What an apply leaves running, wherever its edits came from.
LEMMA AppliedConfig ==
    ASSUME TypeOK, NEW c, c.fields \in Edits, c.to \in Names \cup {None}
    PROVE  Applied(c) \in Config /\ (IF c.to = None THEN server.active ELSE c.to) \in Names
<1> DEFINE base == IF c.to = None THEN server.running ELSE Presets[c.to]
<1>1. base \in Config /\ (IF c.to = None THEN server.active ELSE c.to) \in Names
  BY DEF TypeOK
<1>2. Applied(c) = Over(c.fields, base)
  BY DEF Applied
<1> HIDE DEF base
<1>3. \A e \in Edits : Over(e, base) \in Config
  BY <1>1, OverConfig
<1> QED BY <1>1, <1>2, <1>3

LEMMA ApplyLandsDoes == ASSUME TypeOK, NEW l \in Lines, ApplyLands(l) PROVE Taking
<1> DEFINE d == calls[l]
           r == Applied(d)
           a == IF d.to = None THEN server.active ELSE d.to
<1>1. d \in [kind : {"apply"}, at : {"sent", "begun", "failed"}, to : Names \cup {None}, fields : Edits, on : Config, target : Config]
  BY AtAre DEF ApplyLands
<1>2. d.fields \in Edits /\ d.to \in Names \cup {None} /\ ~Stages(d)
  BY <1>1 DEF Stages
<1>3. r \in Config /\ a \in Names
  BY <1>2, AppliedConfig
<1>4. /\ server' = [buffer |-> Nothing, running |-> r, active |-> a] /\ Taken /\ Put(l, Verdict("applied"))
      /\ UNCHANGED <<page, said, spent>>
  BY DEF ApplyLands, Moves, Put
<1> HIDE DEF r, a
<1>5. server' \in Server /\ server'.buffer = Nothing
  BY <1>3, <1>4, NothingIsAnEdit DEF Server
<1>6. Background
  BY <1>4, <1>5, Steady
<1>7. Verdict("applied") \in Slot /\ Verdict("applied").kind = "verdict"
  BY NothingIsAnAnswer DEF Occasions
<1>8. ~Stages(Verdict("applied")) /\ ~Clears(Verdict("applied")) /\ Verdict("applied").kind # "apply"
  BY <1>7 DEF Stages, Clears
<1> QED BY <1>2, <1>4, <1>5, <1>6, <1>7, <1>8 DEF Taking

LEMMA ApplyFailsDoes == ASSUME TypeOK, NEW l \in Lines, ApplyFails(l) PROVE Passive
<1> DEFINE d == calls[l]
           r == Applied(d)
<1>1. d \in [kind : {"apply"}, at : {"sent", "begun", "failed"}, to : Names \cup {None}, fields : Edits, on : Config, target : Config]
  BY AtAre DEF ApplyFails
<1>2. d.fields \in Edits /\ d.to \in Names \cup {None} /\ ~Stages(d)
  BY <1>1 DEF Stages
<1>3. r \in Config
  BY <1>2, AppliedConfig
<1>4. /\ server' = server \/ server' = [server EXCEPT !.running = r]
      /\ stale' = (stale \/ server' # server) /\ Put(l, Verdict("failed"))
      /\ UNCHANGED <<page, said>> /\ Same
  BY DEF ApplyFails, Moves, Put, Same
<1> HIDE DEF r
<1>5. server' \in Server /\ server'.buffer = server.buffer
  <2>1. CASE server' = server
    BY <2>1, ServerTypes
  <2>2. CASE server' = [server EXCEPT !.running = r]
    BY <1>3, <2>2 DEF TypeOK, Server
  <2> QED BY <1>4, <2>1, <2>2
<1>6. Within
  BY SpendType DEF ApplyFails, Bounded, Within
<1>7. Background
  BY <1>4, <1>5, <1>6 DEF Background, TypeOK
<1>8. Verdict("failed") \in Slot /\ Verdict("failed").kind = "verdict"
  BY NothingIsAnAnswer DEF Occasions
<1>9. ~Stages(Verdict("failed")) /\ ~Clears(Verdict("failed")) /\ Verdict("failed").kind # "apply"
  BY <1>8 DEF Stages, Clears
<1>10. (server' = server /\ stale' = stale) \/ stale' = TRUE
  BY <1>4 DEF TypeOK
<1> QED BY <1>2, <1>4, <1>5, <1>7, <1>8, <1>9, <1>10 DEF Passive

LEMMA CallFailsDoes == ASSUME TypeOK, NEW l \in Lines, CallFails(l) PROVE Passive \/ Failing
<1> DEFINE d == calls[l]
           c == [d EXCEPT !.at = "failed"]
<1>1. d \in Slot /\ d # Idle /\ d.at \in {"sent", "answered"}
  BY CallsAre DEF CallFails
<1>2. UNCHANGED <<page, server, raced, stale, said>> /\ Put(l, c)
  BY DEF CallFails, Moves, Put
<1>3. server \in Server /\ owed' = IF d.kind = "stage" THEN Restrict(owed, DOMAIN owed \ DOMAIN d.body) ELSE owed
  BY ServerTypes DEF CallFails
<1>4. Within
  BY SpendType DEF CallFails, Bounded, Within
<1>5. Background
  BY <1>2, <1>3, <1>4 DEF Background, TypeOK
<1>6. CASE d.kind = "stage"
  <2>1. d \in [kind : {"stage"}, at : {"sent", "merged", "failed"}, body : Edits, drop : SUBSET Fields, on : Config]
    BY <1>1, <1>6, SlotKinds
  <2>2. c \in Slot /\ c.kind = "stage" /\ c.at = "failed" /\ At(l, "stage", "sent")
    BY <1>1, <2>1 DEF Slot, Call, At
  <2> HIDE DEF c
  <2>3. Failing
    BY <1>2, <1>3, <1>5, <1>6, <2>2 DEF Failing
  <2> QED BY <2>3
<1>7. CASE d.kind = "apply"
  <2>1. d \in [kind : {"apply"}, at : {"sent", "begun", "failed"}, to : Names \cup {None}, fields : Edits, on : Config, target : Config]
    BY <1>1, <1>7, SlotKinds
  <2>2. c \in Slot /\ c.kind = "apply" /\ c.on = d.on /\ c.target = d.target
    BY <2>1 DEF Slot, Call
  <2> HIDE DEF c
  <2>3. ~Stages(d) /\ ~Stages(c) /\ ~Clears(c) /\ Same
    BY <1>2, <1>3, <1>7, <2>2 DEF Stages, Clears, Same
  <2> QED BY <1>2, <1>5, <1>7, <2>2, <2>3 DEF Passive
<1>8. CASE d.kind \notin {"stage", "apply"}
  <2>1. c \in Slot /\ c.kind = d.kind /\ c.at = "failed"
    <3>1. CASE d.kind = "discard"
      BY <1>1, <3>1, SlotKinds DEF Slot, Call, Served
    <3>2. CASE d.kind = "preset"
      BY <1>1, <3>2, SlotKinds DEF Slot, Call, Served
    <3>3. CASE d.kind = "config"
      BY <1>1, <3>3, SlotKinds DEF Slot, Call, Served
    <3>4. CASE d.kind = "pending"
      BY <1>1, <3>4, SlotKinds DEF Slot, Call, Served
    <3>5. CASE d.kind = "snapshot"
      BY <1>1, <3>5, SlotKinds DEF Slot, Call, Served
    <3>6. CASE d.kind = "verdict"
      BY <1>1, <3>6, SlotKinds DEF Slot, Call, Served
    <3> QED BY <1>1, <1>8, <3>1, <3>2, <3>3, <3>4, <3>5, <3>6, SlotKinds
  <2> HIDE DEF c
  <2>2. ~Stages(d) /\ ~Stages(c) /\ ~Clears(c) /\ c.kind # "apply" /\ Same
    BY <1>2, <1>3, <1>8, <2>1 DEF Stages, Clears, Same
  <2> QED BY <1>2, <1>5, <2>1, <2>2 DEF Passive
<1> QED BY <1>6, <1>7, <1>8

LEMMA ReceivedPage ==
    ASSUME NEW c \in Slot, page \in Page
    PROVE  Received(c) \in Page /\ (Received(c).acknowledged => page.acknowledged)
<1>1. CASE c.kind = "snapshot" /\ c.at = "answered"
  <2> DEFINE p == [page EXCEPT !.staged = c.echo]
  <2>1. p \in Page /\ p.acknowledged = page.acknowledged
    BY <1>1, SlotKinds DEF Page
  <2>2. Received(c) = Pruned(p)
    BY <1>1 DEF Received
  <2> HIDE DEF p
  <2> QED BY <2>1, <2>2, PrunedPage
<1>2. CASE c.kind = "config" /\ c.at = "answered"
  <2>1. Received(c) = [page EXCEPT !.config = c.running, !.active = c.active]
    BY <1>2 DEF Received
  <2> QED BY <1>2, <2>1, SlotKinds DEF Page
<1>3. CASE c.kind = "preset" /\ c.at = "answered"
  <2>1. Received(c) = [page EXCEPT !.preview = c.name]
    BY <1>3 DEF Received
  <2> QED BY <1>3, <2>1, SlotKinds DEF Page
<1>4. CASE c.kind = "pending"
  <2> DEFINE e == IF c.at = "answered" THEN c.echo ELSE page.staged
             a == page.applying /\ c.after = "poll"
             v == IF c.after = "applied" THEN None ELSE page.preview
  <2>1. e \in Edits /\ a \in BOOLEAN /\ v \in Names \cup {None}
    BY <1>4, SlotKinds DEF Page
  <2>2. Received(c) = [page EXCEPT !.staged = e, !.applying = a, !.preview = v]
    BY <1>4 DEF Received
  <2> HIDE DEF e, a, v
  <2> QED BY <2>1, <2>2 DEF Page
<1>5. CASE /\ ~(c.kind = "snapshot" /\ c.at = "answered") /\ ~(c.kind = "config" /\ c.at = "answered")
           /\ ~(c.kind = "preset" /\ c.at = "answered") /\ c.kind # "pending"
  <2>1. Received(c) = page
    BY <1>5 DEF Received
  <2> QED BY <2>1
<1> QED BY <1>1, <1>2, <1>3, <1>4, <1>5

LEMMA FollowingSlot ==
    ASSUME NEW c \in Slot
    PROVE  Following(c) \in Slot /\ Following(c).kind \in {"idle", "config", "pending"}
<1>1. "failed" \in Occasions
  BY DEF Occasions
<1>2. CASE c.kind = "apply"
  BY <1>1, <1>2, NothingIsAnAnswer DEF Following
<1>3. CASE c.kind = "verdict"
  <2> DEFINE a == IF c.at = "answered" THEN c.after ELSE "failed"
  <2>1. a \in Occasions
    BY <1>1, <1>3, SlotKinds
  <2>2. Following(c) = Refresh(a)
    BY <1>3 DEF Following
  <2> HIDE DEF a
  <2> QED BY <2>1, <2>2, NothingIsAnAnswer
<1>4. CASE c.kind = "config"
  <2>1. c.after \in Occasions /\ Following(c) = Reread(c.after)
    BY <1>4, SlotKinds DEF Following
  <2> QED BY <2>1, NothingIsAnAnswer
<1>5. CASE c.kind \notin {"apply", "verdict", "config"}
  BY <1>5, NothingIsAnAnswer DEF Following
<1> QED BY <1>2, <1>3, <1>4, <1>5

LEMMA ReceiveDoes == ASSUME TypeOK, NEW l \in Lines, Receive(l) PROVE Passive
<1> DEFINE d == calls[l]
           c == Following(d)
<1>1. d \in Slot /\ d.at \in {"answered", "failed"} /\ page' = Received(d) /\ Put(l, c)
  BY CallsAre DEF Receive, Put
<1>2. UNCHANGED <<server, stale, said, spent>> /\ Same
  BY DEF Receive, history, Same
<1>3. page \in Page /\ server \in Server /\ Within
  BY <1>2 DEF TypeOK, Server, Within
<1>4. page' \in Page /\ (page'.acknowledged => page.acknowledged)
  BY <1>1, <1>3, ReceivedPage
<1>5. Background
  BY <1>2, <1>3, <1>4 DEF Background
<1>6. c \in Slot /\ c.kind \notin {"stage", "discard", "apply"}
  BY <1>1, FollowingSlot
<1>7. ~Stages(d)
  BY <1>1 DEF Stages
<1> HIDE DEF c
<1> QED BY <1>1, <1>2, <1>5, <1>6, <1>7, Idly

LEMMA OtherStagesDoes ==
    ASSUME TypeOK, NEW f \in Fields, NEW v \in Levels, OtherStages(f, v)
    PROVE  Intruding
<1> DEFINE body == Coupled(f, v)
           b == Over(body, server.buffer)
           S == {g \in DOMAIN b : b[g] # server.running[g]}
           r == Restrict(b, S)
<1>1. body \in Edits
  BY CoupledEdit
<1>2. /\ server' = [server EXCEPT !.buffer = r]
      /\ owed' = Restrict(owed, {g \in DOMAIN owed \ DOMAIN body : g \in Carried \/ owed[g] # server.running[g]})
      /\ UNCHANGED <<page, calls, raced, stale, said>>
  BY DEF OtherStages
<1>3. server.buffer \in Edits
  BY DEF TypeOK
<1> HIDE DEF body
<1>4. b \in Edits
  BY <1>1, <1>3, OverEdits
<1> HIDE DEF b
<1>5. S \subseteq DOMAIN b
  OBVIOUS
<1> HIDE DEF S
<1>6. r \in Edits
  BY <1>4, <1>5, RestrictEdit
<1> HIDE DEF r
<1>7. server' \in Server /\ server'.buffer = r /\ server'.running = server.running
  BY <1>2, <1>6, ServerTypes
<1>8. Within
  BY SpendType DEF OtherStages, Bounded, Within
<1>9. Background
  BY <1>2, <1>7, <1>8 DEF Background, TypeOK
<1> USE DEF b, S, r
<1> QED BY <1>1, <1>2, <1>7, <1>9 DEF Intruding

LEMMA OtherDiscardsDoes == ASSUME TypeOK, OtherDiscards PROVE Taking
<1>1. server' = [server EXCEPT !.buffer = Nothing] /\ Taken /\ UNCHANGED <<page, calls, said>>
  BY DEF OtherDiscards
<1>2. server' \in Server /\ server'.buffer = Nothing
  BY <1>1, NothingIsAnEdit, ServerTypes
<1>3. Within
  BY SpendType DEF OtherDiscards, Bounded, Within
<1>4. Background
  BY <1>1, <1>2, <1>3 DEF Background, TypeOK
<1> QED BY <1>1, <1>2, <1>4 DEF Taking

LEMMA OtherAppliesDoes ==
    ASSUME TypeOK, NEW to \in Names \cup {None}, OtherApplies(to)
    PROVE  Taking
<1> DEFINE d == [fields |-> server.buffer, to |-> to]
           r == Applied(d)
           a == IF to = None THEN server.active ELSE to
<1>1. d.fields \in Edits /\ d.to = to
  BY DEF TypeOK
<1>2. /\ server' = [buffer |-> Nothing, running |-> r, active |-> a] /\ Taken
      /\ UNCHANGED <<page, calls, said>>
  BY DEF OtherApplies
<1> HIDE DEF d
<1>3. r \in Config /\ a \in Names
  BY <1>1, AppliedConfig
<1> HIDE DEF r, a
<1>4. server' \in Server /\ server'.buffer = Nothing
  BY <1>2, <1>3, NothingIsAnEdit DEF Server
<1>5. Within
  BY SpendType DEF OtherApplies, Bounded, Within
<1>6. Background
  BY <1>2, <1>4, <1>5 DEF Background, TypeOK
<1> QED BY <1>2, <1>4, <1>6 DEF Taking

LEMMA StepsAre ==
    ASSUME TypeOK, [Next]_vars
    PROVE  UserStep \/ Passive \/ Merging \/ Dropping \/ Discarding \/ Failing \/ Taking \/ Intruding \/ UNCHANGED vars
<1>1. ASSUME NEW c \in Choices \cup Others, Edit(c[1], c[2]) \/ OtherStages(c[1], c[2]) PROVE UserStep \/ Intruding
  <2>1. c[1] \in Fields /\ c[2] \in Levels
    OBVIOUS
  <2> QED BY <1>1, <2>1, EditDoes, OtherStagesDoes
<1>2. ASSUME NEW l \in Lines, Receive(l) \/ Serve(l) \/ ApplyLands(l) \/ ApplyFails(l) \/ CallFails(l)
      PROVE  Passive \/ Merging \/ Dropping \/ Discarding \/ Failing \/ Taking
  BY <1>2, ReceiveDoes, MergeDoes, DropDoes, DiscardDoes, ReadDoes, ApplyBeginsDoes, ApplyLandsDoes, ApplyFailsDoes,
     CallFailsDoes DEF Serve
<1>3. CASE UNCHANGED vars
  BY <1>3
<1>4. CASE Next
  BY <1>1, <1>2, <1>4, PickDoes, AnswerDoes, ApplyAllDoes, DiscardAllDoes, PollDoes, OtherDiscardsDoes, OtherAppliesDoes DEF Next
<1> QED BY <1>3, <1>4

-----------------------------------------------------------------------------
(* Types.                                                                   *)

LEMMA TypeInit == Init => TypeOK
<1> SUFFICES ASSUME Init PROVE TypeOK
  OBVIOUS
<1>1. page = [staged |-> Nothing, config |-> Presets[First], active |-> First, preview |-> None,
              acknowledged |-> FALSE, question |-> None, applying |-> FALSE]
  BY DEF Init
<1>2. page \in Page
  BY <1>1, NothingIsAnEdit DEF Page
<1>3. server \in [buffer : Edits, running : Config, active : Names]
  BY NothingIsAnEdit DEF Init
<1>4. \A k \in Bounded : Budget[k] \in Nat
  BY DEF Bounded, Budget
<1>5. spent \in [Bounded -> Nat] /\ \A k \in Bounded : spent[k] <= Budget[k]
  BY <1>4 DEF Init
<1>6. calls \in [Lines -> Call \cup {Idle}] /\ owed \in Edits /\ raced \in SUBSET Fields /\ stale \in BOOLEAN /\ said \in BOOLEAN
  BY NothingIsAnEdit DEF Init
<1> QED BY <1>2, <1>3, <1>5, <1>6 DEF TypeOK

LEMMA TypeStep == TypeOK /\ [Next]_vars => TypeOK'
<1> SUFFICES ASSUME TypeOK, [Next]_vars PROVE TypeOK'
  OBVIOUS
<1> DEFINE Typed == /\ calls' \in [Lines -> Call \cup {Idle}] /\ owed' \in Edits /\ raced' \in SUBSET Fields
                    /\ stale' \in BOOLEAN
<1>1. /\ page \in Page /\ server \in Server /\ calls \in [Lines -> Call \cup {Idle}]
      /\ owed \in Edits /\ raced \in SUBSET Fields /\ stale \in BOOLEAN /\ said \in BOOLEAN
  BY DEF TypeOK, Server
<1>2. ASSUME Background, Typed PROVE TypeOK'
  BY <1>1, <1>2 DEF Background, Within, Server, TypeOK
<1>3. \A S : S \subseteq DOMAIN owed => Restrict(owed, S) \in Edits
  BY <1>1, RestrictEdit
<1>4. \A c \in Slot : \A l \in Lines : Put(l, c) => calls' \in [Lines -> Call \cup {Idle}]
  BY Lined
<1>5. CASE UserStep
  <2>1. page' \in Page /\ said' \in BOOLEAN /\ Within /\ server' = server /\ stale' = stale
    BY <1>5 DEF UserStep
  <2>2. ASSUME Quiet PROVE Typed
    BY <1>1, <2>1, <2>2 DEF Quiet, Same
  <2>3. ASSUME Calling PROVE Typed
    BY <1>1, <1>4, <2>1, <2>3, NothingIsAnEdit DEF Calling, Same
  <2>4. ASSUME Staging PROVE Typed
    <3>1. PICK l \in Lines, body \in Edits, drop \in SUBSET Fields, on \in Config :
             /\ Put(l, StageCall(body, drop, on)) /\ StageCall(body, drop, on) \in Slot
             /\ owed' \in Edits /\ raced' = (raced \ DOMAIN body) \cup (DOMAIN body \cap Touched)
      BY <2>4 DEF Staging
    <3>2. DOMAIN body \subseteq Fields
      BY EditIsPartial
    <3>3. raced' \in SUBSET Fields
      BY <1>1, <3>1, <3>2
    <3> QED BY <1>1, <1>4, <2>1, <3>1, <3>3
  <2>5. Typed
    BY <1>5, <2>2, <2>3, <2>4 DEF UserStep
  <2> QED BY <1>1, <2>1, <2>5 DEF Within, Server, TypeOK
<1>6. CASE Passive
  <2>1. Typed
    BY <1>1, <1>4, <1>6 DEF Passive, Same
  <2> QED BY <1>2, <1>6, <2>1 DEF Passive
<1>7. CASE Merging
  <2>1. Typed
    BY <1>1, <1>4, <1>7 DEF Merging, Same
  <2> QED BY <1>2, <1>7, <2>1 DEF Merging
<1>8. CASE Dropping
  <2>1. Typed
    BY <1>1, <1>4, <1>8, NothingIsAnAnswer DEF Dropping, Same
  <2> QED BY <1>2, <1>8, <2>1 DEF Dropping
<1>9. CASE Discarding
  <2>1. Typed
    BY <1>1, <1>4, <1>9, NothingIsAnAnswer DEF Discarding, Same
  <2> QED BY <1>2, <1>9, <2>1 DEF Discarding
<1>10. CASE Failing
  <2>1. PICK l \in Lines, c \in Slot : Put(l, c) /\ owed' = Restrict(owed, DOMAIN owed \ DOMAIN calls[l].body)
    BY <1>10 DEF Failing
  <2>2. owed' \in Edits
    BY <1>3, <2>1
  <2>3. Typed
    BY <1>1, <1>4, <1>10, <2>1, <2>2 DEF Failing
  <2> QED BY <1>2, <1>10, <2>3 DEF Failing
<1>11. CASE Taking
  <2>1. owed' = Restrict(owed, DOMAIN owed \cap Carried) /\ raced' = raced /\ stale' = FALSE
    BY <1>11 DEF Taking, Taken
  <2>2. owed' \in Edits
    BY <1>3, <2>1
  <2>3. calls' \in [Lines -> Call \cup {Idle}]
    BY <1>1, <1>4, <1>11 DEF Taking
  <2>4. Typed
    BY <1>1, <2>1, <2>2, <2>3
  <2> QED BY <1>2, <1>11, <2>4 DEF Taking
<1>12. CASE Intruding
  <2>1. PICK body \in Edits :
           owed' = Restrict(owed, {g \in DOMAIN owed \ DOMAIN body : g \in Carried \/ owed[g] # server.running[g]})
    BY <1>12 DEF Intruding
  <2>2. owed' \in Edits
    BY <1>3, <2>1
  <2>3. Typed
    BY <1>1, <1>12, <2>2 DEF Intruding
  <2> QED BY <1>2, <1>12, <2>3 DEF Intruding
<1>13. CASE UNCHANGED vars
  BY <1>13 DEF vars, TypeOK
<1> QED BY <1>5, <1>6, <1>7, <1>8, <1>9, <1>10, <1>11, <1>12, <1>13, StepsAre

-----------------------------------------------------------------------------
(* The drop list of a call is judged on the configuration its edit was made on, *)
(* and a pin an apply brings was said yes to.                                 *)

Judges(c) == Stages(c) => \A g \in DOMAIN c.body : g \in c.drop <=> c.body[g] = c.on[g]
Judged == \A l \in Lines : Judges(calls[l])

Asks(c) == c.kind = "apply" /\ Pins(c.target) /\ ~Pins(c.on) => said
Asked == (page.acknowledged => said) /\ \A l \in Lines : Asks(calls[l])

\* A call just staged.
LEMMA StageCallIs ==
    ASSUME NEW body, NEW drop, NEW on
    PROVE  LET c == StageCall(body, drop, on) IN
           c.kind = "stage" /\ c.at = "sent" /\ c.body = body /\ c.drop = drop /\ c.on = on
BY DEF StageCall

LEMMA JudgedStep == TypeOK /\ Judged /\ [Next]_vars => Judged'
<1> SUFFICES ASSUME TypeOK, Judged, [Next]_vars, NEW m \in Lines PROVE Judges(calls'[m])
  BY DEF Judged, Judges, Stages
<1>1. ASSUME NEW l \in Lines, NEW c \in Slot, Put(l, c), Judges(c) PROVE Judges(calls'[m])
  BY <1>1, Lined DEF Judged
<1>2. ASSUME NEW c \in Slot, ~Stages(c) PROVE Judges(c)
  BY <1>2 DEF Judges
<1>3. ASSUME calls' = calls PROVE Judges(calls'[m])
  BY <1>3 DEF Judged
<1>4. ~Stages(Snapshot) /\ Snapshot \in Slot
  BY NothingIsAnAnswer DEF Stages
<1>5. CASE UserStep
  <2>1. CASE Quiet
    BY <1>3, <2>1 DEF Quiet
  <2>2. CASE Calling
    BY <1>1, <1>2, <2>2 DEF Calling
  <2>3. CASE Staging
    <3>1. PICK l \in Lines, body \in Edits, drop \in SUBSET Fields, on \in Config :
             /\ Put(l, StageCall(body, drop, on)) /\ StageCall(body, drop, on) \in Slot
             /\ \A g \in DOMAIN body : g \in drop <=> body[g] = on[g]
      BY <2>3 DEF Staging
    <3>2. Judges(StageCall(body, drop, on))
      BY <3>1, StageCallIs DEF Judges
    <3> QED BY <1>1, <3>1, <3>2
  <2> QED BY <1>5, <2>1, <2>2, <2>3 DEF UserStep
<1>6. CASE Passive
  BY <1>1, <1>2, <1>6 DEF Passive
<1>7. CASE Merging
  <2>1. PICK l \in Lines, c \in Slot :
           /\ Put(l, c) /\ At(l, "stage", "sent") /\ c.kind = "stage" /\ c.at = "merged"
           /\ c.body = calls[l].body /\ c.drop = calls[l].drop /\ c.on = calls[l].on
    BY <1>7 DEF Merging
  <2>2. Judges(calls[l]) /\ Stages(calls[l])
    BY <2>1 DEF Judged, At, Stages
  <2>3. Judges(c)
    BY <2>1, <2>2 DEF Judges
  <2> QED BY <1>1, <2>1, <2>3
<1>8. CASE Dropping \/ Discarding
  BY <1>1, <1>2, <1>4, <1>8 DEF Dropping, Discarding
<1>9. CASE Failing
  <2>1. PICK l \in Lines, c \in Slot : Put(l, c) /\ c.at = "failed"
    BY <1>9 DEF Failing
  <2>2. ~Stages(c)
    BY <2>1 DEF Stages
  <2> QED BY <1>1, <1>2, <2>1, <2>2
<1>10. CASE Taking
  BY <1>1, <1>2, <1>3, <1>10 DEF Taking
<1>11. CASE Intruding \/ UNCHANGED vars
  BY <1>3, <1>11 DEF Intruding, vars
<1> QED BY <1>5, <1>6, <1>7, <1>8, <1>9, <1>10, <1>11, StepsAre

LEMMA AskedStep == TypeOK /\ Asked /\ [Next]_vars => Asked'
<1> SUFFICES ASSUME TypeOK, Asked, [Next]_vars PROVE Asked'
  OBVIOUS
<1> DEFINE Minds(c) == c.kind = "apply" /\ Pins(c.target) /\ ~Pins(c.on) => said'
<1>1. (page.acknowledged => said) /\ \A m \in Lines : Asks(calls[m])
  BY DEF Asked
<1>2. ASSUME page'.acknowledged => said', said => said', calls' = calls PROVE Asked'
  BY <1>1, <1>2 DEF Asked, Asks
<1>3. ASSUME page'.acknowledged => said', said => said', NEW l \in Lines, NEW c \in Slot, Put(l, c), Minds(c)
      PROVE  Asked'
  <2>1. \A m \in Lines : calls'[m] = c \/ calls'[m] = calls[m]
    BY <1>3, Lined
  <2>2. \A m \in Lines : Minds(calls'[m])
    BY <1>1, <1>3, <2>1 DEF Asks
  <2> QED BY <1>3, <2>2 DEF Asked, Asks
<1>4. ASSUME Background PROVE (page'.acknowledged => said') /\ (said => said')
  BY <1>1, <1>4 DEF Background
<1>5. Snapshot \in Slot /\ Minds(Snapshot)
  BY NothingIsAnAnswer
<1>6. CASE UserStep
  <2>1. (page'.acknowledged => said') /\ (said => said')
    BY <1>1, <1>6 DEF UserStep
  <2>2. CASE Quiet
    BY <1>2, <2>1, <2>2 DEF Quiet
  <2>3. CASE Calling
    <3>1. PICK l \in Lines, c \in Slot :
             Put(l, c) /\ (c.kind = "apply" /\ Pins(c.target) /\ ~Pins(c.on) => page.acknowledged \/ said')
      BY <2>3 DEF Calling
    <3>2. Minds(c)
      BY <1>1, <2>1, <3>1
    <3> QED BY <1>3, <2>1, <3>1, <3>2
  <2>4. CASE Staging
    <3>1. PICK l \in Lines, body \in Edits, drop \in SUBSET Fields, on \in Config :
             Put(l, StageCall(body, drop, on)) /\ StageCall(body, drop, on) \in Slot
      BY <2>4 DEF Staging
    <3>2. Minds(StageCall(body, drop, on))
      BY StageCallIs
    <3> QED BY <1>3, <2>1, <3>1, <3>2
  <2> QED BY <1>6, <2>2, <2>3, <2>4 DEF UserStep
<1>7. CASE Passive
  <2>1. PICK l \in Lines, c \in Slot :
           Put(l, c) /\ (c.kind = "apply" => calls[l].kind = "apply" /\ c.on = calls[l].on /\ c.target = calls[l].target)
    BY <1>7 DEF Passive
  <2>2. Background
    BY <1>7 DEF Passive
  <2>3. Minds(c)
    BY <1>1, <1>4, <2>1, <2>2 DEF Asks
  <2> QED BY <1>3, <1>4, <2>1, <2>2, <2>3
<1>8. CASE Merging \/ Failing
  <2>1. Background
    BY <1>8 DEF Merging, Failing
  <2>2. PICK l \in Lines, c \in Slot : Put(l, c) /\ c.kind = "stage"
    BY <1>8 DEF Merging, Failing
  <2> QED BY <1>3, <1>4, <2>1, <2>2
<1>9. CASE Dropping \/ Discarding
  <2>1. Background
    BY <1>9 DEF Dropping, Discarding
  <2>2. PICK l \in Lines : Put(l, Snapshot)
    BY <1>9 DEF Dropping, Discarding
  <2> QED BY <1>3, <1>4, <1>5, <2>1, <2>2
<1>10. CASE Taking
  <2>1. Background
    BY <1>10 DEF Taking
  <2>2. calls' = calls \/ \E l \in Lines, c \in Slot : Put(l, c) /\ c.kind # "apply"
    BY <1>10 DEF Taking
  <2> QED BY <1>2, <1>3, <1>4, <2>1, <2>2
<1>11. CASE Intruding
  BY <1>2, <1>4, <1>11 DEF Intruding
<1>12. CASE UNCHANGED vars
  BY <1>1, <1>2, <1>12 DEF vars
<1> QED BY <1>6, <1>7, <1>8, <1>9, <1>10, <1>11, <1>12, StepsAre

-----------------------------------------------------------------------------
(* The buffer holds nothing idle.                                           *)

Drops(c, f) == c.kind = "stage" /\ c.at = "merged" /\ f \in c.drop
Neat == ~stale => \A f \in DOMAIN server.buffer :
            server.buffer[f] # server.running[f] \/ \E l \in Lines : Drops(calls[l], f)

LEMMA StagesAreCalls == \A c : c.kind = "stage" => c # Idle
BY DEF Idle

LEMMA NeatIs == NothingIdle <=> Neat
BY StagesAreCalls DEF NothingIdle, Neat, At, Drops

\* What a step leaves of the calls that are about to drop an entry.
LEMMA DropsStay ==
    ASSUME TypeOK, NEW l \in Lines, NEW c \in Slot, Put(l, c), NEW f, ~Drops(calls[l], f),
           \E m \in Lines : Drops(calls[m], f)
    PROVE  \E m \in Lines : Drops(calls'[m], f)
<1>1. PICK m \in Lines : Drops(calls[m], f)
  OBVIOUS
<1>2. m # l
  BY <1>1
<1>3. calls'[m] = calls[m]
  BY <1>2, Lined
<1> QED BY <1>1, <1>3

LEMMA IdleStep == TypeOK /\ Judged /\ NothingIdle /\ [Next]_vars => NothingIdle'
<1> SUFFICES ASSUME TypeOK, Judged, Neat, [Next]_vars, ~stale', NEW f \in DOMAIN server'.buffer, server'.buffer[f] = server'.running[f]
             PROVE  \E l \in Lines : Drops(calls'[l], f)
  BY NeatIs, StagesAreCalls DEF NothingIdle, At, Drops
<1>1. ASSUME f \in DOMAIN server.buffer, server.buffer[f] = server.running[f], ~stale
      PROVE  \E l \in Lines : Drops(calls[l], f)
  BY <1>1 DEF Neat
<1>2. \A c : ~Stages(c) => ~Drops(c, f)
  BY DEF Stages, Drops
<1>3. server.buffer \in Edits
  BY DEF TypeOK
<1>4. CASE UserStep
  <2>1. \E l \in Lines : Drops(calls[l], f)
    BY <1>1, <1>4 DEF UserStep
  <2>2. ~Stages(Idle)
    BY DEF Stages, Idle
  <2>3. CASE Quiet
    BY <2>1, <2>3 DEF Quiet
  <2>4. CASE Calling \/ Staging
    <3>1. PICK l \in Lines, c \in Slot : calls[l] = Idle /\ Put(l, c)
      BY <2>4 DEF Calling, Staging
    <3>2. ~Drops(calls[l], f)
      BY <1>2, <2>2, <3>1
    <3> QED BY <2>1, <3>1, <3>2, DropsStay
  <2> QED BY <1>4, <2>3, <2>4 DEF UserStep
<1>5. CASE Passive
  <2>1. PICK l \in Lines, c \in Slot : Put(l, c) /\ ~Stages(calls[l])
    BY <1>5 DEF Passive
  <2>2. server' = server /\ stale' = stale
    BY <1>5 DEF Passive
  <2>3. \E m \in Lines : Drops(calls[m], f)
    BY <1>1, <2>2
  <2> QED BY <1>2, <2>1, <2>3, DropsStay
<1>6. CASE Merging
  <2>1. PICK l \in Lines, c \in Slot :
           /\ Put(l, c) /\ At(l, "stage", "sent") /\ c.kind = "stage" /\ c.at = "merged"
           /\ c.body = calls[l].body /\ c.drop = calls[l].drop /\ c.on = calls[l].on
           /\ server'.buffer = Over(c.body, server.buffer)
           /\ stale' = (stale \/ c.on # server.running)
    BY <1>6 DEF Merging
  <2>2. server'.running = server.running /\ c.on = server.running /\ ~stale
    BY <1>6, <2>1 DEF Merging
  <2>3. Judges(calls[l]) /\ Stages(calls[l]) /\ calls[l].at = "sent" /\ calls[l].body \in Edits
    BY <2>1, AtAre DEF Judged, At, Stages
  <2> DEFINE body == c.body
             b == Over(body, server.buffer)
  <2>4. body \in Edits
    BY <2>1, <2>3
  <2>5. server'.buffer = b
    BY <2>1
  <2>6. \A g \in DOMAIN body : g \in c.drop <=> body[g] = c.on[g]
    BY <2>1, <2>3 DEF Judges
  <2> HIDE DEF body
  <2>7. /\ DOMAIN b = DOMAIN body \cup DOMAIN server.buffer
        /\ \A g \in DOMAIN body : b[g] = body[g]
        /\ \A g \in DOMAIN server.buffer \ DOMAIN body : b[g] = server.buffer[g]
    BY <1>3, <2>4, OverEdits
  <2> HIDE DEF b
  <2>8. CASE f \in DOMAIN body
    <3>1. f \in c.drop
      BY <2>2, <2>5, <2>6, <2>7, <2>8
    <3>2. Drops(c, f) /\ calls'[l] = c
      BY <2>1, <3>1, Lined DEF Drops
    <3> QED BY <3>2
  <2>9. CASE f \notin DOMAIN body
    <3>1. f \in DOMAIN server.buffer /\ server.buffer[f] = server.running[f]
      BY <2>2, <2>5, <2>7, <2>9
    <3>2. \E m \in Lines : Drops(calls[m], f)
      BY <1>1, <2>2, <3>1
    <3>3. ~Drops(calls[l], f)
      BY <2>3 DEF Drops
    <3> QED BY <2>1, <3>2, <3>3, DropsStay
  <2> QED BY <2>8, <2>9
<1>7. CASE Dropping
  <2>1. PICK l \in Lines : /\ Put(l, Snapshot) /\ At(l, "stage", "merged")
                           /\ server'.buffer = Restrict(server.buffer, DOMAIN server.buffer \ calls[l].drop)
    BY <1>7 DEF Dropping
  <2> DEFINE S == DOMAIN server.buffer \ calls[l].drop
  <2>2. S \subseteq DOMAIN server.buffer
    OBVIOUS
  <2>3. server'.buffer = Restrict(server.buffer, S)
    BY <2>1
  <2>4. f \in S => f \in DOMAIN server.buffer /\ f \notin calls[l].drop
    OBVIOUS
  <2> HIDE DEF S
  <2>5. f \in S /\ server'.buffer[f] = server.buffer[f]
    BY <1>3, <2>2, <2>3, RestrictEdit
  <2>6. f \in DOMAIN server.buffer /\ server.buffer[f] = server.running[f] /\ ~stale /\ f \notin calls[l].drop
    BY <1>7, <2>4, <2>5 DEF Dropping
  <2>7. \E m \in Lines : Drops(calls[m], f)
    BY <1>1, <2>6
  <2>8. ~Drops(calls[l], f) /\ Snapshot \in Slot
    BY <2>6, NothingIsAnAnswer DEF Drops
  <2> QED BY <2>1, <2>7, <2>8, DropsStay
<1>8. CASE Discarding \/ Taking
  <2>1. server'.buffer = Nothing
    BY <1>8 DEF Discarding, Taking
  <2> QED BY <2>1, NothingIsAnEdit
<1>9. CASE Failing
  <2>1. PICK l \in Lines, c \in Slot : Put(l, c) /\ At(l, "stage", "sent")
    BY <1>9 DEF Failing
  <2>2. ~Drops(calls[l], f)
    BY <2>1 DEF At, Drops
  <2>3. \E m \in Lines : Drops(calls[m], f)
    BY <1>1, <1>9 DEF Failing
  <2> QED BY <2>1, <2>2, <2>3, DropsStay
<1>10. CASE Intruding
  <2>1. PICK body \in Edits :
           LET b == Over(body, server.buffer) IN server'.buffer = Restrict(b, {g \in DOMAIN b : b[g] # server.running[g]})
    BY <1>10 DEF Intruding
  <2> DEFINE b == Over(body, server.buffer)
             S == {g \in DOMAIN b : b[g] # server.running[g]}
  <2>2. b \in Edits
    BY <1>3, OverEdits
  <2>3. server'.buffer = Restrict(b, S) /\ server'.running = server.running
    BY <1>10, <2>1 DEF Intruding
  <2>4. S \subseteq DOMAIN b /\ (f \in S => b[f] # server.running[f])
    OBVIOUS
  <2> HIDE DEF b, S
  <2>5. f \in S /\ server'.buffer[f] = b[f]
    BY <2>2, <2>3, <2>4, RestrictEdit
  <2> QED BY <2>3, <2>4, <2>5
<1>11. CASE UNCHANGED vars
  BY <1>1, <1>11 DEF vars
<1> QED BY <1>4, <1>5, <1>6, <1>7, <1>8, <1>9, <1>10, <1>11, StepsAre

-----------------------------------------------------------------------------
(* No change is lost: a call that carries an owed one, or the buffer, has it, and no call *)
(* under way would put another value there or take it out.                    *)

Carries(c, f, v) == c.kind = "stage" /\ c.at = "sent" /\ f \in DOMAIN c.body /\ c.body[f] = v
Spares(c, f, v) ==
    /\ ~Clears(c)
    /\ Stages(c) => f \notin c.drop
    /\ c.kind = "stage" /\ c.at = "sent" /\ f \in DOMAIN c.body => c.body[f] = v
Has(b, f, v) == f \in DOMAIN b /\ b[f] = v
Kept ==
    \A f \in DOMAIN owed \ raced :
        /\ Has(server.buffer, f, owed[f]) \/ \E l \in Lines : Carries(calls[l], f, owed[f])
        /\ \A l \in Lines : Spares(calls[l], f, owed[f])

LEMMA KeptIsEnough == Kept => NoChangeLost
BY StagesAreCalls DEF Kept, NoChangeLost, Held, At, Carries, Has

\* A call that neither stages nor clears spares everything and carries nothing.
LEMMA OthersSpare ==
    \A c, f, v : ~Stages(c) => ~Carries(c, f, v) /\ (~Clears(c) => Spares(c, f, v))
BY DEF Stages, Carries, Spares

\* A step of one line: what the moved call spares is spared, and what another call carried
\* is carried still.
LEMMA SparesStay ==
    ASSUME TypeOK, NEW l \in Lines, NEW c \in Slot, Put(l, c), NEW f, NEW v, Spares(c, f, v),
           \A m \in Lines : Spares(calls[m], f, v)
    PROVE  \A m \in Lines : Spares(calls'[m], f, v)
<1>1. \A m \in Lines : calls'[m] = c \/ calls'[m] = calls[m]
  BY Lined
<1> QED BY <1>1

LEMMA CarriesStay ==
    ASSUME TypeOK, NEW l \in Lines, NEW c \in Slot, Put(l, c), NEW f, NEW v, ~Carries(calls[l], f, v),
           \E m \in Lines : Carries(calls[m], f, v)
    PROVE  \E m \in Lines : Carries(calls'[m], f, v)
<1>1. PICK m \in Lines : Carries(calls[m], f, v)
  OBVIOUS
<1>2. m # l
  BY <1>1
<1>3. calls'[m] = calls[m]
  BY <1>2, Lined
<1> QED BY <1>1, <1>3

\* What a carried setting has to be.
LEMMA CarriedIs ==
    ASSUME NEW f, f \in Carried, NEW v, \A l \in Lines : Spares(calls[l], f, v)
    PROVE  \E l \in Lines : Carries(calls[l], f, v)
<1>1. PICK l \in Lines : At(l, "stage", "sent") /\ f \in DOMAIN calls[l].body
  BY DEF Carried
<1>2. Carries(calls[l], f, v)
  BY <1>1 DEF At, Spares, Carries
<1> QED BY <1>2

\* What no call under way touches, every one of them spares.
LEMMA UntouchedIs ==
    ASSUME NEW f \in Fields, f \notin Touched, NEW v, NEW l \in Lines
    PROVE  Spares(calls[l], f, v)
<1>1. f \notin Touches(calls[l])
  BY DEF Touched
<1>2. CASE Clears(calls[l])
  <2>1. Touches(calls[l]) = Fields
    BY <1>2 DEF Touches, Clears
  <2> QED BY <1>1, <2>1
<1>3. CASE calls[l].kind = "stage" /\ calls[l].at = "sent"
  <2>1. Touches(calls[l]) = DOMAIN calls[l].body \cup calls[l].drop
    BY <1>3 DEF Touches
  <2> QED BY <1>1, <1>3, <2>1 DEF Spares, Clears
<1>4. CASE calls[l].kind = "stage" /\ calls[l].at = "merged"
  <2>1. Touches(calls[l]) = calls[l].drop
    BY <1>4 DEF Touches
  <2> QED BY <1>1, <1>4, <2>1 DEF Spares, Clears
<1>5. CASE ~Clears(calls[l]) /\ ~Stages(calls[l])
  BY <1>5, OthersSpare
<1> QED BY <1>2, <1>3, <1>4, <1>5 DEF Stages

LEMMA KeptStep == TypeOK /\ Kept /\ [Next]_vars => Kept'
<1> SUFFICES ASSUME TypeOK, Kept, [Next]_vars, NEW f \in DOMAIN owed' \ raced'
             PROVE  /\ Has(server'.buffer, f, owed'[f]) \/ \E l \in Lines : Carries(calls'[l], f, owed'[f])
                    /\ \A l \in Lines : Spares(calls'[l], f, owed'[f])
  BY DEF Kept, Has, Carries, Spares, Stages, Clears
<1> DEFINE v == owed'[f]
           Had == f \in DOMAIN owed \ raced /\ owed[f] = v
           Well(b, cs) == /\ Has(b, f, v) \/ \E l \in Lines : Carries(cs[l], f, v)
                          /\ \A l \in Lines : Spares(cs[l], f, v)
<1> HIDE DEF v
<1>0. SUFFICES Well(server'.buffer, calls')
  BY DEF v
<1>1. Had => Well(server.buffer, calls)
  BY DEF Kept
<1>2. Same => Had
  BY DEF Same, v
<1>3. /\ server.buffer \in Edits /\ owed \in Edits
      /\ \A S : S \subseteq DOMAIN owed => DOMAIN Restrict(owed, S) = S /\ \A g \in S : Restrict(owed, S)[g] = owed[g]
  BY RestrictEdit DEF TypeOK
<1>4. Snapshot \in Slot /\ ~Stages(Snapshot) /\ ~Clears(Snapshot)
  BY NothingIsAnAnswer DEF Stages, Clears
\* A call that stages nothing replaces one that staged nothing, and the buffer stays.
<1>5. ASSUME NEW l \in Lines, NEW c \in Slot, Put(l, c), ~Stages(calls[l]), ~Stages(c), ~Clears(c), Had,
             server'.buffer = server.buffer
      PROVE  Well(server'.buffer, calls')
  <2>1. Spares(c, f, v) /\ ~Carries(calls[l], f, v)
    BY <1>5, OthersSpare
  <2>2. Well(server.buffer, calls)
    BY <1>1, <1>5
  <2>3. \A m \in Lines : Spares(calls'[m], f, v)
    BY <1>5, <2>1, <2>2, SparesStay
  <2>4. (\E m \in Lines : Carries(calls[m], f, v)) => \E m \in Lines : Carries(calls'[m], f, v)
    BY <1>5, <2>1, CarriesStay
  <2> QED BY <1>5, <2>2, <2>3, <2>4
<1>6. CASE UserStep
  <2>1. server' = server
    BY <1>6 DEF UserStep
  <2>2. ~Stages(Idle) /\ ~Clears(Idle)
    BY DEF Stages, Clears, Idle
  <2>3. CASE Quiet
    BY <1>1, <1>2, <2>1, <2>3 DEF Quiet
  <2>4. CASE Calling
    <3>1. PICK l \in Lines, c \in Slot : /\ calls[l] = Idle /\ Put(l, c) /\ ~Stages(c)
                                         /\ (Same /\ ~Clears(c)) \/ (owed' = Nothing /\ raced' = {})
      BY <2>4 DEF Calling
    <3>2. owed' # Nothing
      BY NothingIsAnEdit
    <3>3. Had /\ ~Clears(c) /\ ~Stages(calls[l])
      BY <1>2, <2>2, <3>1, <3>2
    <3> QED BY <1>5, <2>1, <3>1, <3>3
  <2>5. CASE Staging
    <3>1. PICK l \in Lines, body \in Edits, drop \in SUBSET Fields, on \in Config :
             /\ calls[l] = Idle /\ Put(l, StageCall(body, drop, on)) /\ StageCall(body, drop, on) \in Slot
             /\ \A g \in DOMAIN owed' :
                   /\ g \notin drop
                   /\ g \in DOMAIN body => owed'[g] = body[g]
                   /\ g \notin DOMAIN body => g \in DOMAIN owed /\ owed'[g] = owed[g]
             /\ raced' = (raced \ DOMAIN body) \cup (DOMAIN body \cap Touched)
      BY <2>5 DEF Staging
    <3> DEFINE c == StageCall(body, drop, on)
    <3>2. c.kind = "stage" /\ c.at = "sent" /\ c.body = body /\ c.drop = drop
      BY StageCallIs
    <3>3. c \in Slot /\ Put(l, c)
      BY <3>1
    <3> HIDE DEF c
    <3>4. f \notin drop /\ (f \in DOMAIN body => v = body[f]) /\ (f \notin DOMAIN body => f \in DOMAIN owed /\ v = owed[f])
      BY <3>1 DEF v
    <3>5. Spares(c, f, v)
      BY <3>2, <3>4 DEF Spares, Clears
    <3>6. ~Carries(calls[l], f, v)
      BY <2>2, <3>1, OthersSpare
    <3>7. CASE f \in DOMAIN body
      <4>1. f \in Fields /\ f \notin Touched
        BY <3>1, <3>7, EditIsPartial
      <4>2. \A m \in Lines : Spares(calls[m], f, v)
        BY <4>1, UntouchedIs
      <4>3. \A m \in Lines : Spares(calls'[m], f, v)
        BY <3>3, <3>5, <4>2, SparesStay
      <4>4. Carries(c, f, v) /\ calls'[l] = c
        BY <3>2, <3>3, <3>4, <3>7, Lined DEF Carries
      <4> QED BY <4>3, <4>4
    <3>8. CASE f \notin DOMAIN body
      <4>1. Had
        BY <3>1, <3>4, <3>8
      <4>2. Well(server.buffer, calls)
        BY <1>1, <4>1
      <4>3. \A m \in Lines : Spares(calls'[m], f, v)
        BY <3>3, <3>5, <4>2, SparesStay
      <4>4. (\E m \in Lines : Carries(calls[m], f, v)) => \E m \in Lines : Carries(calls'[m], f, v)
        BY <3>3, <3>6, CarriesStay
      <4> QED BY <2>1, <4>2, <4>3, <4>4
    <3> QED BY <3>7, <3>8
  <2> QED BY <1>6, <2>3, <2>4, <2>5 DEF UserStep
<1>7. CASE Passive
  BY <1>2, <1>5, <1>7 DEF Passive
<1>8. CASE Merging
  <2>1. PICK l \in Lines, c \in Slot :
           /\ Put(l, c) /\ At(l, "stage", "sent") /\ c.kind = "stage" /\ c.at = "merged"
           /\ c.body = calls[l].body /\ c.drop = calls[l].drop
           /\ server'.buffer = Over(c.body, server.buffer)
    BY <1>8 DEF Merging
  <2>2. Well(server.buffer, calls)
    BY <1>1, <1>2, <1>8 DEF Merging
  <2>3. calls[l].kind = "stage" /\ calls[l].at = "sent" /\ c.body \in Edits
    BY <2>1, AtAre DEF At
  <2> DEFINE body == c.body
             b == Over(body, server.buffer)
  <2>4. body \in Edits /\ server'.buffer = b
    BY <2>1, <2>3
  <2>5. Spares(calls[l], f, v)
    BY <2>2
  <2>6. Spares(c, f, v) /\ (f \in DOMAIN body => body[f] = v)
    BY <2>1, <2>3, <2>5 DEF Spares, Stages, Clears
  <2> HIDE DEF body
  <2>7. /\ DOMAIN b = DOMAIN body \cup DOMAIN server.buffer
        /\ \A g \in DOMAIN body : b[g] = body[g]
        /\ \A g \in DOMAIN server.buffer \ DOMAIN body : b[g] = server.buffer[g]
    BY <1>3, <2>4, OverEdits
  <2> HIDE DEF b
  <2>8. \A m \in Lines : Spares(calls'[m], f, v)
    BY <2>1, <2>2, <2>6, SparesStay
  <2>9. CASE f \in DOMAIN body
    <3>1. Has(b, f, v)
      BY <2>6, <2>7, <2>9 DEF Has
    <3> QED BY <2>4, <2>8, <3>1
  <2>10. CASE f \notin DOMAIN body
    <3>1. ~Carries(calls[l], f, v)
      BY <2>1, <2>10 DEF Carries, body
    <3>2. (\E m \in Lines : Carries(calls[m], f, v)) => \E m \in Lines : Carries(calls'[m], f, v)
      BY <2>1, <3>1, CarriesStay
    <3>3. Has(server.buffer, f, v) => Has(b, f, v)
      BY <2>7, <2>10 DEF Has
    <3> QED BY <2>2, <2>4, <2>8, <3>2, <3>3
  <2> QED BY <2>9, <2>10
<1>9. CASE Dropping
  <2>1. PICK l \in Lines : /\ Put(l, Snapshot) /\ At(l, "stage", "merged")
                           /\ server'.buffer = Restrict(server.buffer, DOMAIN server.buffer \ calls[l].drop)
    BY <1>9 DEF Dropping
  <2>2. Well(server.buffer, calls)
    BY <1>1, <1>2, <1>9 DEF Dropping
  <2>3. Spares(calls[l], f, v) /\ calls[l].kind = "stage" /\ calls[l].at = "merged"
    BY <2>1, <2>2 DEF At
  <2>4. f \notin calls[l].drop /\ ~Carries(calls[l], f, v)
    BY <2>3 DEF Spares, Stages, Carries
  <2>5. Spares(Snapshot, f, v)
    BY <1>4, OthersSpare
  <2>6. \A m \in Lines : Spares(calls'[m], f, v)
    BY <1>4, <2>1, <2>2, <2>5, SparesStay
  <2>7. (\E m \in Lines : Carries(calls[m], f, v)) => \E m \in Lines : Carries(calls'[m], f, v)
    BY <1>4, <2>1, <2>4, CarriesStay
  <2>8. Has(server.buffer, f, v) => Has(server'.buffer, f, v)
    <3> DEFINE S == DOMAIN server.buffer \ calls[l].drop
    <3>1. S \subseteq DOMAIN server.buffer /\ server'.buffer = Restrict(server.buffer, S)
      BY <2>1
    <3>2. Has(server.buffer, f, v) => f \in S
      BY <2>4 DEF Has
    <3> HIDE DEF S
    <3>3. DOMAIN server'.buffer = S /\ \A g \in S : server'.buffer[g] = server.buffer[g]
      BY <1>3, <3>1, RestrictEdit
    <3> QED BY <3>2, <3>3 DEF Has
  <2> QED BY <2>2, <2>6, <2>7, <2>8
<1>10. CASE Discarding
  <2>1. PICK l \in Lines : At(l, "discard", "sent")
    BY <1>10 DEF Discarding
  <2>2. Spares(calls[l], f, v)
    BY <1>1, <1>2, <1>10 DEF Discarding
  <2>3. FALSE
    BY <2>1, <2>2 DEF At, Spares, Clears
  <2> QED BY <2>3
<1>11. CASE Failing
  <2>1. PICK l \in Lines, c \in Slot :
           /\ Put(l, c) /\ At(l, "stage", "sent") /\ c.kind = "stage" /\ c.at = "failed"
           /\ owed' = Restrict(owed, DOMAIN owed \ DOMAIN calls[l].body)
    BY <1>11 DEF Failing
  <2> DEFINE S == DOMAIN owed \ DOMAIN calls[l].body
  <2>2. S \subseteq DOMAIN owed /\ owed' = Restrict(owed, S) /\ (f \in S => f \notin DOMAIN calls[l].body)
    BY <2>1
  <2> HIDE DEF S
  <2>3. f \in S /\ v = owed[f] /\ raced' = raced
    BY <1>3, <1>11, <2>2 DEF Failing, v
  <2>4. Had /\ ~Carries(calls[l], f, v)
    BY <2>2, <2>3 DEF Carries
  <2>5. Well(server.buffer, calls)
    BY <1>1, <2>4
  <2>6. Spares(c, f, v)
    BY <2>1 DEF Spares, Stages, Clears
  <2>7. \A m \in Lines : Spares(calls'[m], f, v)
    BY <2>1, <2>5, <2>6, SparesStay
  <2>8. (\E m \in Lines : Carries(calls[m], f, v)) => \E m \in Lines : Carries(calls'[m], f, v)
    BY <2>1, <2>4, CarriesStay
  <2>9. server' = server
    BY <1>11 DEF Failing
  <2> QED BY <2>5, <2>7, <2>8, <2>9
<1>12. CASE Taking
  <2> DEFINE S == DOMAIN owed \cap Carried
  <2>1. S \subseteq DOMAIN owed /\ owed' = Restrict(owed, S) /\ raced' = raced /\ (f \in S => f \in Carried)
    BY <1>12 DEF Taking, Taken
  <2> HIDE DEF S
  <2>2. f \in S /\ v = owed[f]
    BY <1>3, <2>1 DEF v
  <2>3. Had /\ f \in Carried
    BY <2>1, <2>2
  <2>4. \A m \in Lines : Spares(calls[m], f, v)
    BY <1>1, <2>3
  <2>5. \E m \in Lines : Carries(calls[m], f, v)
    BY <2>3, <2>4, CarriedIs
  <2>6. CASE calls' = calls
    BY <2>4, <2>5, <2>6
  <2>7. CASE \E l \in Lines, c \in Slot : Put(l, c) /\ ~Stages(calls[l]) /\ ~Stages(c) /\ ~Clears(c)
    <3>1. PICK l \in Lines, c \in Slot : Put(l, c) /\ ~Stages(calls[l]) /\ ~Stages(c) /\ ~Clears(c)
      BY <2>7
    <3>2. Spares(c, f, v) /\ ~Carries(calls[l], f, v)
      BY <3>1, OthersSpare
    <3>3. \A m \in Lines : Spares(calls'[m], f, v)
      BY <2>4, <3>1, <3>2, SparesStay
    <3>4. \E m \in Lines : Carries(calls'[m], f, v)
      BY <2>5, <3>1, <3>2, CarriesStay
    <3> QED BY <3>3, <3>4
  <2> QED BY <1>12, <2>6, <2>7 DEF Taking
<1>13. CASE Intruding
  <2>1. PICK body \in Edits :
           /\ LET b == Over(body, server.buffer) IN server'.buffer = Restrict(b, {g \in DOMAIN b : b[g] # server.running[g]})
           /\ owed' = Restrict(owed, {g \in DOMAIN owed \ DOMAIN body : g \in Carried \/ owed[g] # server.running[g]})
    BY <1>13 DEF Intruding
  <2> DEFINE b == Over(body, server.buffer)
             S == {g \in DOMAIN b : b[g] # server.running[g]}
             T == {g \in DOMAIN owed \ DOMAIN body : g \in Carried \/ owed[g] # server.running[g]}
  <2>2. /\ b \in Edits /\ DOMAIN b = DOMAIN body \cup DOMAIN server.buffer
        /\ \A g \in DOMAIN server.buffer \ DOMAIN body : b[g] = server.buffer[g]
    BY <1>3, OverEdits
  <2>3. server'.buffer = Restrict(b, S) /\ owed' = Restrict(owed, T) /\ calls' = calls /\ raced' = raced
    BY <1>13, <2>1 DEF Intruding
  <2>4. /\ S \subseteq DOMAIN b /\ (f \in DOMAIN b /\ b[f] # server.running[f] => f \in S)
        /\ T \subseteq DOMAIN owed /\ (f \in T => f \notin DOMAIN body /\ (f \in Carried \/ owed[f] # server.running[f]))
    OBVIOUS
  <2> HIDE DEF b, S, T
  <2>5. f \in T /\ v = owed[f]
    BY <1>3, <2>3, <2>4 DEF v
  <2>6. Had
    BY <2>3, <2>4, <2>5
  <2>7. Well(server.buffer, calls)
    BY <1>1, <2>6
  <2>8. DOMAIN server'.buffer = S /\ \A g \in S : server'.buffer[g] = b[g]
    BY <2>2, <2>3, <2>4, RestrictEdit
  <2>9. CASE f \in Carried
    <3>1. \E m \in Lines : Carries(calls[m], f, v)
      BY <2>7, <2>9, CarriedIs
    <3> QED BY <2>3, <2>7, <3>1
  <2>10. CASE f \notin Carried
    <3>1. v # server.running[f] /\ f \notin DOMAIN body
      BY <2>4, <2>5, <2>10
    <3>2. Has(server.buffer, f, v) => Has(server'.buffer, f, v)
      BY <2>2, <2>4, <2>8, <3>1 DEF Has
    <3> QED BY <2>3, <2>7, <3>2
  <2> QED BY <2>9, <2>10
<1>14. CASE UNCHANGED vars
  <2>1. Same /\ server' = server /\ calls' = calls
    BY <1>14 DEF vars, Same
  <2> QED BY <1>1, <1>2, <2>1
<1> QED BY <1>6, <1>7, <1>8, <1>9, <1>10, <1>11, <1>12, <1>13, <1>14, StepsAre

-----------------------------------------------------------------------------
(* The theorems.                                                            *)

IInv == TypeOK /\ Judged /\ Asked /\ NothingIdle /\ Kept

LEMMA InitIInv == Init => IInv
<1> SUFFICES ASSUME Init PROVE IInv
  OBVIOUS
<1>1. TypeOK
  BY TypeInit
<1>2. \A l \in Lines : calls[l].kind = "idle"
  BY DEF Init, Idle
<1>3. DOMAIN owed = {} /\ DOMAIN server.buffer = {} /\ page.acknowledged = FALSE
  BY NothingIsAnEdit DEF Init
<1> QED BY <1>1, <1>2, <1>3 DEF IInv, Judged, Judges, Stages, Asked, Asks, NothingIdle, Kept

LEMMA IInvStep == IInv /\ [Next]_vars => IInv'
BY TypeStep, JudgedStep, AskedStep, IdleStep, KeptStep DEF IInv

\* The page, the server and every call under way have their types.
THEOREM TypeCorrect == Spec => []TypeOK
BY TypeInit, TypeStep, PTL DEF Spec

\* Whatever order the calls under way are served in, step by step, answered or failing: what
\* the user changed stays, if no other call touched the setting when it was edited.
THEOREM NoChangeEverLost == Spec => []NoChangeLost
<1>1. IInv => NoChangeLost
  BY KeptIsEnough DEF IInv
<1> QED BY <1>1, InitIInv, IInvStep, PTL DEF Spec

\* The buffer keeps no entry that reads as no change, but for what a call half way is about
\* to drop, unless an edit was judged against a configuration that did not run.
THEOREM NothingStaysIdle == Spec => []NothingIdle
<1>1. IInv => NothingIdle
  BY DEF IInv
<1> QED BY <1>1, InitIInv, IInvStep, PTL DEF Spec

\* No apply brings about a pin the page showed coming unless the user has said yes to one.
THEOREM PinsAreConfirmed == Spec => PinIsConfirmed
<1> DEFINE A == \A l \in Lines :
                  ApplyLands(l) /\ Pins(server'.running) /\ ~Pins(server.running)
                      /\ calls[l].on = server.running /\ calls[l].target = server'.running => said
<1>1. IInv => A
  BY DEF IInv, Asked, Asks, ApplyLands, At
<1>2. IInv /\ [Next]_vars => [A]_vars
  BY <1>1
<1> QED BY <1>2, InitIInv, IInvStep, PTL DEF Spec, PinIsConfirmed

=============================================================================
