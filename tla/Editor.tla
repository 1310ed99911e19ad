------------------------------- MODULE Editor -------------------------------
(***************************************************************************)
(* One browser page editing the daemon's configuration: the staged buffer     *)
(* that lives on the server, the page's mirrors of it and of the running       *)
(* configuration, a previewed preset, the one open question, and the calls     *)
(* under way between page and server.                                        *)
(*                                                                          *)
(* Every edit is merged into the mirror at once and posted; what the server   *)
(* echoes, and what the poll reads, replace the mirror whenever they arrive.   *)
(* Nothing orders the calls under way: each is served by a thread of its own,  *)
(* step by step, and answered when it comes to it; it may also come to nothing. *)
(* Another page edits, discards and applies meanwhile.                        *)
(***************************************************************************)
EXTENDS Naturals, FiniteSets, Functions

CONSTANTS
    Presets,     \* preset name -> configuration; the names are what the picker lists
    First,       \* the active preset
    None,
    Choices,     \* <<setting, value>>: the edits that are made on this page
    Others,      \* and those made on the other one
    Lines,       \* the calls the page may have under way at once
    MaxMoves,    \* bound on the user's edits, picks, applies and discards taken together
    MaxEvents    \* and on failures and the other page's steps taken together

\* Three settings that bear on each other: Direct SDM pins the volume at -3 dB unless
\* either fixed-volume mode has it there already.
Fields == {"direct_sdm", "fixed_volume", "volume_fixed"}
Levels == {0, 1}
Config == [Fields -> Levels]
Edits == UNION {[S -> Levels] : S \in SUBSET Fields}
Nothing == [f \in {} |-> 0]

Names == DOMAIN Presets

ASSUME PresetsAssumption == First \in Names /\ \A n \in Names : Presets[n] \in Config
ASSUME ChoicesAssumption == Choices \cup Others \subseteq Fields \X Levels
ASSUME BoundsAssumption == {MaxMoves, MaxEvents} \subseteq Nat

VARIABLES
    page,     \* mirrors (staged, config, active), the preview, acknowledgement, open question, applying
    server,   \* the staged buffer, the running configuration, the preset it was loaded from
    calls,    \* line -> the call under way on it
    owed,     \* history: what the user changed and no apply, discard, other page or failure has taken
    raced,    \* history: settings last edited beside another call under way that touches them
    stale,    \* history: an edit was judged against a configuration not running since the buffer was last empty
    said,     \* history: the user said yes to the pin
    spent     \* environment steps against their bounds

vars == <<page, server, calls, owed, raced, stale, said, spent>>
history == <<owed, raced, stale, said>>

Bounded == {"moves", "events"}
Budget == [moves |-> MaxMoves, events |-> MaxEvents]
Spend(k) == spent[k] < Budget[k] /\ spent' = [spent EXCEPT ![k] = @ + 1]

Idle == [kind |-> "idle"]

Init ==
    /\ page = [staged |-> Nothing, config |-> Presets[First], active |-> First, preview |-> None,
               acknowledged |-> FALSE, question |-> None, applying |-> FALSE]
    /\ server = [buffer |-> Nothing, running |-> Presets[First], active |-> First]
    /\ calls = [l \in Lines |-> Idle]
    /\ owed = Nothing /\ raced = {} /\ stale = FALSE /\ said = FALSE
    /\ spent = [k \in Bounded |-> 0]

-----------------------------------------------------------------------------
(* Three trees: staged over the previewed preset over the running form.      *)

Over(es, c) == [f \in DOMAIN c \cup DOMAIN es |-> IF f \in DOMAIN es THEN es[f] ELSE c[f]]
Baseline(p) == IF p.preview = None THEN p.config ELSE Presets[p.preview]
Effective(p) == Over(p.staged, Baseline(p))
\* What is staged and reads as no change.
Clean(p) == {f \in DOMAIN p.staged : p.staged[f] = Baseline(p)[f]}
HasPending(p) == DOMAIN p.staged # Clean(p) \/ p.preview # None

\* The fixed-volume modes are exclusive: switching one on switches the other off.
Coupled(f, v) ==
    CASE f = "fixed_volume" /\ v = 1 -> [g \in {"fixed_volume", "volume_fixed"} |-> IF g = f THEN 1 ELSE 0]
      [] f = "volume_fixed" /\ v = 1 -> [g \in {"fixed_volume", "volume_fixed"} |-> IF g = f THEN 1 ELSE 0]
      [] OTHER -> [g \in {f} |-> v]

AtMinusThree(c) == c["fixed_volume"] = 1 \/ c["volume_fixed"] = 1
Pins(c) == c["direct_sdm"] = 1 /\ ~AtMinusThree(c)

\* pruneAcknowledged: a yes does not outlive the hazard it was about.
Pruned(p) == [p EXCEPT !.acknowledged = @ /\ Pins(Effective(p))]

-----------------------------------------------------------------------------
(* The page.                                                                *)

Room == \E l \in Lines : calls[l] = Idle
Send(c) == calls' = [calls EXCEPT ![CHOOSE l \in Lines : calls[l] = Idle] = c]

\* A second question withdraws the first: the edit or the apply that awaited it ends.
Open(p, q) == [p EXCEPT !.question = q]

\* A stage call with its drop list, and (history) the configuration that was judged on.
StageCall(body, drop, on) == [kind |-> "stage", at |-> "sent", body |-> body, drop |-> drop, on |-> on]

\* The settings a call has yet to put into the buffer or to take out of it.
Touches(c) ==
    CASE c.kind = "stage" /\ c.at = "sent" -> DOMAIN c.body \cup c.drop
      [] c.kind = "stage" /\ c.at = "merged" -> c.drop
      [] c.kind = "discard" /\ c.at = "sent" -> Fields
      [] OTHER -> {}
Touched == UNION {Touches(calls[l]) : l \in Lines}

\* What the user is owed once an edit is made (history): everything changed but what the
\* page now shows as no change.
Owing(body, next) ==
    LET o == Over(body, owed) IN
    /\ owed' = Restrict(o, DOMAIN o \ Clean(next))
    /\ raced' = (raced \ DOMAIN body) \cup (DOMAIN body \cap Touched)

\* Mutant: the entries that read clean are collected ahead of the merge.
StageJudgedFirst(p, f, v) ==
    LET body == Coupled(f, v)
        next == [p EXCEPT !.staged = Over(body, @)]
    IN  page' = next /\ Send(StageCall(body, Clean(p), Baseline(p))) /\ Owing(body, next)

\* The rest of edit(), once nothing is left to ask.  The drop list is judged after the merge.
Stage(p, f, v) ==
    LET body == Coupled(f, v)
        next == [p EXCEPT !.staged = Over(body, @)]
    IN  page' = next /\ Send(StageCall(body, Clean(next), Baseline(p))) /\ Owing(body, next)

\* An edit that would pin the volume asks first; any other is staged on the spot.
Edit(f, v) ==
    /\ Room /\ Spend("moves")
    /\ IF f = "direct_sdm" /\ v = 1 /\ ~AtMinusThree(Effective(page))
       THEN page' = Open(page, [owner |-> "edit", field |-> f, value |-> v]) /\ UNCHANGED <<calls, owed, raced>>
       ELSE Stage(page, f, v)
    /\ UNCHANGED <<server, stale, said>>

\* commitApply: a switch to the preset already loaded is not sent.
Commit(p) ==
    /\ page' = [p EXCEPT !.applying = TRUE]
    /\ Send([kind |-> "apply", at |-> "sent", to |-> IF p.preview = p.active THEN None ELSE p.preview,
             fields |-> Nothing, on |-> p.config, target |-> Effective(p)])

\* Mutant: the preset preview is committed without the second look at the whole.
ApplyUnguarded ==
    /\ ~page.applying /\ HasPending(page) /\ Room /\ Spend("moves") /\ Commit(page)
    /\ UNCHANGED <<server, history>>

\* applyAll: the staged picture as a whole is looked at again, whatever put it together.
ApplyAll ==
    /\ ~page.applying /\ HasPending(page) /\ Room /\ Spend("moves")
    /\ LET p == Pruned(page) IN
       IF Pins(Effective(p)) /\ ~Pins(p.config) /\ ~p.acknowledged
       THEN page' = Open(p, [owner |-> "apply"]) /\ UNCHANGED calls
       ELSE Commit(p)
    /\ UNCHANGED <<server, history>>

Answer(yes) ==
    /\ page.question # None
    /\ LET q == page.question
           p == [page EXCEPT !.question = None, !.acknowledged = @ \/ yes]
       IN  IF ~yes THEN page' = p /\ UNCHANGED <<calls, owed, raced>>
           ELSE Room /\ IF q.owner = "edit" THEN Stage(p, q.field, q.value) ELSE Commit(p) /\ UNCHANGED <<owed, raced>>
    /\ said' = (said \/ yes)
    /\ UNCHANGED <<server, stale, spent>>

\* previewPreset; the preset already active only ends a preview.
Pick(n) ==
    /\ Room /\ Spend("moves")
    /\ IF n = page.active THEN page' = [page EXCEPT !.preview = None] /\ UNCHANGED calls
       ELSE Send([kind |-> "preset", at |-> "sent", name |-> n]) /\ UNCHANGED page
    /\ UNCHANGED <<server, history>>

DiscardAll ==
    /\ ~page.applying /\ HasPending(page) /\ Room /\ Spend("moves")
    /\ page' = [page EXCEPT !.preview = None] /\ Send([kind |-> "discard", at |-> "sent"])
    /\ owed' = Nothing /\ raced' = {}
    /\ UNCHANGED <<server, stale, said>>

\* refreshConfig: the forms first, then the buffer.
Refresh(after) == [kind |-> "config", at |-> "sent", running |-> Presets[First], active |-> First, after |-> after]
Reread(after) == [kind |-> "pending", at |-> "sent", echo |-> Nothing, after |-> after]
Poll == Room /\ Send(Refresh("poll")) /\ UNCHANGED <<page, server, history, spent>>

\* Mutant: the poll leaves a mirror alone that holds edits.
ReceivedOnce(c) ==
    CASE c.kind = "snapshot" /\ c.at = "answered" -> Pruned([page EXCEPT !.staged = c.echo])
      [] c.kind = "config" /\ c.at = "answered" -> [page EXCEPT !.config = c.running, !.active = c.active]
      [] c.kind = "preset" /\ c.at = "answered" -> [page EXCEPT !.preview = c.name]
      [] c.kind = "pending" ->
            [page EXCEPT !.staged = IF c.at = "answered" /\ @ = Nothing THEN c.echo ELSE @,
                         !.applying = @ /\ c.after = "poll",
                         !.preview = IF c.after = "applied" THEN None ELSE @]
      [] OTHER -> page

\* What the page makes of an answer.  The echo of a stage or a discard replaces the mirror; a
\* call that failed leaves it; an apply has mirrored everything again before it lets go.
Received(c) ==
    CASE c.kind = "snapshot" /\ c.at = "answered" -> Pruned([page EXCEPT !.staged = c.echo])
      [] c.kind = "config" /\ c.at = "answered" -> [page EXCEPT !.config = c.running, !.active = c.active]
      [] c.kind = "preset" /\ c.at = "answered" -> [page EXCEPT !.preview = c.name]
      [] c.kind = "pending" ->
            [page EXCEPT !.staged = IF c.at = "answered" THEN c.echo ELSE @,
                         !.applying = @ /\ c.after = "poll",
                         !.preview = IF c.after = "applied" THEN None ELSE @]
      [] OTHER -> page

Following(c) ==
    CASE c.kind = "apply" -> Refresh("failed")
      [] c.kind = "verdict" -> Refresh(IF c.at = "answered" THEN c.after ELSE "failed")
      [] c.kind = "config" -> Reread(c.after)
      [] OTHER -> Idle

\* Answers arrive in any order.
Receive(l) ==
    /\ calls[l] # Idle /\ calls[l].at \in {"answered", "failed"}
    /\ page' = Received(calls[l]) /\ calls' = [calls EXCEPT ![l] = Following(calls[l])]
    /\ UNCHANGED <<server, history, spent>>

-----------------------------------------------------------------------------
(* The server: every call goes through its steps, whatever the others do.    *)

At(l, kind, at) == calls[l] # Idle /\ calls[l].kind = kind /\ calls[l].at = at
Moves(l, c) == calls' = [calls EXCEPT ![l] = c]

\* What no call still carries is gone with the buffer.
Carried == UNION {DOMAIN calls[l].body : l \in {m \in Lines : At(m, "stage", "sent")}}
Taken == owed' = Restrict(owed, DOMAIN owed \cap Carried) /\ raced' = raced /\ stale' = FALSE

\* A stage call merges its edits, then drops what it reports clean: one request both stages
\* a field and reports it clean.
Merge(l) ==
    /\ At(l, "stage", "sent")
    /\ server' = [server EXCEPT !.buffer = Over(calls[l].body, @)]
    /\ Moves(l, [calls[l] EXCEPT !.at = "merged"])
    /\ stale' = (stale \/ calls[l].on # server.running)
    /\ UNCHANGED <<page, owed, raced, said, spent>>

\* The buffer as it stands is what a stage or a discard is answered with, in the end.
Snapshot == [kind |-> "snapshot", at |-> "sent", echo |-> Nothing]

\* Mutant: the entries reported clean are dropped ahead of the merge.
DropFirst(l) ==
    /\ At(l, "stage", "merged")
    /\ server' = [server EXCEPT !.buffer = Restrict(@, DOMAIN @ \ (calls[l].drop \ DOMAIN calls[l].body))]
    /\ Moves(l, Snapshot)
    /\ UNCHANGED <<page, history, spent>>

Drop(l) ==
    /\ At(l, "stage", "merged")
    /\ server' = [server EXCEPT !.buffer = Restrict(@, DOMAIN @ \ calls[l].drop)]
    /\ Moves(l, Snapshot)
    /\ UNCHANGED <<page, history, spent>>

Discard(l) ==
    /\ At(l, "discard", "sent")
    /\ server' = [server EXCEPT !.buffer = Nothing] /\ stale' = FALSE
    /\ Moves(l, Snapshot)
    /\ UNCHANGED <<page, owed, raced, said, spent>>

Read(l) ==
    /\ calls[l] # Idle /\ calls[l].at = "sent"
    /\ \/ calls[l].kind \in {"snapshot", "pending"}
          /\ Moves(l, [calls[l] EXCEPT !.at = "answered", !.echo = server.buffer])
       \/ calls[l].kind = "config"
          /\ Moves(l, [calls[l] EXCEPT !.at = "answered", !.running = server.running, !.active = server.active])
       \/ calls[l].kind = "preset" /\ Moves(l, [calls[l] EXCEPT !.at = "answered"])
    /\ UNCHANGED <<page, server, history, spent>>

Verdict(after) == [kind |-> "verdict", at |-> "answered", after |-> after]

\* An apply with nothing staged and no switch is refused.
ApplyBegins(l) ==
    /\ At(l, "apply", "sent")
    /\ Moves(l, IF server.buffer = Nothing /\ calls[l].to = None THEN Verdict("refused")
                ELSE [calls[l] EXCEPT !.at = "begun", !.fields = server.buffer])
    /\ UNCHANGED <<page, server, history, spent>>

\* What is running once this apply has taken.
Applied(c) == Over(c.fields, IF c.to = None THEN server.running ELSE Presets[c.to])

\* It took: the buffer is cleared, as it stands by now.
ApplyLands(l) ==
    /\ At(l, "apply", "begun")
    /\ server' = [buffer |-> Nothing, running |-> Applied(calls[l]),
                  active |-> IF calls[l].to = None THEN server.active ELSE calls[l].to]
    /\ Taken
    /\ Moves(l, Verdict("applied"))
    /\ UNCHANGED <<page, said, spent>>

\* It did not: the buffer stays, whatever of it is playing by now.
ApplyFails(l) ==
    /\ At(l, "apply", "begun") /\ Spend("events")
    /\ server' \in {server, [server EXCEPT !.running = Applied(calls[l])]}
    /\ stale' = (stale \/ server' # server)
    /\ Moves(l, Verdict("failed"))
    /\ UNCHANGED <<page, owed, raced, said>>

\* A call that never gets there, or whose answer never comes back.
CallFails(l) ==
    /\ calls[l] # Idle /\ calls[l].at \in {"sent", "answered"} /\ Spend("events")
    /\ Moves(l, [calls[l] EXCEPT !.at = "failed"])
    /\ owed' = IF calls[l].kind = "stage" THEN Restrict(owed, DOMAIN owed \ DOMAIN calls[l].body) ELSE owed
    /\ UNCHANGED <<page, server, raced, stale, said>>

Serve(l) == Merge(l) \/ Drop(l) \/ Discard(l) \/ Read(l) \/ ApplyBegins(l)

-----------------------------------------------------------------------------
(* Another page, which sees everything afresh.                              *)

OtherStages(f, v) ==
    /\ Spend("events")
    /\ LET b == Over(Coupled(f, v), server.buffer) IN
       /\ server' = [server EXCEPT !.buffer = Restrict(b, {g \in DOMAIN b : b[g] # server.running[g]})]
       /\ owed' = Restrict(owed, {g \in DOMAIN owed \ DOMAIN Coupled(f, v) : g \in Carried \/ owed[g] # server.running[g]})
    /\ UNCHANGED <<page, calls, raced, stale, said>>

OtherDiscards ==
    /\ Spend("events") /\ server' = [server EXCEPT !.buffer = Nothing]
    /\ Taken
    /\ UNCHANGED <<page, calls, said>>

OtherApplies(to) ==
    /\ Spend("events") /\ (\A l \in Lines : ~At(l, "apply", "begun")) /\ (server.buffer # Nothing \/ to # None)
    /\ server' = [buffer |-> Nothing, running |-> Applied([fields |-> server.buffer, to |-> to]),
                  active |-> IF to = None THEN server.active ELSE to]
    /\ Taken
    /\ UNCHANGED <<page, calls, said>>

-----------------------------------------------------------------------------
Next ==
    \/ \E c \in Choices : Edit(c[1], c[2])
    \/ \E c \in Others : OtherStages(c[1], c[2])
    \/ \E n \in Names : Pick(n)
    \/ \E yes \in BOOLEAN : Answer(yes)
    \/ ApplyAll \/ DiscardAll \/ Poll
    \/ \E l \in Lines : Receive(l) \/ Serve(l) \/ ApplyLands(l) \/ ApplyFails(l) \/ CallFails(l)
    \/ OtherDiscards \/ \E to \in Names \cup {None} : OtherApplies(to)

Spec == Init /\ [][Next]_vars

\* A call goes on: it has one step to take at a time.
Proceeds(l) == Serve(l) \/ ApplyLands(l) \/ ApplyFails(l) \/ Receive(l)

\* The timer polls again and again; every call is served, an apply comes to its end, and
\* every answer arrives.
FairSpec == Spec /\ WF_vars(Poll) /\ \A l \in Lines : WF_vars(Proceeds(l))

-----------------------------------------------------------------------------
(* Properties.                                                              *)

Question == [owner : {"edit"}, field : Fields, value : Levels] \cup [owner : {"apply"}]
Occasions == {"poll", "applied", "refused", "failed"}
Served == {"sent", "answered", "failed"}

Page == [staged : Edits, config : Config, active : Names, preview : Names \cup {None},
         acknowledged : BOOLEAN, question : Question \cup {None}, applying : BOOLEAN]
Call == [kind : {"stage"}, at : {"sent", "merged", "failed"}, body : Edits, drop : SUBSET Fields, on : Config]
            \cup [kind : {"discard"}, at : Served] \cup [kind : {"preset"}, at : Served, name : Names]
            \cup [kind : {"config"}, at : Served, running : Config, active : Names, after : Occasions]
            \cup [kind : {"pending"}, at : Served, echo : Edits, after : Occasions]
            \cup [kind : {"snapshot"}, at : Served, echo : Edits]
            \cup [kind : {"apply"}, at : {"sent", "begun", "failed"}, to : Names \cup {None}, fields : Edits,
                  on : Config, target : Config]
            \cup [kind : {"verdict"}, at : Served, after : Occasions]

TypeOK ==
    /\ page \in Page /\ server \in [buffer : Edits, running : Config, active : Names]
    /\ calls \in [Lines -> Call \cup {Idle}]
    /\ owed \in Edits /\ raced \in SUBSET Fields /\ stale \in BOOLEAN /\ said \in BOOLEAN
    /\ spent \in [Bounded -> Nat] /\ \A k \in Bounded : spent[k] <= Budget[k]

\* In the buffer, or on its way there, at the value chosen last.
Held(f) ==
    \/ f \in DOMAIN server.buffer /\ server.buffer[f] = owed[f]
    \/ \E l \in Lines : At(l, "stage", "sent") /\ f \in DOMAIN calls[l].body /\ calls[l].body[f] = owed[f]

\* What the user changed stays, until an apply, a discard or another page takes it, its call
\* fails, or the page itself shows it as no change: no crossing of calls loses it, in whatever
\* order they are served and whichever steps of theirs lie between, so long as no other call
\* under way touched the setting when it was edited.
NoChangeLost == \A f \in DOMAIN owed \ raced : Held(f)

\* The same of every setting.  The code does not keep to it: nothing orders two calls under way.
NoEditOvertaken == \A f \in DOMAIN owed : Held(f)

\* No drop list is judged on an entry an older answer had set back.  The code does not keep
\* to it: edit() adopts every echo, where stageHttp() adopts only that of the newest call.
DropsAreCurrent ==
    [][\A l \in Lines, f \in DOMAIN owed \ raced :
          calls[l] = Idle /\ calls'[l] # Idle /\ calls'[l].kind = "stage" /\ f \in calls'[l].drop \ DOMAIN calls'[l].body
              => page.staged[f] = owed[f]]_vars

\* And the buffer holds nothing that is no change, but for what a call half way is about to
\* drop: such an entry counts as nothing on the page and still restarts the daemon with the
\* next apply.
NothingIdle ==
    ~stale => \A f \in DOMAIN server.buffer :
        server.buffer[f] # server.running[f] \/ \E l \in Lines : At(l, "stage", "merged") /\ f \in calls[l].drop

\* A pin the page showed coming, and that was not there before, was said yes to: not
\* necessarily since the last one, because a yes outlives the apply it was given for.
PinIsConfirmed ==
    [][\A l \in Lines :
          ApplyLands(l) /\ Pins(server'.running) /\ ~Pins(server.running)
              /\ calls[l].on = server.running /\ calls[l].target = server'.running => said]_vars

\* Left alone, the page ends up with the buffer and the configuration the server has,
\* however the echoes and the polls crossed, and lets go of its buttons.
PageFollows ==
    <>[](page.staged = server.buffer /\ page.config = server.running /\ page.active = server.active /\ ~page.applying)
=============================================================================
