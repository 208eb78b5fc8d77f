---------------------------- MODULE TurnInjection ----------------------------
(***************************************************************************)
(* The life of the private-preference block of a chat turn, from the       *)
(* on_llm_request hook to the end of the agent run, under invalidations    *)
(* that may arrive at every await: pref_profile/injection.py with the hook *)
(* bindings of main.py and the request assembly of the host's runner       *)
(* (integration/host-v3).  Everything runs on one asyncio loop, so an      *)
(* action is the code between two awaits.                                  *)
(*                                                                         *)
(* A turn is a value of Turns: it stands for the address of the event      *)
(* object (the registry is keyed by id(event)), so it is used again by a   *)
(* later event once the earlier one has been collected.                    *)
(***************************************************************************)
EXTENDS Naturals

CONSTANTS
  Users,       \* user identities
  NoUser,      \* the sender of no message
  Turns,       \* addresses of event objects
  MaxEpoch,    \* bound on the epoch counter of a user, counted from the start
  HostV3,      \* the host carries the source -> runtime mapping patch
  OtherHooks,  \* other plugins copy and remove temporary parts
  Reruns       \* the host may send an event through the request hooks twice

ASSUME UserAssumption == NoUser \notin Users
ASSUME EpochAssumption == MaxEpoch \in Nat
ASSUME SwitchAssumption == {HostV3, OtherHooks, Reruns} \subseteq BOOLEAN

VARIABLES
  cfg,    \* admin_enabled, the plugin's activated flag, the store being open
  users,  \* user_state rows: enabled and epoch
  turn,   \* the event and its coroutine
  req,    \* the ProviderRequest and the message assembled from it
  rec     \* the TurnRecord and the STATE extra

vars == <<cfg, users, turn, req, rec>>

-----------------------------------------------------------------------------
(* Data.                                                                   *)

InFlight == {"persona", "loading", "hooks", "ready", "assembling", "assembled",
             "running"}
Phases == {"idle", "over"} \cup InFlight

\* consent, wire and blocks are history, read by the properties only: what the
\* user's side says of this request, what its last provider call since then
\* carried, and how many blocks were appended for the event.
TurnFields == [phase : Phases, who : Users \cup {NoUser}, snap : 0..MaxEpoch,
               done : BOOLEAN, rerun : BOOLEAN, wire : {"none", "plain", "guided"},
               consent : {"none", "granted", "withdrawn"}, blocks : Nat]
TurnType == {x \in TurnFields : x.phase # "idle" => x.who \in Users}

\* own: the block is in extra_user_content_parts; mark: it is blanked and carries
\* _source_invalidated; block: its serialised copy; rt: the runtime instance;
\* copies: tokens of other plugins' temporary copies (0 initial, 1 rotated);
\* marker and pairs: _extra_runtime_channel and an own _extra_runtime_pairs entry.
ReqType == [own : BOOLEAN, mark : BOOLEAN, block : {"none", "text"},
            rt : {"none", "text", "blank"}, copies : SUBSET {0, 1},
            marker : BOOLEAN, pairs : BOOLEAN]

\* attach: no run context yet, one that is alive, one that was collected.
RecType == [held : BOOLEAN, state : BOOLEAN, dead : BOOLEAN, tok : {0, 1},
            attach : {"no", "live", "lost"}, channel : {"token", "identity"}]

NoReq == [own |-> FALSE, mark |-> FALSE, block |-> "none", rt |-> "none",
          copies |-> {}, marker |-> FALSE, pairs |-> FALSE]
NoRec == [held |-> FALSE, state |-> FALSE, dead |-> FALSE, tok |-> 0,
          attach |-> "no", channel |-> "token"]
NoTurn(u) == [phase |-> "idle", who |-> u, snap |-> 0, done |-> FALSE,
              rerun |-> FALSE, wire |-> "none", consent |-> "none", blocks |-> 0]

Init ==
  /\ cfg = [admin |-> TRUE, active |-> TRUE, open |-> TRUE]
  /\ users \in [Users -> [enabled : BOOLEAN, epoch : {0}]]
  /\ turn = [t \in Turns |-> NoTurn(NoUser)]
  /\ req = [t \in Turns |-> NoReq]
  /\ rec = [t \in Turns |-> NoRec]

-----------------------------------------------------------------------------
(* Helpers of the injector and of the registry.                            *)

\* Mutant: the epoch of the snapshot is not compared.
ValidAnyEpoch(t) == cfg.admin /\ cfg.open /\ users[turn[t].who].enabled

\* _still_valid: admin, the store readable, enabled, the epoch of the snapshot.
Valid(t) ==
  /\ cfg.admin /\ cfg.open
  /\ users[turn[t].who].enabled
  /\ users[turn[t].who].epoch = turn[t].snap

\* A read of the store may also raise, which every check takes for invalid.
CheckResults(t) == {Valid(t) /\ cfg.active, FALSE}

GoTo(t, p) == turn' = [turn EXCEPT ![t].phase = p]

\* _blank_runtime_parts: by the mapping on the identity channel, else every
\* temporary part that carries the current token.
BlankRuntime(q, r) ==
  [q EXCEPT
     !.rt = IF q.rt = "text" /\ (r.channel = "token" \/ q.pairs)
            THEN "blank" ELSE @,
     !.copies = IF r.channel = "token" THEN @ \ {r.tok} ELSE @]

\* _blank_record: off the request, blank through the request's mapping (which
\* settles the channel), mark the source, then the attached run context.
BlankedRec(q, r) ==
  [r EXCEPT !.dead = TRUE,
            !.channel = IF r.state /\ q.pairs THEN "identity" ELSE @]
\* Mutant of BlankedReq: a source that was serialised already is not marked.
BlankedReqUnmarked(q, r) ==
  LET unlinked == [q EXCEPT !.own = IF r.state THEN FALSE ELSE @,
                            !.rt = IF r.state /\ q.pairs /\ q.rt = "text"
                                   THEN "blank" ELSE @]
  IN IF r.attach = "live" THEN BlankRuntime(unlinked, BlankedRec(q, r))
                          ELSE unlinked
BlankedReq(q, r) ==
  LET unlinked == [q EXCEPT !.own = IF r.state THEN FALSE ELSE @,
                            !.mark = TRUE,
                            !.rt = IF r.state /\ q.pairs /\ q.rt = "text"
                                   THEN "blank" ELSE @]
  IN IF r.attach = "live" THEN BlankRuntime(unlinked, BlankedRec(q, r))
                          ELSE unlinked

\* TurnRegistry.release empties the mapping; the channel marker stays.
Released(q) == [q EXCEPT !.pairs = FALSE]

\* Mutant of Purge: the records attached to a run are taken for finished.
PurgeUnattached(S) ==
  LET hit(t) == t \in S /\ rec[t].held /\ rec[t].attach # "live"
  IN /\ rec' = [t \in Turns |-> IF hit(t) THEN BlankedRec(req[t], rec[t]) ELSE rec[t]]
     /\ req' = [t \in Turns |-> IF hit(t) THEN BlankedReq(req[t], rec[t]) ELSE req[t]]

\* purge_identity: every held record among S; the attached ones are released.
Purge(S) ==
  LET hit(t) == t \in S /\ rec[t].held
      gone(t) == hit(t) /\ rec[t].attach = "live"
  IN /\ rec' = [t \in Turns |-> IF gone(t) THEN NoRec
                                ELSE IF hit(t) THEN BlankedRec(req[t], rec[t])
                                ELSE rec[t]]
     /\ req' = [t \in Turns |->
                  IF gone(t) THEN Released(BlankedReq(req[t], rec[t]))
                  ELSE IF hit(t) THEN BlankedReq(req[t], rec[t])
                  ELSE req[t]]

\* History: what was granted to the turns in S is taken back, whether or not the
\* registry knows them.
Withdraw(S) ==
  turn' = [t \in Turns |->
             IF t \in S /\ turn[t].consent = "granted"
             THEN [turn[t] EXCEPT !.consent = "withdrawn", !.wire = "none"]
             ELSE turn[t]]

\* Mutant of OfUser: every turn is taken for a turn of u.
OfAnyone(u) == Turns
OfUser(u) == {t \in Turns : turn[t].who = u}

-----------------------------------------------------------------------------
(* Invalidations: commands, configuration, unloading.                      *)

\* Mutant of SetEnabled: the epoch is counted down.
SetEnabledBack(u, on) ==
  /\ cfg.open
  /\ users' = [users EXCEPT ![u] = [enabled |-> on, epoch |-> @.epoch - 1]]
  /\ Purge(OfUser(u))
  /\ Withdraw(IF on THEN {} ELSE OfUser(u))
  /\ UNCHANGED cfg

\* set_user_enabled (on or off, even when nothing changes) and clear_user
\* (off, with the entries): one transaction, then the store hook.
SetEnabled(u, on) ==
  /\ cfg.open
  /\ users[u].epoch < MaxEpoch
  /\ users' = [users EXCEPT ![u] = [enabled |-> on, epoch |-> @.epoch + 1]]
  /\ Purge(OfUser(u))
  /\ Withdraw(IF on THEN {} ELSE OfUser(u))
  /\ UNCHANGED cfg

\* Any write to the observed configuration purges every turn; b = cfg.admin is
\* a write to another key.  A turn that has no block yet is not invalidated by
\* admin going off and on again while it waits.
WriteConfig(b) ==
  /\ cfg' = [cfg EXCEPT !.admin = b]
  /\ Purge(Turns)
  /\ Withdraw(IF b THEN {} ELSE {t \in Turns : turn[t].blocks > 0})
  /\ UNCHANGED users

\* The host stops dispatching the plugin's hooks.
Deactivate ==
  /\ cfg.active
  /\ cfg' = [cfg EXCEPT !.active = FALSE]
  /\ UNCHANGED <<users, turn, req, rec>>

\* terminate: purge_all, then the store is closed for good.
Terminate ==
  /\ cfg.open
  /\ cfg' = [cfg EXCEPT !.open = FALSE]
  /\ Purge(Turns)
  /\ Withdraw(Turns)
  /\ UNCHANGED users

-----------------------------------------------------------------------------
(* The on_llm_request hook, priority 20.                                   *)

\* Mutant of HandleBegin: an event that was handled is handled again.
HandleBeginAgain(done) == IF cfg.active /\ cfg.admin THEN "persona" ELSE "hooks"

\* Up to the await of the persona: an event already handled is left alone, and
\* nothing is done while the administrator's switch is off.
HandleBegin(done) ==
  IF cfg.active /\ cfg.admin /\ ~done THEN "persona" ELSE "hooks"

\* A private message of u arrives as a new event object.
Arrive(t, u) ==
  /\ turn[t].phase = "idle"
  /\ turn' = [turn EXCEPT ![t] = [NoTurn(u) EXCEPT !.phase = HandleBegin(FALSE)]]
  /\ req' = [req EXCEPT ![t] = NoReq]
  /\ UNCHANGED <<cfg, users, rec>>

\* The host sends the same event through the hooks once more, with a request of
\* its own, in which a record left by the first run finds nothing.
Rerun(t) ==
  /\ turn[t].phase = "over"
  /\ Reruns /\ ~turn[t].rerun
  /\ turn' = [turn EXCEPT ![t] = [@ EXCEPT !.phase = HandleBegin(turn[t].done),
                                              !.rerun = TRUE]]
  /\ req' = [req EXCEPT ![t] = NoReq]
  /\ UNCHANGED <<cfg, users, rec>>

\* Persona known: enabled and epoch are read once, then the entries, up to the
\* await of the relation loader.
ReadConsent(t) ==
  /\ turn[t].phase = "persona"
  /\ cfg.open /\ users[turn[t].who].enabled
  /\ turn' = [turn EXCEPT ![t] = [@ EXCEPT !.phase = "loading",
                                              !.snap = users[turn[t].who].epoch,
                                              !.consent = "granted"]]
  /\ UNCHANGED <<cfg, users, req, rec>>

\* Not enabled, no persona, an unreadable store (done is left alone); or the
\* bridge forbids the turn or there is no entry (done is set).
HandleSkip(t) ==
  /\ turn[t].phase = "persona"
  /\ \E d \in BOOLEAN :
       /\ d => cfg.open /\ users[turn[t].who].enabled
       /\ turn' = [turn EXCEPT ![t] = [@ EXCEPT !.phase = "hooks", !.done = d]]
  /\ UNCHANGED <<cfg, users, req, rec>>

\* The loader returned and the recheck holds: append the block, register it.
Inject(t) ==
  /\ turn[t].phase = "loading"
  /\ TRUE \in CheckResults(t)
  /\ turn' = [turn EXCEPT ![t] = [@ EXCEPT !.phase = "hooks", !.done = TRUE,
                                              !.blocks = turn[t].blocks + 1]]
  /\ req' = [req EXCEPT ![t].own = TRUE]
  /\ rec' = [rec EXCEPT ![t] = [NoRec EXCEPT !.held = TRUE, !.state = TRUE]]
  /\ UNCHANGED <<cfg, users>>

\* The recheck fails or nothing is rendered (done is set), or the loader raises.
LoadSkip(t) ==
  /\ turn[t].phase = "loading"
  /\ \E d \in BOOLEAN :
       turn' = [turn EXCEPT ![t] = [@ EXCEPT !.phase = "hooks", !.done = d]]
  /\ UNCHANGED <<cfg, users, req, rec>>

-----------------------------------------------------------------------------
(* Other plugins' hooks.                                                   *)

\* A temporary copy of the block, carrying the token of that moment.
CopyBlock(t) ==
  /\ OtherHooks
  /\ \/ turn[t].phase \in {"hooks", "ready"} /\ req[t].own
     \/ turn[t].phase \in {"assembled", "running"} /\ req[t].rt = "text"
  /\ req' = [req EXCEPT ![t].copies = @ \cup {rec[t].tok}]
  /\ UNCHANGED <<cfg, users, turn, rec>>

\* The plugin's own block is taken out of the request or of the message.
RemoveBlock(t) ==
  /\ OtherHooks
  /\ \/ /\ turn[t].phase \in {"hooks", "ready"} /\ req[t].own
        /\ req' = [req EXCEPT ![t].own = FALSE]
     \/ /\ turn[t].phase = "assembled" /\ req[t].rt # "none"
        /\ req' = [req EXCEPT ![t] = [@ EXCEPT !.rt = "none", !.pairs = FALSE]]
  /\ UNCHANGED <<cfg, users, turn, rec>>

-----------------------------------------------------------------------------
(* The on_llm_request hook, priority -1000: rotate the token, recheck.     *)

\* Mutant of Finalize: the token is not rotated.
FinalizeSameToken(t) ==
  /\ turn[t].phase = "hooks"
  /\ GoTo(t, "ready")
  /\ IF ~cfg.active \/ ~(rec[t].state \/ rec[t].held)
     THEN UNCHANGED <<req, rec>>
     ELSE \E ok \in CheckResults(t) :
       IF ok /\ rec[t].state /\ ~rec[t].dead
       THEN UNCHANGED <<req, rec>>
       ELSE /\ rec' = [rec EXCEPT ![t] = NoRec]
            /\ req' = [req EXCEPT ![t].own = FALSE]
  /\ UNCHANGED <<cfg, users>>

Finalize(t) ==
  /\ turn[t].phase = "hooks"
  /\ GoTo(t, "ready")
  /\ IF ~cfg.active \/ ~(rec[t].state \/ rec[t].held)
     THEN UNCHANGED <<req, rec>>
     ELSE \E ok \in CheckResults(t) :
       LET tok == IF rec[t].held /\ ~req[t].mark THEN 1 ELSE rec[t].tok
       IN IF ok /\ rec[t].state /\ ~rec[t].dead
          THEN /\ rec' = [rec EXCEPT ![t].tok = tok]
               /\ UNCHANGED req
          ELSE /\ rec' = [rec EXCEPT ![t] =
                            IF ~rec[t].held \/ rec[t].attach # "live" THEN NoRec
                            ELSE [@ EXCEPT !.dead = TRUE, !.state = FALSE,
                                           !.tok = tok]]
               /\ req' = [req EXCEPT ![t].own = FALSE]
  /\ UNCHANGED <<cfg, users>>

-----------------------------------------------------------------------------
(* The host's runner.                                                      *)

\* assemble_context: the parts are serialised, then media are awaited.
Serialise(t) ==
  /\ turn[t].phase = "ready"
  /\ GoTo(t, "assembling")
  /\ req' = [req EXCEPT ![t].block = IF req[t].own THEN "text" ELSE "none"]
  /\ UNCHANGED <<cfg, users, rec>>

\* Mutant of Bind: what was invalidated during the assembly is not made up for.
BindUncompensated(t) ==
  /\ turn[t].phase = "assembling"
  /\ GoTo(t, "assembled")
  /\ req' = [req EXCEPT ![t] = [@ EXCEPT !.rt = req[t].block, !.marker = HostV3,
                                             !.pairs = HostV3 /\ req[t].block = "text"]]
  /\ UNCHANGED <<cfg, users, rec>>

\* model_validate builds the runtime parts; a patched host pairs them with
\* their sources and blanks those whose source was invalidated meanwhile.  A
\* request without extra parts is not bound.
Bind(t) ==
  LET extras == req[t].block = "text" \/ req[t].copies # {}
  IN /\ turn[t].phase = "assembling"
     /\ GoTo(t, "assembled")
     /\ \E others \in {FALSE, OtherHooks} :
          req' = [req EXCEPT ![t] = [@ EXCEPT
            !.rt = IF HostV3 /\ req[t].mark /\ req[t].block = "text"
                   THEN "blank" ELSE req[t].block,
            !.marker = HostV3 /\ (extras \/ others),
            !.pairs = HostV3 /\ req[t].block = "text"]]
     /\ UNCHANGED <<cfg, users, rec>>

\* Mutants of AgentBegin: the channel is settled by the mapping alone, not by the
\* marker of an emptied one; the turn is not checked again.
AgentBeginUnmarked(t) ==
  /\ turn[t].phase = "assembled"
  /\ GoTo(t, "running")
  /\ IF ~cfg.active \/ ~rec[t].held
     THEN UNCHANGED <<req, rec>>
     ELSE LET r == [rec[t] EXCEPT
                      !.attach = IF @ = "no" THEN "live" ELSE @,
                      !.channel = IF rec[t].state /\ req[t].pairs THEN "identity" ELSE @]
          IN \E ok \in CheckResults(t) :
               IF ok /\ r.state /\ ~r.dead
               THEN rec' = [rec EXCEPT ![t] = r] /\ UNCHANGED req
               ELSE /\ rec' = [rec EXCEPT ![t] = NoRec]
                    /\ req' = [req EXCEPT ![t] = BlankRuntime(@, r)]
  /\ UNCHANGED <<cfg, users>>

AgentBeginUnchecked(t) ==
  /\ turn[t].phase = "assembled"
  /\ GoTo(t, "running")
  /\ rec' = [rec EXCEPT ![t].attach = IF cfg.active /\ rec[t].held /\ @ = "no"
                                       THEN "live" ELSE @]
  /\ UNCHANGED <<cfg, users, req>>

\* on_agent_begin, priority -1000: attach the run context, settle the channel,
\* recheck; an invalid turn is blanked and its record dropped, without emptying the
\* mapping, since the event's state is taken away first.  The host skips the hook of
\* a deactivated plugin.
AgentBegin(t) ==
  /\ turn[t].phase = "assembled"
  /\ GoTo(t, "running")
  /\ IF ~cfg.active \/ ~rec[t].held
     THEN UNCHANGED <<req, rec>>
     ELSE LET mapped == rec[t].state /\ (req[t].marker \/ req[t].pairs)
              r == [rec[t] EXCEPT
                      !.attach = IF @ = "no" THEN "live" ELSE @,
                      !.channel = IF mapped THEN "identity" ELSE @]
          IN \E ok \in CheckResults(t) :
               IF ok /\ r.state /\ ~r.dead
               THEN rec' = [rec EXCEPT ![t] = r] /\ UNCHANGED req
               ELSE /\ rec' = [rec EXCEPT ![t] = NoRec]
                    /\ req' = [req EXCEPT ![t] =
                         IF r.attach = "live" THEN BlankRuntime(@, r) ELSE @]
  /\ UNCHANGED <<cfg, users>>

\* One provider call (a step of the tool loop, a retry or a fallback) sends the
\* messages as they are now.
CallProvider(t) ==
  /\ turn[t].phase = "running"
  /\ turn' = [turn EXCEPT ![t].wire =
                IF req[t].rt = "text" THEN "guided" ELSE "plain"]
  /\ UNCHANGED <<cfg, users, req, rec>>

-----------------------------------------------------------------------------
(* The end of a turn.                                                      *)

\* The request is not sent again; the event may still be referenced.
EndRun(t) ==
  /\ turn[t].phase \in InFlight
  /\ turn' = [turn EXCEPT ![t] = [@ EXCEPT !.phase = "over", !.consent = "none",
                                              !.wire = "none"]]
  /\ req' = [req EXCEPT ![t] = NoReq]

\* TurnRegistry.release of t, which has a record.
Release(t) ==
  /\ rec[t].held
  /\ rec' = [rec EXCEPT ![t] = NoRec]
  /\ req' = [req EXCEPT ![t] = Released(@)]

\* A final answer or an abort the runner sees: on_agent_done releases.
Finish(t) ==
  /\ turn[t].phase = "running"
  /\ EndRun(t)
  /\ rec' = [rec EXCEPT ![t] = IF cfg.active /\ rec[t].held THEN NoRec ELSE @]
  /\ UNCHANGED <<cfg, users>>

\* A stopped hook chain, failed media, an error answer, a cancelled task: the
\* run ends and no hook of the plugin is called.
Abandon(t) ==
  /\ EndRun(t)
  /\ UNCHANGED <<cfg, users, rec>>

\* Mutant of Decorate: an intermediate reply is taken for the end of the turn.
DecorateAny(t) ==
  /\ cfg.active
  /\ turn[t].phase \in {"running", "over"}
  /\ Release(t)
  /\ UNCHANGED <<cfg, users, turn>>

\* The decorating hook, for an intermediate reply too.
Decorate(t) ==
  /\ cfg.active
  /\ turn[t].phase \in {"running", "over"}
  /\ rec[t].dead \/ rec[t].attach # "live"
  /\ Release(t)
  /\ UNCHANGED <<cfg, users, turn>>

\* Mutant of TaskDone: only a dead record is dropped.
TaskDoneDead(t) ==
  /\ turn[t].phase = "over"
  /\ rec[t].attach # "no" /\ rec[t].dead
  /\ Release(t)
  /\ UNCHANGED <<cfg, users, turn>>

\* The done callback of the task that ran on_agent_begin.
TaskDone(t) ==
  /\ turn[t].phase = "over"
  /\ rec[t].attach # "no"
  /\ Release(t)
  /\ UNCHANGED <<cfg, users, turn>>

\* The run context is collected while the event is still referenced.
ContextGone(t) ==
  /\ turn[t].phase = "over"
  /\ rec[t].attach = "live"
  /\ rec' = [rec EXCEPT ![t].attach = "lost"]
  /\ UNCHANGED <<cfg, users, turn, req>>

\* The event object is collected: the weak reference's callback drops the
\* record, and the address is free.
EventGone(t) ==
  /\ turn[t].phase = "over"
  /\ turn' = [turn EXCEPT ![t] = NoTurn(NoUser)]
  /\ req' = [req EXCEPT ![t] = NoReq]
  /\ rec' = [rec EXCEPT ![t] = NoRec]
  /\ UNCHANGED <<cfg, users>>

-----------------------------------------------------------------------------

HostStep(t) ==
  \/ ReadConsent(t) \/ HandleSkip(t) \/ Inject(t)
  \/ LoadSkip(t) \/ Finalize(t) \/ Serialise(t) \/ Bind(t) \/ AgentBegin(t)
  \/ Finish(t) \/ Abandon(t)

TurnStep(t) ==
  \/ HostStep(t) \/ CopyBlock(t) \/ RemoveBlock(t) \/ CallProvider(t)
  \/ Decorate(t) \/ TaskDone(t) \/ ContextGone(t) \/ EventGone(t) \/ Rerun(t)
  \/ \E u \in Users : Arrive(t, u)

Invalidation ==
  \/ \E u \in Users, on \in BOOLEAN : SetEnabled(u, on)
  \/ \E b \in BOOLEAN : WriteConfig(b)
  \/ Deactivate \/ Terminate

Next == Invalidation \/ \E t \in Turns : TurnStep(t)

Spec == Init /\ [][Next]_vars

\* The event loop resumes every coroutine, a run ends (the step loop is bounded)
\* and a finished task runs its callbacks.  Users, administrators and other
\* plugins owe nothing, and nobody promises that an event is ever collected.
Fairness == \A t \in Turns : WF_vars(HostStep(t)) /\ WF_vars(TaskDone(t))

FairSpec == Spec /\ Fairness

-----------------------------------------------------------------------------
(* Properties.                                                             *)

\* Types of the five variables.
TypeOK ==
  /\ cfg \in [admin : BOOLEAN, active : BOOLEAN, open : BOOLEAN]
  /\ users \in [Users -> [enabled : BOOLEAN, epoch : 0..MaxEpoch]]
  /\ turn \in [Turns -> TurnType]
  /\ req \in [Turns -> ReqType]
  /\ rec \in [Turns -> RecType]

\* No provider call carries the block of a turn whose user has since turned the
\* profile off or cleared it, or after the administrator's switch or the unloading:
\* whatever the await the invalidation fell into, and even if the user turned the
\* profile on again meanwhile.  (On a host with the mapping patch.)
NoRevokedDelivery ==
  \A t \in Turns : turn[t].wire = "guided" => turn[t].consent = "granted"

\* The text that the next provider call would send is always one still consented
\* to; the one exception is a host without the mapping patch whose agent-begin
\* hook never ran because the plugin was deactivated meanwhile.
StaleTextOnlyWithoutHook ==
  \A t \in Turns :
    turn[t].phase = "running" /\ req[t].rt = "text" /\ turn[t].consent # "granted"
      => ~HostV3 /\ ~cfg.active /\ rec[t].attach = "no"

\* While a provider call can still carry the block, the registry holds the record
\* through which an invalidation reaches it: an intermediate reply of the tool
\* loop that passes the decorating hook does not drop it.
RecordOutlivesCalls ==
  \A t \in Turns :
    turn[t].phase = "running" /\ req[t].rt = "text"
      => rec[t].held /\ rec[t].state

\* An event that the host sends through the hooks again is never given a second
\* block, whatever became of the first.
BlockOnce == \A t \in Turns : turn[t].blocks <= 1

\* Why no revoked block is sent, step by step of the turn: wherever the block
\* stands, either a live record leads an invalidation to it or its source is
\* marked for the binding to see; and a coroutine that waits for the loader with
\* an older consent will find the epoch moved or the store closed.
Reachable(t) == rec[t].held /\ rec[t].state /\ ~rec[t].dead

WaitingInv(t) ==
  /\ rec[t].held => turn[t].blocks > 0 /\ turn[t].phase # "idle"
  /\ turn[t].blocks > 0 => turn[t].done
  /\ turn[t].phase \in {"idle", "persona", "over"} => turn[t].consent = "none"
  /\ turn[t].phase \in {"persona", "loading"}
       => ~turn[t].done /\ ~req[t].own /\ ~req[t].mark
  /\ turn[t].phase = "loading"
       => /\ turn[t].who \in Users
          /\ turn[t].snap <= users[turn[t].who].epoch
          /\ \/ turn[t].consent = "granted"
             \/ turn[t].snap < users[turn[t].who].epoch
             \/ ~cfg.open

RequestInv(t) ==
  /\ turn[t].phase \in {"hooks", "ready"} /\ req[t].own
       => /\ Reachable(t) /\ ~req[t].mark
          /\ rec[t].attach = "no" /\ turn[t].consent = "granted"
  /\ turn[t].phase = "assembling" /\ req[t].block = "text"
       => \/ req[t].mark
          \/ /\ Reachable(t)
             /\ rec[t].attach = "no" /\ turn[t].consent = "granted"

RuntimeInv(t) ==
  /\ turn[t].phase \in {"assembled", "running"} /\ req[t].rt = "text"
       => Reachable(t) /\ req[t].pairs /\ turn[t].consent = "granted"
  /\ turn[t].phase = "assembled" /\ req[t].rt = "text" => rec[t].attach = "no"
  /\ turn[t].phase = "running" /\ req[t].rt = "text"
       => rec[t].attach = "live" \/ ~cfg.active

WireInv(t) == turn[t].wire = "guided" => turn[t].consent = "granted"

\* The inductive invariant of a host with the mapping patch: every stage of every
\* turn is as above and what was sent last was consented to.
ConsentInv ==
  \A t \in Turns : WaitingInv(t) /\ RequestInv(t) /\ RuntimeInv(t) /\ WireInv(t)

\* A host without the patch has no mapping, so a block that was serialised cannot be
\* blanked before the run context is attached: its record stays in the registry, dead
\* once it was invalidated, and only an agent-begin hook that is not run lets it by.
TokenTurn(t) ==
  /\ ~req[t].pairs /\ ~req[t].marker /\ rec[t].channel = "token"
  /\ turn[t].phase \in {"hooks", "ready"} /\ req[t].own
       => Reachable(t) /\ rec[t].attach = "no" /\ turn[t].consent = "granted"
  /\ (\/ turn[t].phase = "assembling" /\ req[t].block = "text"
      \/ turn[t].phase = "assembled" /\ req[t].rt = "text")
       => /\ rec[t].held /\ rec[t].state /\ rec[t].attach = "no"
          /\ rec[t].dead \/ turn[t].consent = "granted"
  /\ turn[t].phase = "running" /\ req[t].rt = "text"
       => \/ Reachable(t) /\ rec[t].attach = "live" /\ turn[t].consent = "granted"
          \/ rec[t].held /\ rec[t].state /\ rec[t].attach = "no" /\ ~cfg.active

\* The inductive invariant of a host without it.
UnpatchedInv == ~HostV3 => \A t \in Turns : WaitingInv(t) /\ TokenTurn(t)

\* An invalidation of one user leaves the turns of the others alone.
InvalidationIsSelective ==
  [][\A t \in Turns :
       (\E u \in Users \ {turn[t].who} : users'[u] # users[u])
         => req'[t] = req[t] /\ rec'[t] = rec[t]]_vars

\* Clearing the plugin's block never blanks another plugin's copy of it; on a host
\* without the mapping, where the token is the only evidence, that is promised for
\* the copies made before the token was rotated.
OtherCopiesKept ==
  [][\A t \in Turns :
       turn[t].phase \in InFlight /\ turn'[t].phase \in InFlight
         => req[t].copies \ req'[t].copies \subseteq (IF HostV3 THEN {} ELSE {1})]_vars

\* A record that reached the agent run is dropped in the end, also when the run
\* ends without on_agent_done and somebody keeps the event object alive.
AttachedRecordsDrain ==
  \A t \in Turns : (rec[t].held /\ rec[t].attach # "no") ~> ~rec[t].held

\* The turns implement the delivery contract.
Contract == INSTANCE DeliveryContract WITH
  standing <- [t \in Turns |-> turn[t].consent],
  wire <- [t \in Turns |-> turn[t].wire]

ImplementsContract == Contract!Spec

=============================================================================
