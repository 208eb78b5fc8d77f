---------------------------- MODULE TurnExclusion ----------------------------
(***************************************************************************)
(* The turns of TurnInjection beside the Context Bridge, which copies      *)
(* private chats into a ledger shared by sessions: pref_profile/           *)
(* bridge_guard.py, its use in injection.py, and the check that            *)
(* patches/0001 adds to the bridge's own on_llm_request hook.  The bridge  *)
(* is loaded, patched, stopped and unloaded by the host at any await.      *)
(***************************************************************************)
EXTENDS TurnInjection

VARIABLES
  bridge,  \* the bridge's entry in star_map
  mark     \* what the bridge and the guard left on every turn

\* patched: its module exports UCTX_EXCLUDE_PROTOCOL; stopped: not activated.
Bridges == {"absent", "stopped", "plain", "patched"}

\* excluded: the extra uctx_bridge_turn_excluded; taken: the bridge has begun a
\* turn of its own for this request.  moved is history: the entry has changed since
\* the guard looked at it for this turn.
MarkType == [excluded : BOOLEAN, taken : BOOLEAN, moved : BOOLEAN]
NoMark == [excluded |-> FALSE, taken |-> FALSE, moved |-> FALSE]

exclusion == <<bridge, mark>>
allVars == <<vars, exclusion>>

ExclusionInit ==
  /\ Init
  /\ bridge \in Bridges
  /\ mark = [t \in Turns |-> NoMark]

-----------------------------------------------------------------------------
(* The guard.                                                              *)

\* Mutant of Mode: any bridge that runs is taken for one that knows the protocol.
ModeUnversioned(b) ==
  IF b \in {"absent", "stopped"} THEN "no_bridge" ELSE "protocol_ok"

\* refresh: looked up anew at every use.
Mode(b) ==
  CASE b \in {"absent", "stopped"} -> "no_bridge"
    [] b = "patched" -> "protocol_ok"
    [] b = "plain" -> "protocol_missing"

InjectionAllowed == Mode(bridge) \in {"no_bridge", "protocol_ok"}

\* mark_excluded: only an extra that was set counts.
MarkExcluded(t) == mark[t].excluded \/ Mode(bridge) = "protocol_ok"

\* Consent is read and the guard asked without an await in between.
GuardedConsent(t) ==
  /\ ReadConsent(t)
  /\ InjectionAllowed
  /\ mark' = [mark EXCEPT ![t] = [@ EXCEPT !.excluded = MarkExcluded(t),
                                              !.moved = FALSE]]
  /\ UNCHANGED bridge

\* No guidance: where the user was found enabled, the extra has been set.
GuardedSkip(t) ==
  /\ HandleSkip(t)
  /\ \/ UNCHANGED mark
     \/ /\ cfg.open /\ users[turn[t].who].enabled
        /\ mark' = [mark EXCEPT ![t].excluded = MarkExcluded(t)]
  /\ UNCHANGED bridge

-----------------------------------------------------------------------------
(* The bridge.                                                             *)

\* Its request hook, after the plugin's: a running bridge takes the turn over,
\* unless it knows the protocol and the turn is excluded.
Capture(t) ==
  /\ turn[t].phase = "hooks"
  /\ bridge \in {"plain", "patched"}
  /\ ~mark[t].taken
  /\ ~(bridge = "patched" /\ mark[t].excluded)
  /\ mark' = [mark EXCEPT ![t].taken = TRUE]
  /\ UNCHANGED <<vars, bridge>>

\* The host loads, reloads, stops or unloads it.
ChangeBridge ==
  /\ bridge' \in Bridges \ {bridge}
  /\ mark' = [t \in Turns |-> [mark[t] EXCEPT !.moved = TRUE]]
  /\ UNCHANGED vars

\* A new event has no extra; a request sent again is captured anew.
NewEvent(t) ==
  /\ EventGone(t) \/ (\E u \in Users : Arrive(t, u))
  /\ mark' = [mark EXCEPT ![t] = NoMark]
  /\ UNCHANGED bridge

SentAgain(t) ==
  /\ Rerun(t)
  /\ mark' = [mark EXCEPT ![t].taken = FALSE]
  /\ UNCHANGED bridge

-----------------------------------------------------------------------------

OtherStep(t) ==
  \/ Inject(t) \/ LoadSkip(t) \/ Finalize(t) \/ Serialise(t) \/ Bind(t)
  \/ AgentBegin(t) \/ Finish(t) \/ Abandon(t) \/ CopyBlock(t) \/ RemoveBlock(t)
  \/ CallProvider(t) \/ Decorate(t) \/ TaskDone(t) \/ ContextGone(t)

ExclusionStep ==
  \/ \E t \in Turns :
       \/ GuardedConsent(t) \/ GuardedSkip(t) \/ Capture(t)
       \/ NewEvent(t) \/ SentAgain(t)
  \/ ChangeBridge

ExclusionNext ==
  \/ ExclusionStep
  \/ Invalidation /\ UNCHANGED exclusion
  \/ \E t \in Turns : OtherStep(t) /\ UNCHANGED exclusion

ExclusionSpec == ExclusionInit /\ [][ExclusionNext]_allVars

-----------------------------------------------------------------------------
(* Properties.                                                             *)

\* A turn whose request was given private guidance is not taken into the shared
\* ledger, nor is the guidance sent to a provider beside a bridge without the
\* protocol; the one exception is a bridge that the host loaded, patched or started
\* after the guard had looked for it.
GuidedTurnsStayPrivate ==
  \A t \in Turns :
    turn[t].blocks > 0 /\ ~mark[t].moved
      => ~mark[t].taken /\ (turn[t].wire = "guided" => bridge # "plain")

=============================================================================
