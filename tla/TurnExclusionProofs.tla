------------------------- MODULE TurnExclusionProofs -------------------------
(***************************************************************************)
(* Guided turns stay private beside any Context Bridge, for every number   *)
(* of users and turns, on both kinds of hosts, with other plugins' hooks   *)
(* and requests that are sent again.  The composition adds nothing to the  *)
(* turns, so the types proved of them are used here.                       *)
(***************************************************************************)
EXTENDS TurnExclusion, TurnCopiesProofs

MarksOK == bridge \in Bridges /\ mark \in [Turns -> MarkType]

Unseen(t) == bridge \in {"absent", "stopped"} \/ (bridge = "patched" /\ mark[t].excluded)

\* From the moment the guard is asked until the bridge's entry changes, the bridge
\* cannot take the turn; before it is asked, it has not.
Private(t) ==
  /\ turn[t].phase \in {"persona", "loading"} => ~mark[t].taken /\ ~turn[t].done
  /\ turn[t].blocks > 0 => turn[t].done
  /\ (turn[t].blocks > 0 \/ turn[t].phase = "loading") /\ ~mark[t].moved
       => ~mark[t].taken /\ Unseen(t)

ExclusionInv == MarksOK /\ \A t \in Turns : Private(t)

-----------------------------------------------------------------------------
(* The composition only adds the bridge.                                   *)

LEMMA OtherStepIsTurnStep ==
  ASSUME NEW t \in Turns, OtherStep(t)
  PROVE  TurnStep(t)
  BY DEF OtherStep, TurnStep, HostStep

LEMMA StepsAreTurnSteps == [ExclusionNext]_allVars => [Next]_vars
<1>1. ASSUME NEW t \in Turns, GuardedConsent(t) \/ GuardedSkip(t) \/ NewEvent(t) \/ SentAgain(t)
      PROVE  TurnStep(t)
  BY <1>1 DEF GuardedConsent, GuardedSkip, NewEvent, SentAgain, TurnStep, HostStep
<1>2. ASSUME NEW t \in Turns, Capture(t) PROVE UNCHANGED vars
  BY <1>2 DEF Capture
<1>3. ChangeBridge => UNCHANGED vars
  BY DEF ChangeBridge
<1>4. UNCHANGED allVars => UNCHANGED vars
  BY DEF allVars
<1> QED BY <1>1, <1>2, <1>3, <1>4, OtherStepIsTurnStep DEF ExclusionNext, ExclusionStep, Next

\* The guard and the bridge give the turns no behaviour they do not have without them:
\* every run of the composition is a run of the turns.
THEOREM ExclusionImplementsTurns == ExclusionSpec => Spec
<1>1. ExclusionInit => Init
  BY DEF ExclusionInit
<1> QED BY <1>1, StepsAreTurnSteps, PTL DEF ExclusionSpec, Spec

\* Beside the bridge the variables of the turns keep their types.
THEOREM TurnsKeepTypes == ExclusionSpec => []TypeOK
  BY ExclusionImplementsTurns, TypeCorrect, PTL

\* Nor does the bridge let text without a consent be ready to be sent, but where the
\* agent-begin hook was not run.
THEOREM StaleTextNeverBeside == ExclusionSpec => []StaleTextOnlyWithoutHook
  BY ExclusionImplementsTurns, StaleTextNever, PTL

\* Other plugins' copies of the block are kept beside it as well.
THEOREM CopiesKeptBeside == ExclusionSpec => OtherCopiesKept
  BY ExclusionImplementsTurns, CopiesKept, PTL

\* And on a host with the mapping patch the delivery contract stands beside it.
THEOREM ContractBeside == ASSUME HostV3 PROVE ExclusionSpec => ImplementsContract
  BY ExclusionImplementsTurns, ContractImplemented, PTL

-----------------------------------------------------------------------------
(* Steps that leave the bridge and its marks.                              *)

\* What such a step may do to a turn.
Onwards(t) ==
  /\ turn'[t].phase \in {"persona", "loading"} =>
       turn'[t].phase = turn[t].phase /\ turn'[t].done = turn[t].done
  /\ turn'[t].blocks > 0 => turn'[t].done /\ (turn[t].blocks > 0 \/ turn[t].phase = "loading")

LEMMA InvalidationOnwards ==
  ASSUME TypeOK, NEW t \in Turns, Private(t), Invalidation
  PROVE  Onwards(t)
<1>1. ASSUME NEW S, Withdraw(S) PROVE Onwards(t)
  <2>1. turn[t] \in TurnFields
    BY DEF TypeOK, TurnType
  <2>2. /\ turn'[t].phase = turn[t].phase /\ turn'[t].done = turn[t].done
        /\ turn'[t].blocks = turn[t].blocks
    BY <1>1, <2>1 DEF Withdraw, TurnFields
  <2> QED BY <2>2 DEF Onwards, Private
<1>2. UNCHANGED turn => Onwards(t)
  BY DEF Onwards, Private
<1> QED BY <1>1, <1>2 DEF Invalidation, SetEnabled, WriteConfig, Deactivate, Terminate

LEMMA OtherStepOnwards ==
  ASSUME TypeOK, NEW t \in Turns, Private(t), NEW s \in Turns, OtherStep(s)
  PROVE  Onwards(t)
<1>0. turn \in [Turns -> TurnType] /\ turn[t] \in TurnFields
  BY DEF TypeOK, TurnType
<1>1. CASE s # t
  BY <1>1, OtherStepIsTurnStep, TurnStepIsLocal DEF Onwards, Private
<1>2. CASE s = t
  <2>1. ASSUME NEW p \in {"ready", "assembling", "assembled", "running"}, GoTo(t, p)
        PROVE  Onwards(t)
    BY <1>0, <2>1 DEF GoTo, Onwards, Private, TurnFields
  <2>2. CASE Finalize(t) \/ Serialise(t) \/ Bind(t) \/ AgentBegin(t)
    BY <2>1, <2>2 DEF Finalize, Serialise, Bind, AgentBegin
  <2>3. CASE Inject(t)
    <3>1. turn'[t].phase = "hooks" /\ turn'[t].done = TRUE /\ turn[t].phase = "loading"
      BY <1>0, <2>3 DEF Inject, TurnFields
    <3> QED BY <3>1 DEF Onwards
  <2>4. CASE LoadSkip(t)
    <3>1. turn'[t].phase = "hooks" /\ turn'[t].blocks = turn[t].blocks /\ turn[t].phase = "loading"
      BY <1>0, <2>4 DEF LoadSkip, TurnFields
    <3> QED BY <3>1 DEF Onwards, Private
  <2>5. CASE Finish(t) \/ Abandon(t)
    <3>1. turn'[t].phase = "over" /\ turn'[t].done = turn[t].done /\ turn'[t].blocks = turn[t].blocks
      BY <1>0, <2>5 DEF Finish, Abandon, EndRun, TurnFields
    <3> QED BY <3>1 DEF Onwards, Private
  <2>6. CASE CallProvider(t)
    <3>1. /\ turn'[t].phase = turn[t].phase /\ turn'[t].done = turn[t].done
          /\ turn'[t].blocks = turn[t].blocks
      BY <1>0, <2>6 DEF CallProvider, TurnFields
    <3> QED BY <3>1 DEF Onwards, Private
  <2>7. CASE CopyBlock(t) \/ RemoveBlock(t) \/ Decorate(t) \/ TaskDone(t) \/ ContextGone(t)
    <3>1. UNCHANGED turn
      BY <2>7 DEF CopyBlock, RemoveBlock, Decorate, TaskDone, ContextGone
    <3> QED BY <3>1 DEF Onwards, Private
  <2> QED BY <1>2, <2>2, <2>3, <2>4, <2>5, <2>6, <2>7 DEF OtherStep
<1> QED BY <1>1, <1>2

LEMMA OnwardsPrivate ==
  ASSUME NEW t \in Turns, Private(t), Onwards(t), UNCHANGED exclusion
  PROVE  Private(t)'
  BY DEF Private, Onwards, Unseen, exclusion

-----------------------------------------------------------------------------
(* Steps of the guard and of the bridge.                                   *)

\* A step of one turn leaves the other turns as private as they were.
LEMMA OthersStayPrivate ==
  ASSUME TypeOK, MarksOK, NEW t \in Turns, Private(t), NEW s \in Turns, s # t,
         TurnStep(s) \/ UNCHANGED vars, bridge' = bridge,
         NEW m, mark' = [mark EXCEPT ![s] = m]
  PROVE  Private(t)'
<1>1. turn'[t] = turn[t]
  BY TurnStepIsLocal DEF vars
<1>2. mark'[t] = mark[t]
  BY DEF MarksOK
<1> QED BY <1>1, <1>2 DEF Private, Unseen

LEMMA ConsentPrivate ==
  ASSUME TypeOK, MarksOK, NEW t \in Turns, Private(t), GuardedConsent(t)
  PROVE  Private(t)'
<1>0. turn[t] \in TurnFields /\ mark[t] \in MarkType /\ bridge \in Bridges
  BY DEF TypeOK, TurnType, MarksOK
<1>1. /\ turn[t].phase = "persona" /\ turn'[t].phase = "loading"
      /\ turn'[t].done = turn[t].done /\ turn'[t].blocks = turn[t].blocks
  BY <1>0 DEF GuardedConsent, ReadConsent, TypeOK, TurnFields
<1>2. /\ mark'[t].taken = mark[t].taken /\ mark'[t].excluded = MarkExcluded(t)
      /\ bridge' = bridge
  BY <1>0 DEF GuardedConsent, MarksOK, MarkType
<1>3. bridge \in {"absent", "stopped"} \/ (bridge = "patched" /\ MarkExcluded(t))
  BY <1>0 DEF GuardedConsent, InjectionAllowed, Mode, MarkExcluded, Bridges
<1> QED BY <1>1, <1>2, <1>3 DEF Private, Unseen

LEMMA SkipPrivate ==
  ASSUME TypeOK, MarksOK, NEW t \in Turns, Private(t), GuardedSkip(t)
  PROVE  Private(t)'
<1>0. turn[t] \in TurnFields
  BY DEF TypeOK, TurnType
<1>1. /\ turn[t].phase = "persona" /\ turn'[t].phase = "hooks"
      /\ turn'[t].blocks = turn[t].blocks
  BY <1>0 DEF GuardedSkip, HandleSkip, TypeOK, TurnFields
<1>2. ~(turn[t].blocks > 0)
  BY <1>1 DEF Private
<1> QED BY <1>1, <1>2 DEF Private

LEMMA CapturePrivate ==
  ASSUME TypeOK, MarksOK, NEW t \in Turns, Private(t), Capture(t)
  PROVE  Private(t)'
<1>1. /\ turn' = turn /\ bridge' = bridge /\ turn[t].phase = "hooks"
      /\ bridge \in {"plain", "patched"} /\ ~(bridge = "patched" /\ mark[t].excluded)
  BY DEF Capture, vars
<1>2. mark'[t].moved = mark[t].moved
  BY DEF Capture, MarksOK, MarkType
<1>3. ~Unseen(t)
  BY <1>1 DEF Unseen
<1> QED BY <1>1, <1>2, <1>3 DEF Private

LEMMA NewEventPrivate ==
  ASSUME TypeOK, MarksOK, NEW t \in Turns, NewEvent(t)
  PROVE  Private(t)'
<1>1. mark'[t] = NoMark
  BY DEF NewEvent, MarksOK
<1>2. turn'[t].blocks = 0 /\ ~turn'[t].done /\ turn'[t].phase # "loading"
  <2>1. CASE EventGone(t)
    BY <2>1 DEF EventGone, TypeOK, NoTurn
  <2>2. CASE \E u \in Users : Arrive(t, u)
    BY <2>2 DEF Arrive, TypeOK, NoTurn, HandleBegin
  <2> QED BY <2>1, <2>2 DEF NewEvent
<1> QED BY <1>1, <1>2 DEF Private, NoMark

LEMMA SentAgainPrivate ==
  ASSUME TypeOK, MarksOK, NEW t \in Turns, Private(t), SentAgain(t)
  PROVE  Private(t)'
<1>0. turn[t] \in TurnFields
  BY DEF TypeOK, TurnType
<1>1. /\ turn'[t].phase = HandleBegin(turn[t].done) /\ turn'[t].done = turn[t].done
      /\ turn'[t].blocks = turn[t].blocks
  BY <1>0 DEF SentAgain, Rerun, TypeOK, TurnFields
<1>2. /\ ~mark'[t].taken /\ mark'[t].moved = mark[t].moved
      /\ mark'[t].excluded = mark[t].excluded /\ bridge' = bridge
  BY DEF SentAgain, MarksOK, MarkType
<1>3. HandleBegin(turn[t].done) # "loading" /\ (turn[t].done => HandleBegin(turn[t].done) = "hooks")
  BY DEF HandleBegin
<1> QED BY <1>1, <1>2, <1>3 DEF Private, Unseen

LEMMA ChangePrivate ==
  ASSUME MarksOK, NEW t \in Turns, Private(t), ChangeBridge
  PROVE  Private(t)'
<1>1. turn' = turn
  BY DEF ChangeBridge, vars
<1>2. mark'[t].moved /\ mark'[t].taken = mark[t].taken
  BY DEF ChangeBridge, MarksOK, MarkType
<1> QED BY <1>1, <1>2 DEF Private

LEMMA MarksKeepTypes == MarksOK /\ [ExclusionNext]_allVars => MarksOK'
<1> SUFFICES ASSUME MarksOK, [ExclusionNext]_allVars PROVE MarksOK'
  OBVIOUS
<1>1. ASSUME NEW t \in Turns, GuardedConsent(t) PROVE MarksOK'
  BY <1>1 DEF GuardedConsent, MarksOK, MarkType, MarkExcluded
<1>2. ASSUME NEW t \in Turns, GuardedSkip(t) PROVE MarksOK'
  <2>1. MarkExcluded(t) \in BOOLEAN /\ mark[t] \in MarkType
    BY DEF MarkExcluded, MarksOK, MarkType
  <2>2. [mark[t] EXCEPT !.excluded = MarkExcluded(t)] \in MarkType
    BY <2>1 DEF MarkType
  <2> QED BY <1>2, <2>2 DEF GuardedSkip, MarksOK
<1>3. ASSUME NEW t \in Turns, Capture(t) \/ SentAgain(t) PROVE MarksOK'
  BY <1>3 DEF Capture, SentAgain, MarksOK, MarkType
<1>4. ASSUME NEW t \in Turns, NewEvent(t) PROVE MarksOK'
  BY <1>4 DEF NewEvent, NoMark, MarksOK, MarkType
<1>5. CASE ChangeBridge
  BY <1>5 DEF ChangeBridge, MarksOK, MarkType
<1>6. CASE UNCHANGED exclusion
  BY <1>6 DEF exclusion, MarksOK
<1> QED BY <1>1, <1>2, <1>3, <1>4, <1>5, <1>6 DEF ExclusionNext, ExclusionStep, allVars

LEMMA EveryStepPrivate ==
  ASSUME TypeOK, ExclusionInv, [ExclusionNext]_allVars, NEW t \in Turns
  PROVE  Private(t)'
<1>0. MarksOK /\ Private(t)
  BY DEF ExclusionInv
<1>1. ASSUME NEW s \in Turns,
             GuardedConsent(s) \/ GuardedSkip(s) \/ Capture(s) \/ NewEvent(s) \/ SentAgain(s)
      PROVE  Private(t)'
  <2>1. CASE s = t
    BY <1>0, <1>1, <2>1, ConsentPrivate, SkipPrivate, CapturePrivate, NewEventPrivate,
       SentAgainPrivate
  <2>2. CASE s # t
    <3>1. TurnStep(s) \/ UNCHANGED vars
      BY <1>1 DEF GuardedConsent, GuardedSkip, Capture, NewEvent, SentAgain, TurnStep, HostStep
    <3>2. bridge' = bridge
      BY <1>1 DEF GuardedConsent, GuardedSkip, Capture, NewEvent, SentAgain
    <3>3. \E m : mark' = [mark EXCEPT ![s] = m]
      <4>1. mark = [mark EXCEPT ![s] = mark[s]]
        BY <1>0 DEF MarksOK
      <4> QED BY <1>1, <4>1 DEF GuardedConsent, GuardedSkip, Capture, NewEvent, SentAgain
    <3> QED BY <1>0, <2>2, <3>1, <3>2, <3>3, OthersStayPrivate
  <2> QED BY <2>1, <2>2
<1>2. CASE ChangeBridge
  BY <1>0, <1>2, ChangePrivate
<1>3. CASE Invalidation /\ UNCHANGED exclusion
  BY <1>0, <1>3, InvalidationOnwards, OnwardsPrivate
<1>4. ASSUME NEW s \in Turns, OtherStep(s), UNCHANGED exclusion PROVE Private(t)'
  BY <1>0, <1>4, OtherStepOnwards, OnwardsPrivate
<1>5. CASE UNCHANGED allVars
  BY <1>0, <1>5 DEF allVars, vars, exclusion, Private, Unseen
<1> QED BY <1>1, <1>2, <1>3, <1>4, <1>5 DEF ExclusionNext, ExclusionStep

\* A turn that was given guidance is not taken by the bridge, and is not sent beside a
\* bridge without the protocol, unless the bridge's entry changed after the guard had
\* looked: on every host, for every number of turns that overlap.
THEOREM GuidancePrivate == ExclusionSpec => []GuidedTurnsStayPrivate
<1>1. ExclusionInit => ExclusionInv
  BY DEF ExclusionInit, Init, ExclusionInv, MarksOK, MarkType, NoMark, Private, NoTurn
<1>2. TypeOK /\ ExclusionInv /\ [ExclusionNext]_allVars => ExclusionInv'
  <2> SUFFICES ASSUME TypeOK, ExclusionInv, [ExclusionNext]_allVars PROVE ExclusionInv'
    OBVIOUS
  <2>1. MarksOK'
    BY MarksKeepTypes DEF ExclusionInv
  <2> QED BY <2>1, EveryStepPrivate DEF ExclusionInv
<1>3. ExclusionInv => GuidedTurnsStayPrivate
  BY DEF ExclusionInv, Private, Unseen, GuidedTurnsStayPrivate
<1> QED BY <1>1, <1>2, <1>3, TurnsKeepTypes, PTL DEF ExclusionSpec
=============================================================================
