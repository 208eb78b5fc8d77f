---------------------------- MODULE HostLoopProofs ----------------------------
(***************************************************************************)
(* The safety properties of HostLoop for every number of messages, steps,  *)
(* calls, candidates and attempts.  The invariant says for every place of  *)
(* the coroutine how far the run has ended, where the follow-up messages   *)
(* may stand and what a stop has led to.                                   *)
(***************************************************************************)
EXTENDS HostLoop, TLAPS

\* Where the provider is asked and its response handled; where tools are run.
Asking == {"compact", "calling", "chunk", "backoff", "answered", "reply", "requery",
           "repair", "requeried"}
Working == {"toolcall", "executing"}

Fresh == run.dones = 0 /\ run.final = "none" /\ ~run.aborted
Hooked ==
  /\ run.dones = 1 /\ run.state = "done"
  /\ \/ run.final = "answer" /\ ~run.aborted
     \/ run.final = "interrupted" /\ run.aborted

\* How far the run has ended; an attempt is left after a pause.
EndInv ==
  /\ at = "backoff" => cur.att < Attempts
  /\ at = "begin" => run.state = "idle" /\ Fresh
  /\ at \in Asking => run.state = "running" /\ Fresh
  /\ at \in Working => run.state \in {"running", "done"} /\ Fresh
  /\ at = "hook" => Hooked
  /\ at = "over" =>
       \/ Hooked
       \/ run.state = "error" /\ run.dones = 0 /\ run.final = "err"
       \/ run.state = "done" /\ Fresh
       \/ run.state = "running" /\ run.forced /\ Fresh
  /\ run.dones = 0 \/ Hooked

\* Where a message may stand.
TicketInv ==
  /\ run.forced => ~run.tools
  /\ at = "executing" => run.tools
  /\ \A t \in Tickets :
       /\ tickets[t] = "block" => run.tools /\ at \in Working \cup {"gone"}
       /\ tickets[t] = "message" =>
            \/ at \in {"compact", "gone"}
            \/ at \in {"hook", "over"} /\ run.aborted
            \/ at = "over" /\ run.state = "done" /\ run.final = "none"
       /\ tickets[t] = "dropped" => run.aborted
       /\ tickets[t] = "pending" =>
            \/ ~Done
            \/ at \in {"hook", "gone"}

\* What a stop in time has led to.
StopInv ==
  /\ at \in {"requery", "repair", "requeried"} => conf.skills
  /\ at \in Working /\ run.state = "done" => stop # "heard"
  /\ at \in {"hook", "over"} /\ stop = "heard" =>
       \/ run.aborted
       \/ at = "over" /\ run.state = "running"
       \/ run.final = "answer" /\ conf.skills

IInv == TypeOK /\ EndInv /\ TicketInv /\ StopInv

-----------------------------------------------------------------------------
(* What the shared ends of the actions do to the record fields.            *)

\* The queue operations keep the type.
LEMMA MovedType ==
  ASSUME NEW f \in [Tickets -> TicketStates], NEW from, NEW to \in TicketStates
  PROVE  Moved(f, from, to) \in [Tickets -> TicketStates]
  BY DEF Moved

\* A message leaves one state of the queue for another and every other stays.
LEMMA MovedAt ==
  ASSUME NEW f, NEW from, NEW to, NEW t \in Tickets
  PROVE  Moved(f, from, to)[t] = IF f[t] = from THEN to ELSE f[t]
  BY DEF Moved

LEMMA QueueTypes ==
  ASSUME NEW f \in [Tickets -> TicketStates]
  PROVE  /\ Consume(f) \in [Tickets -> TicketStates]
         /\ Resolve(f) \in [Tickets -> TicketStates]
         /\ Extend(f) \in [Tickets -> TicketStates]
         /\ Sent(f) \in [Tickets -> TicketStates]
         /\ Discard(f) \in [Tickets -> TicketStates]
<1>1. {"block", "returned", "message", "sent", "dropped"} \subseteq TicketStates
  BY DEF TicketStates
<1> QED BY <1>1, MovedType DEF Consume, Resolve, Extend, Sent, Discard

LEMMA NoCallType == NoCall \in CurType
  BY BoundAssumption, FallbackAssumption DEF NoCall, CurType

LEMMA EndWithEffect ==
  ASSUME TypeOK, NEW final \in {"none", "answer", "err", "interrupted"},
         NEW aborted \in BOOLEAN, EndWith(final, aborted)
  PROVE  /\ run' \in RunType
         /\ run'.state = "done" /\ run'.final = final /\ run'.aborted = aborted
         /\ run'.dones = run.dones + 1
         /\ run'.tools = run.tools /\ run'.forced = run.forced
         /\ at' = "hook" /\ cur' \in CurType /\ conf' = conf /\ stop' = stop
<1>1. /\ run' = [run EXCEPT !.state = "done", !.final = final, !.aborted = aborted,
                             !.dones = run.dones + 1]
      /\ at' = "hook" /\ cur' = NoCall /\ conf' = conf /\ stop' = stop
  BY DEF EndWith
<1>2. run.dones + 1 \in Nat /\ run \in RunType
  BY DEF TypeOK, RunType
<1>3. run' \in RunType
  BY <1>1, <1>2 DEF RunType
<1>4. /\ run'.state = "done" /\ run'.final = final /\ run'.aborted = aborted
      /\ run'.tools = run.tools /\ run'.forced = run.forced
  BY <1>1, <1>2 DEF RunType
<1>5. run'.dones = run.dones + 1
  BY <1>1, <1>2 DEF RunType
<1> QED BY <1>1, <1>3, <1>4, <1>5, NoCallType

LEMMA CallEffect ==
  ASSUME TypeOK, NEW c \in 0..Fallbacks, NEW a \in 1..Attempts, CallCandidate(c, a)
  PROVE  /\ at' = "calling" /\ cur' \in CurType /\ tickets' = Sent(tickets)
         /\ conf' = conf /\ run' = run /\ stop' = stop
  BY NoCallType DEF CallCandidate, NoCall, CurType

LEMMA StepEndsEffect ==
  ASSUME TypeOK, StepEnds
  PROVE  /\ run' \in RunType /\ cur' \in CurType /\ conf' = conf /\ stop' = stop
         /\ run'.state = run.state /\ run'.final = run.final
         /\ run'.aborted = run.aborted /\ run'.dones = run.dones
         /\ \/ at' = "over" /\ run' = run /\ (Done \/ run.forced)
            \/ /\ at' = "compact" /\ ~Done /\ ~run.forced
               /\ run'.forced => ~run'.tools
<1>1. cur' \in CurType /\ conf' = conf /\ stop' = stop
  BY NoCallType DEF StepEnds
<1>2. CASE at' = "over" /\ run' = run /\ (Done \/ run.forced)
  BY <1>1, <1>2 DEF TypeOK
<1>3. CASE /\ ~Done /\ ~run.forced /\ at' = "compact"
           /\ run.step < MaxStep /\ run' = [run EXCEPT !.step = run.step + 1]
  <2>1. run.step + 1 \in 1..MaxStep
    BY <1>3, BoundAssumption DEF TypeOK, RunType
  <2> QED BY <1>1, <1>3, <2>1 DEF TypeOK, RunType
<1>4. CASE /\ ~Done /\ ~run.forced /\ at' = "compact"
           /\ run' = [run EXCEPT !.forced = TRUE, !.tools = FALSE]
  BY <1>1, <1>4 DEF TypeOK, RunType
<1> QED BY <1>2, <1>3, <1>4 DEF StepEnds

-----------------------------------------------------------------------------
(* Each of them preserves the invariant where the actions use it.          *)

\* f is the queue, or the queue with its messages taken into a result.
Taken(f) ==
  /\ f \in [Tickets -> TicketStates]
  /\ \A t \in Tickets : f[t] = tickets[t] \/ (tickets[t] = "pending" /\ f[t] = "block")

LEMMA TakenQueue == TypeOK => Taken(tickets) /\ Taken(Consume(tickets))
  BY QueueTypes, MovedAt DEF Taken, TypeOK, Consume

LEMMA AbortPreserves ==
  ASSUME IInv, at \in Asking \cup Working, NEW f, Taken(f), Abort(f)
  PROVE  IInv'
<1> USE DEF IInv, Asking, Working
<1>1. /\ run' \in RunType /\ at' = "hook" /\ cur' \in CurType
      /\ conf' = conf /\ stop' = stop
      /\ run'.state = "done" /\ run'.final = "interrupted" /\ run'.aborted
      /\ run'.dones = run.dones + 1
      /\ run'.tools = run.tools /\ run'.forced = run.forced
  BY EndWithEffect DEF Abort
<1>2. run.dones = 0
  BY DEF EndInv, Fresh
<1>3. tickets' = Discard(f) /\ tickets' \in [Tickets -> TicketStates]
  BY QueueTypes DEF Abort, Taken
<1>4. \A t \in Tickets : tickets'[t] # "block"
  BY <1>3, MovedAt DEF Discard
<1>5. TypeOK'
  BY <1>1, <1>3 DEF TypeOK, Places
<1>6. EndInv'
  BY <1>1, <1>2 DEF EndInv, Fresh, Hooked
<1>7. TicketInv'
  BY <1>1, <1>4 DEF TicketInv
<1>8. StopInv'
  BY <1>1 DEF StopInv
<1> QED BY <1>5, <1>6, <1>7, <1>8

LEMMA CompletePreserves ==
  ASSUME IInv, at \in {"answered", "requeried"}, ~Stopped \/ conf.skills, Complete
  PROVE  IInv'
<1> USE DEF IInv, Asking, Working
<1>1. /\ run' \in RunType /\ at' = "hook" /\ cur' \in CurType
      /\ conf' = conf /\ stop' = stop
      /\ run'.state = "done" /\ run'.final = "answer" /\ ~run'.aborted
      /\ run'.dones = run.dones + 1
      /\ run'.tools = run.tools /\ run'.forced = run.forced
  BY EndWithEffect DEF Complete
<1>2. run.dones = 0 /\ ~run.aborted
  BY DEF EndInv, Fresh
<1>3. tickets' = tickets
  BY DEF Complete
<1>4. \A t \in Tickets : tickets[t] \notin {"block", "message", "dropped"}
  BY <1>2 DEF TicketInv
<1>5. TypeOK'
  BY <1>1, <1>3 DEF TypeOK, Places
<1>6. EndInv'
  BY <1>1, <1>2 DEF EndInv, Fresh, Hooked
<1>7. TicketInv'
  BY <1>1, <1>3, <1>4 DEF TicketInv
<1>8. StopInv'
  BY <1>1 DEF StopInv, Stopped
<1> QED BY <1>5, <1>6, <1>7, <1>8

LEMMA CallPreserves ==
  ASSUME IInv, at \in {"compact", "calling", "backoff"},
         NEW c \in 0..Fallbacks, NEW a \in 1..Attempts, CallCandidate(c, a)
  PROVE  IInv'
<1> USE DEF IInv, Asking, Working
<1>1. /\ at' = "calling" /\ cur' \in CurType /\ tickets' = Sent(tickets)
      /\ conf' = conf /\ run' = run /\ stop' = stop
  BY CallEffect
<1>2. tickets' \in [Tickets -> TicketStates]
  BY <1>1, QueueTypes DEF TypeOK
<1>3. \A t \in Tickets :
        /\ tickets'[t] # "message"
        /\ tickets'[t] = tickets[t] \/ tickets'[t] = "sent"
  BY <1>1, MovedAt DEF Sent
<1>4. TypeOK'
  BY <1>1, <1>2 DEF TypeOK, Places
<1>5. EndInv'
  BY <1>1 DEF EndInv, Fresh, Hooked
<1>6. TicketInv'
  BY <1>1, <1>3 DEF TicketInv, Done
<1>7. StopInv'
  BY <1>1 DEF StopInv
<1> QED BY <1>4, <1>5, <1>6, <1>7

LEMMA RespondPreserves ==
  ASSUME IInv, at = "calling", NEW kind \in {"none", "err", "text", "tools"},
         Respond(kind)
  PROVE  IInv'
<1> USE DEF IInv, Asking, Working, Respond
<1>1. cur' \in CurType
  BY DEF TypeOK, CurType
<1>2. TypeOK'
  BY <1>1 DEF TypeOK, Places
<1>3. EndInv'
  BY DEF EndInv, Fresh, Hooked
<1>4. TicketInv'
  BY DEF TicketInv, Done
<1>5. StopInv'
  BY DEF StopInv
<1> QED BY <1>2, <1>3, <1>4, <1>5

LEMMA NextCandidatePreserves ==
  ASSUME IInv, at = "calling", NextCandidate
  PROVE  IInv'
<1>1. CASE Abort(tickets)
  BY <1>1, AbortPreserves, TakenQueue DEF IInv, Asking
<1>2. CASE cur.cand < Fallbacks /\ CallCandidate(cur.cand + 1, 1)
  <2>1. cur.cand + 1 \in 0..Fallbacks /\ 1 \in 1..Attempts
    BY <1>2, BoundAssumption, FallbackAssumption DEF IInv, TypeOK, CurType
  <2> QED BY <1>2, <2>1, CallPreserves
<1>3. CASE Respond("err")
  BY <1>3, RespondPreserves
<1> QED BY <1>1, <1>2, <1>3 DEF NextCandidate

\* A step ends with no notice left in its results, and messages with notices only
\* where there were tools.
LEMMA StepEndsPreserves ==
  ASSUME IInv, at \in {"answered", "toolcall", "executing"}, StepEnds,
         tickets' \in [Tickets -> TicketStates],
         \A t \in Tickets :
           /\ tickets'[t] # "block"
           /\ tickets'[t] = "message" => run.tools
           /\ tickets'[t] \in {"pending", "dropped"} => tickets'[t] = tickets[t]
  PROVE  IInv'
<1> USE DEF IInv, Asking, Working
<1>1. /\ run' \in RunType /\ cur' \in CurType /\ conf' = conf /\ stop' = stop
      /\ run'.state = run.state /\ run'.final = run.final
      /\ run'.aborted = run.aborted /\ run'.dones = run.dones
  BY StepEndsEffect
<1>2. Fresh /\ run.state \in {"running", "done"}
  BY DEF EndInv
<1>3. at = "answered" => ~Done
  BY DEF EndInv, Done
<1>4. CASE at' = "over" /\ run' = run /\ (Done \/ run.forced)
  <2>1. TypeOK'
    BY <1>1, <1>4 DEF TypeOK, Places
  <2>2. EndInv'
    BY <1>2, <1>4 DEF EndInv, Fresh, Hooked, Done
  <2>3. TicketInv'
    BY <1>2, <1>3, <1>4 DEF TicketInv, Fresh, Done
  <2>4. StopInv'
    BY <1>1, <1>2, <1>3, <1>4 DEF StopInv, Done
  <2> QED BY <2>1, <2>2, <2>3, <2>4
<1>5. CASE at' = "compact" /\ ~Done /\ ~run.forced /\ (run'.forced => ~run'.tools)
  <2>1. TypeOK'
    BY <1>1, <1>5 DEF TypeOK, Places
  <2>2. EndInv'
    BY <1>1, <1>2, <1>5 DEF EndInv, Fresh, Hooked, Done
  <2>3. TicketInv'
    BY <1>1, <1>2, <1>5 DEF TicketInv, Fresh, Done
  <2>4. StopInv'
    BY <1>1, <1>5 DEF StopInv
  <2> QED BY <2>1, <2>2, <2>3, <2>4
<1> QED BY <1>4, <1>5, StepEndsEffect

LEMMA NextCallPreserves ==
  ASSUME IInv, at \in Working, run.tools, NEW f, Taken(f), NextCall(f)
  PROVE  IInv'
<1> USE DEF IInv, Asking, Working
<1>1. CASE /\ cur.left > 1
           /\ cur' = [cur EXCEPT !.left = cur.left - 1]
           /\ at' = "toolcall" /\ tickets' = f
           /\ UNCHANGED <<conf, run, stop>>
  <2>1. cur.left - 1 \in 0..MaxCalls
    BY <1>1, BoundAssumption DEF TypeOK, CurType
  <2>2. TypeOK'
    BY <1>1, <2>1 DEF TypeOK, Places, CurType, Taken
  <2>3. EndInv'
    BY <1>1 DEF EndInv, Fresh, Hooked
  <2>4. TicketInv'
    BY <1>1 DEF TicketInv, Taken, Done
  <2>5. StopInv'
    BY <1>1 DEF StopInv
  <2> QED BY <2>2, <2>3, <2>4, <2>5
<1>2. CASE tickets' = Extend(f) /\ StepEnds
  <2>1. tickets' \in [Tickets -> TicketStates]
    BY <1>2, QueueTypes DEF Taken
  <2>2. \A t \in Tickets :
          /\ tickets'[t] # "block"
          /\ tickets'[t] \in {"pending", "dropped"} => tickets'[t] = tickets[t]
    BY <1>2, MovedAt DEF Extend, Taken
  <2> QED BY <1>2, <2>1, <2>2, StepEndsPreserves
<1> QED BY <1>1, <1>2 DEF NextCall

-----------------------------------------------------------------------------
(* The actions.                                                            *)

LEMMA LoopInductive == IInv /\ Loop => IInv'
<1> SUFFICES ASSUME IInv, Loop PROVE IInv'
  OBVIOUS
<1> USE DEF IInv, Asking, Working
<1>q. Taken(tickets) /\ Taken(Consume(tickets))
  BY TakenQueue
<1>one. 0 \in 0..Fallbacks /\ 1 \in 1..Attempts
  BY BoundAssumption, FallbackAssumption
<1>1. CASE AgentBegin
  <2> USE <1>1 DEF AgentBegin
  <2>1. run' \in RunType
    BY DEF TypeOK, RunType
  <2>2. TypeOK'
    BY <2>1 DEF TypeOK, Places
  <2>3. run'.state = "running" /\ run'.final = run.final /\ run'.dones = run.dones
        /\ run'.aborted = run.aborted /\ run'.tools = run.tools /\ run'.forced = run.forced
    BY DEF TypeOK, RunType
  <2>4. EndInv'
    BY <2>3 DEF EndInv, Fresh, Hooked
  <2>5. TicketInv'
    BY <2>3 DEF TicketInv, Done, EndInv
  <2>6. StopInv'
    BY DEF StopInv
  <2> QED BY <2>2, <2>4, <2>5, <2>6
<1>2. CASE Compacted \/ Compacted426
  BY <1>2, <1>q, <1>one, AbortPreserves, CallPreserves DEF Compacted, Compacted426
<1>3. CASE StopWins
  BY <1>3, <1>q, AbortPreserves DEF StopWins
<1>4. CASE ChunkYielded
  <2>1. CASE Abort(tickets)
    BY <1>4, <2>1, <1>q, AbortPreserves DEF ChunkYielded
  <2>2. CASE at = "chunk" /\ at' = "calling" /\ UNCHANGED <<conf, run, cur, stop, tickets>>
    BY <2>2 DEF TypeOK, Places, EndInv, Fresh, Hooked, TicketInv, StopInv, Done
  <2> QED BY <1>4, <2>1, <2>2 DEF ChunkYielded
<1>5. CASE Retry \/ Retry426
  <2>1. CASE at = "backoff" /\ CallCandidate(cur.cand, cur.att + 1)
    <3>1. cur.cand \in 0..Fallbacks /\ cur.att + 1 \in 1..Attempts
      BY <2>1, BoundAssumption DEF TypeOK, CurType, EndInv
    <3> QED BY <2>1, <3>1, CallPreserves
  <2>2. CASE at = "backoff" /\ Abort(tickets)
    BY <2>2, <1>q, AbortPreserves
  <2> QED BY <1>5, <2>1, <2>2 DEF Retry, Retry426
<1>6. CASE AnswerStopped
  BY <1>6, <1>q, AbortPreserves DEF AnswerStopped
<1>7. CASE AnswerErr
  <2> USE <1>7 DEF AnswerErr
  <2>1. run' \in RunType
    BY DEF TypeOK, RunType
  <2>2. run'.state = "error" /\ run'.final = "err" /\ run'.dones = 0
        /\ run'.aborted = run.aborted /\ run'.tools = run.tools /\ run'.forced = run.forced
    BY DEF TypeOK, RunType, EndInv, Fresh
  <2>3. tickets' \in [Tickets -> TicketStates]
    BY QueueTypes DEF TypeOK
  <2>4. \A t \in Tickets : /\ tickets'[t] = tickets[t] \/ tickets'[t] = "returned"
                           /\ tickets'[t] # "pending"
    BY MovedAt DEF Resolve
  <2>5. TypeOK'
    BY <2>1, <2>3, NoCallType DEF TypeOK, Places
  <2>6. EndInv'
    BY <2>2 DEF EndInv, Fresh, Hooked
  <2>7. TicketInv'
    BY <2>2, <2>4 DEF TicketInv, Done
  <2>8. StopInv'
    BY <2>2 DEF StopInv, Stopped
  <2> QED BY <2>5, <2>6, <2>7, <2>8
<1>8. CASE AnswerNone
  BY <1>8, StepEndsPreserves DEF AnswerNone, TypeOK, TicketInv
<1>9. CASE AnswerText \/ RequeryCompletes
  BY <1>9, CompletePreserves DEF AnswerText, RequeryCompletes, StopInv
<1>10. CASE AnswerTools
  <2> USE <1>10 DEF AnswerTools
  <2>1. cur' \in CurType
    BY BoundAssumption DEF TypeOK, CurType
  <2>2. TypeOK'
    BY <2>1 DEF TypeOK, Places
  <2> QED BY <2>2 DEF EndInv, Fresh, Hooked, TicketInv, StopInv, Done
<1>11. CASE ToTools
  <2>1. CASE at = "reply" /\ Abort(tickets)
    BY <2>1, <1>q, AbortPreserves
  <2>2. CASE at = "reply" /\ at' = "toolcall" /\ UNCHANGED <<conf, run, cur, stop, tickets>>
    BY <2>2 DEF TypeOK, Places, EndInv, Fresh, Hooked, TicketInv, StopInv, Done
  <2> QED BY <1>11, <2>1, <2>2 DEF ToTools
<1>12. CASE Requery
  BY <1>12 DEF Requery, TypeOK, Places, EndInv, Fresh, Hooked, TicketInv, StopInv, Done
<1>13. CASE CallsWithoutTools
  BY <1>13, StepEndsPreserves DEF CallsWithoutTools, TypeOK, TicketInv
<1>14. CASE ToolNotFound
  BY <1>14, <1>q, NextCallPreserves DEF ToolNotFound
<1>15. CASE StartTool
  <2>1. CASE at = "toolcall" /\ Abort(tickets)
    BY <2>1, <1>q, AbortPreserves
  <2>2. CASE /\ at = "toolcall" /\ run.tools /\ at' = "executing"
             /\ UNCHANGED <<conf, run, cur, stop, tickets>>
    BY <2>2 DEF TypeOK, Places, EndInv, Fresh, Hooked, TicketInv, StopInv, Done
  <2> QED BY <1>15, <2>1, <2>2 DEF StartTool
<1>16. CASE ToolInterrupted
  BY <1>16, <1>q, AbortPreserves DEF ToolInterrupted
<1>17. CASE AgentDone
  <2> USE <1>17 DEF AgentDone
  <2>1. tickets' \in [Tickets -> TicketStates]
    BY QueueTypes DEF TypeOK
  <2>2. \A t \in Tickets : /\ tickets'[t] = tickets[t] \/ tickets'[t] = "returned"
                           /\ tickets'[t] # "pending"
    BY MovedAt DEF Resolve
  <2>3. TypeOK'
    BY <2>1 DEF TypeOK, Places
  <2>4. TicketInv'
    BY <2>2 DEF TicketInv, Done
  <2> QED BY <2>3, <2>4 DEF EndInv, Fresh, Hooked, StopInv
<1> QED BY <1>1, <1>2, <1>3, <1>4, <1>5, <1>6, <1>7, <1>8, <1>9, <1>10, <1>11, <1>12,
     <1>13, <1>14, <1>15, <1>16, <1>17 DEF Loop

LEMMA ProviderInductive == IInv /\ Provider => IInv'
<1> SUFFICES ASSUME IInv, Provider PROVE IInv'
  OBVIOUS
<1> USE DEF IInv, Asking, Working
<1>1. CASE ProviderStreams
  <2> USE <1>1 DEF ProviderStreams
  <2>1. cur' \in CurType
    BY DEF TypeOK, CurType
  <2>2. TypeOK'
    BY <2>1 DEF TypeOK, Places
  <2> QED BY <2>2 DEF EndInv, Fresh, Hooked, TicketInv, StopInv, Done
<1>2. CASE ProviderAnswers
  BY <1>2, NextCandidatePreserves, RespondPreserves DEF ProviderAnswers
<1>3. CASE StreamEnds
  BY <1>3, NextCandidatePreserves, RespondPreserves DEF StreamEnds
<1>4. CASE ProviderEmpty
  <2>1. CASE NextCandidate
    BY <1>4, <2>1, NextCandidatePreserves DEF ProviderEmpty
  <2>2. CASE /\ at = "calling" /\ at' = "backoff" /\ cur.att < Attempts
             /\ UNCHANGED <<conf, run, cur, stop, tickets>>
    BY <2>2 DEF TypeOK, Places, EndInv, Fresh, Hooked, TicketInv, StopInv, Done
  <2> QED BY <1>4, <2>1, <2>2 DEF ProviderEmpty
<1>5. CASE ProviderRaises
  BY <1>5, NextCandidatePreserves DEF ProviderRaises
<1>6. CASE Requeried
  <2>1. CASE Abort(tickets)
    BY <1>6, <2>1, AbortPreserves, TakenQueue DEF Requeried
  <2>2. CASE /\ at \in {"requery", "repair"} /\ at' \in {"toolcall", "requeried", "repair"}
             /\ cur' \in CurType /\ UNCHANGED <<conf, run, stop, tickets>>
    BY <2>2 DEF TypeOK, Places, EndInv, Fresh, Hooked, TicketInv, StopInv, Done
  <2>3. \A n \in 1..MaxCalls : [cur EXCEPT !.left = n] \in CurType
    BY BoundAssumption DEF TypeOK, CurType
  <2>4. cur \in CurType
    BY DEF TypeOK
  <2> QED BY <1>6, <2>1, <2>2, <2>3, <2>4 DEF Requeried
<1> QED BY <1>1, <1>2, <1>3, <1>4, <1>5, <1>6 DEF Provider

LEMMA ToolInductive == IInv /\ Tool => IInv'
<1> SUFFICES ASSUME IInv, Tool PROVE IInv'
  OBVIOUS
<1> USE DEF IInv, Asking, Working
<1>q. Taken(tickets) /\ Taken(Consume(tickets))
  BY TakenQueue
<1>t. \A t \in Tickets : Consume(tickets)[t] # "pending"
  BY MovedAt DEF Consume
<1>1. CASE at = "executing" /\ Abort(Consume(tickets))
  BY <1>1, <1>q, AbortPreserves
<1>2. CASE /\ at = "executing" /\ tickets' = Consume(tickets)
           /\ UNCHANGED <<conf, run, at, cur, stop>>
  BY <1>2, <1>q DEF TypeOK, EndInv, Fresh, Hooked, TicketInv, StopInv, Done, Taken
<1>3. CASE /\ at = "executing" /\ ~Stopped
           /\ run' = [run EXCEPT !.state = "done"] /\ tickets' = Consume(tickets)
           /\ UNCHANGED <<conf, at, cur, stop>>
  <2>1. run' \in RunType
    BY <1>3 DEF TypeOK, RunType
  <2>2. run'.state = "done" /\ run'.final = run.final /\ run'.dones = run.dones
        /\ run'.aborted = run.aborted /\ run'.tools = run.tools /\ run'.forced = run.forced
    BY <1>3 DEF TypeOK, RunType
  <2>3. TypeOK'
    BY <1>3, <1>q, <2>1 DEF TypeOK, Taken
  <2>4. EndInv'
    BY <1>3, <2>2 DEF EndInv, Fresh, Hooked
  <2>5. TicketInv'
    BY <1>3, <1>q, <1>t, <2>2 DEF TicketInv, Taken
  <2>6. StopInv'
    BY <1>3 DEF StopInv, Stopped
  <2> QED BY <2>3, <2>4, <2>5, <2>6
<1>4. CASE ToolEnds \/ ToolFails
  BY <1>4, <1>q, NextCallPreserves DEF ToolEnds, ToolFails, TicketInv
<1> QED BY <1>1, <1>2, <1>3, <1>4 DEF Tool, ToolResult, ToolDirect

\* The coroutine stands still, or is killed, while users act.
LEMMA UserInductive ==
  IInv /\ (RequestStop \/ (\E t \in Tickets : FollowUp(t)) \/ Die \/ UNCHANGED vars)
    => IInv'
<1> USE DEF IInv, Asking, Working
<1>1. IInv /\ RequestStop => IInv'
  BY DEF RequestStop, TypeOK, EndInv, Fresh, Hooked, TicketInv, StopInv, Done
<1>2. ASSUME IInv, NEW t \in Tickets, FollowUp(t)
      PROVE  IInv'
  <2> USE <1>2 DEF FollowUp
  <2>1. tickets' \in [Tickets -> TicketStates]
    BY DEF TypeOK, TicketStates
  <2>2. \A s \in Tickets : tickets'[s] = tickets[s] \/ tickets'[s] = "pending"
    BY DEF TypeOK
  <2>3. TicketInv'
    BY <2>2 DEF TicketInv, Done
  <2> QED BY <2>1, <2>3 DEF TypeOK, EndInv, Fresh, Hooked, StopInv
<1>3. IInv /\ Die => IInv'
  BY DEF Die, TypeOK, Places, EndInv, Fresh, Hooked, TicketInv, StopInv, Done
<1>4. IInv /\ UNCHANGED vars => IInv'
  BY DEF vars, TypeOK, EndInv, Fresh, Hooked, TicketInv, StopInv, Done
<1> QED BY <1>1, <1>2, <1>3, <1>4

LEMMA Initially == Init => IInv
<1> SUFFICES ASSUME Init PROVE IInv
  OBVIOUS
<1> USE DEF Init, IInv, Asking, Working
<1>1. run \in RunType /\ conf \in ConfType
  BY BoundAssumption DEF RunType, ConfType
<1>2. TypeOK
  BY <1>1, NoCallType DEF TypeOK, Places, TicketStates
<1> QED BY <1>2 DEF EndInv, Fresh, Hooked, TicketInv, StopInv, Done

\* The invariant of the tool loop holds throughout.
THEOREM LoopInvariance == Spec => []IInv
<1>1. IInv /\ [Next]_vars => IInv'
  BY LoopInductive, ProviderInductive, ToolInductive, UserInductive DEF Next
<1> QED BY Initially, <1>1, PTL DEF Spec

\* The six variables have their types, for every number of messages and providers.
THEOREM LoopTypes == Spec => []TypeOK
<1>1. IInv => TypeOK
  BY DEF IInv
<1> QED BY <1>1, LoopInvariance, PTL

\* A run that is done leaves no follow-up message in the queue, however many there
\* are and whatever ended it.
THEOREM SettledFollowUps == Spec => []FollowUpsSettled
<1>1. IInv => FollowUpsSettled
  BY DEF IInv, TicketInv, FollowUpsSettled, Done
<1> QED BY <1>1, LoopInvariance, PTL

\* A consumed follow-up message was sent to a provider, unless the run was stopped
\* or a tool answered the user.
THEOREM ToldFollowUps == Spec => []FollowUpsTold
<1>1. IInv => FollowUpsTold
  BY DEF IInv, TicketInv, FollowUpsTold, Working
<1> QED BY <1>1, LoopInvariance, PTL

\* on_agent_done is called once for an answer or a stop and never otherwise.
THEOREM OneDoneHook == Spec => []HookMatchesEnd
<1>1. IInv => HookMatchesEnd
  BY DEF IInv, EndInv, Hooked, Fresh, HookMatchesEnd
<1> QED BY <1>1, LoopInvariance, PTL

NoCallOnceDone ==
  /\ at \in {"calling", "chunk", "backoff", "requery", "repair"} => ~Done
  /\ at = "executing" => run.dones = 0

\* No provider is asked and no tool run once on_agent_done was called, and no provider
\* once the run is done in any way: nothing is sent that could carry a block whose
\* record was dropped.
THEOREM NothingAfterDone == Spec => []NoCallOnceDone
<1>1. IInv => NoCallOnceDone
  BY DEF IInv, EndInv, Fresh, Asking, Working, NoCallOnceDone, Done
<1> QED BY <1>1, LoopInvariance, PTL

\* A stop in time ends the run as an abort, with the two exceptions named.
THEOREM StopAborts == Spec => []StopIsAnswered
<1>1. IInv => StopIsAnswered
  BY DEF IInv, EndInv, Fresh, Hooked, StopInv, StopIsAnswered
<1> QED BY <1>1, LoopInvariance, PTL

-----------------------------------------------------------------------------
(* The refinement.                                                         *)

Fates == [t \in Tickets |-> FateOf(tickets[t])]

\* A step that those beside the run do not see.
LEMMA SilentStep ==
  ASSUME Life' = Life, Busy' = Busy, tickets' = tickets
  PROVE  UNCHANGED Promise!runVars
  BY DEF Promise!runVars

\* What the operations of the queue are for the sender of a message.
LEMMA FateMoves ==
  ASSUME TypeOK
  PROVE  /\ tickets' = Consume(tickets) => Promise!Moved("queued", "taken")
         /\ tickets' = Resolve(tickets) => Promise!Moved("queued", "returned")
         /\ tickets' = Extend(tickets) => Fates' = Fates
         /\ tickets' = Extend(Consume(tickets)) => Promise!Moved("queued", "taken")
         /\ (/\ tickets' = Sent(tickets)
             /\ \A t \in Tickets : tickets[t] # "block") => Promise!Moved("taken", "told")
<1> USE DEF TypeOK, TicketStates, FateOf, Fates, Promise!Moved
<1>1. tickets' = Consume(tickets) => Promise!Moved("queued", "taken")
  BY MovedAt DEF Consume
<1>2. tickets' = Resolve(tickets) => Promise!Moved("queued", "returned")
  BY MovedAt DEF Resolve
<1>3. tickets' = Extend(tickets) => Fates' = Fates
  BY MovedAt DEF Extend
<1>4. tickets' = Extend(Consume(tickets)) => Promise!Moved("queued", "taken")
  BY MovedAt DEF Extend, Consume
<1>5. (/\ tickets' = Sent(tickets)
       /\ \A t \in Tickets : tickets[t] # "block") => Promise!Moved("taken", "told")
  BY MovedAt DEF Sent
<1> QED BY <1>1, <1>2, <1>3, <1>4, <1>5

\* Where the coroutine stands decides what the others see of the run.
LEMMA LifeByPlace ==
  ASSUME IInv
  PROVE  /\ at \in Asking => Life = "open"
         /\ at \in Working => Life \in {"open", "closed"} /\ (Life = "open" <=> ~Done)
         /\ at \in {"begin"} \cup Asking \cup Working => ~run.aborted
         /\ at = "hook" => Life \in {"answered", "stopped"}
  BY DEF IInv, EndInv, Fresh, Hooked, Life, Done, Asking, Working

LEMMA AbortRefines ==
  ASSUME IInv, at \in Asking \cup Working,
         Abort(tickets) \/ (at = "executing" /\ Abort(Consume(tickets)))
  PROVE  Promise!Next
<1> PICK f \in {tickets, Consume(tickets)} : Abort(f)
  OBVIOUS
<1>1. run'.dones = run.dones + 1 /\ run.dones = 0 /\ run'.aborted /\ at' = "hook"
  BY EndWithEffect DEF IInv, Abort, EndInv, Fresh, Asking, Working
<1>2. Life \in {"open", "closed"} /\ Life' = "stopped" /\ Busy' = "no"
  BY <1>1, LifeByPlace DEF Life, Busy
<1> DEFINE lost == {t \in Tickets : tickets'[t] = "dropped" /\ tickets[t] # "dropped"}
<1>3. \A t \in Tickets :
        \/ tickets'[t] = tickets[t]
        \/ tickets'[t] = "dropped" /\ tickets[t] \in {"pending", "block"}
  BY MovedAt DEF Abort, Discard, Consume
<1>4. /\ lost \subseteq {t \in Tickets : Fates[t] \in {"queued", "taken"}}
      /\ Fates' = [t \in Tickets |-> IF t \in lost THEN "lost" ELSE Fates[t]]
  BY <1>3 DEF Fates, FateOf
<1>5. Promise!Stop
  BY <1>2, <1>4 DEF Promise!Stop, Fates
<1> QED BY <1>5 DEF Promise!Next

LEMMA CompleteRefines ==
  ASSUME IInv, at \in {"answered", "requeried"}, Complete
  PROVE  Promise!Next
<1>1. /\ run'.dones = run.dones + 1 /\ run.dones = 0 /\ ~run'.aborted
      /\ at' = "hook" /\ tickets' = tickets
  BY EndWithEffect DEF IInv, Complete, EndInv, Fresh, Asking
<1>2. Life = "open" /\ Busy = "no" /\ Life' = "answered" /\ Busy' = "no"
  BY <1>1, LifeByPlace DEF Life, Busy, Asking
<1>3. \A t \in Tickets : tickets[t] \notin {"block", "message"}
  BY DEF IInv, TicketInv, Working
<1>4. Promise!AllTold
  BY <1>3 DEF Promise!AllTold, FateOf, IInv, TypeOK, TicketStates
<1>5. Promise!Answer
  BY <1>1, <1>2, <1>4 DEF Promise!Answer
<1> QED BY <1>5 DEF Promise!Next

\* The messages go out to a provider; while one is being asked there are none.
LEMMA CallRefines ==
  ASSUME IInv, at \in {"compact", "calling", "backoff"},
         NEW c \in 0..Fallbacks, NEW a \in 1..Attempts, CallCandidate(c, a)
  PROVE  [Promise!Next]_Promise!runVars
<1>1. at' = "calling" /\ run' = run /\ tickets' = Sent(tickets)
  BY CallEffect DEF IInv
<1>2. Life = "open" /\ Life' = Life /\ Busy' = "asking"
  BY <1>1, LifeByPlace DEF Life, Busy, Done, Asking
<1>3. \A t \in Tickets : tickets[t] # "block"
  BY DEF IInv, TicketInv, Working
<1>4. CASE at = "compact"
  <2>1. Promise!Moved("taken", "told")
    BY <1>1, <1>3, FateMoves DEF IInv
  <2>2. Promise!Ask
    BY <1>2, <1>4, <2>1 DEF Promise!Ask, Busy
  <2> QED BY <2>2 DEF Promise!Next
<1>5. CASE at # "compact"
  <2>1. \A t \in Tickets : tickets[t] # "message"
    BY <1>5 DEF IInv, TicketInv
  <2>2. tickets' = tickets
    BY <1>1, <2>1, MovedAt DEF Sent, Moved, IInv, TypeOK
  <2> QED BY <1>2, <1>5, <2>2, SilentStep DEF Busy
<1> QED BY <1>4, <1>5

\* A step from which only the place is seen: the run rests.
LEMMA RestRefines ==
  ASSUME Life' = Life, Busy' = "no", tickets' = tickets
  PROVE  [Promise!Next]_Promise!runVars
<1>1. Promise!Rest
  BY DEF Promise!Rest
<1> QED BY <1>1 DEF Promise!Next

LEMMA NextCandidateRefines ==
  ASSUME IInv, at = "calling", NextCandidate
  PROVE  [Promise!Next]_Promise!runVars
<1>1. CASE Abort(tickets)
  BY <1>1, AbortRefines DEF Asking
<1>2. CASE cur.cand < Fallbacks /\ CallCandidate(cur.cand + 1, 1)
  <2>1. cur.cand + 1 \in 0..Fallbacks /\ 1 \in 1..Attempts
    BY <1>2, BoundAssumption, FallbackAssumption DEF IInv, TypeOK, CurType
  <2> QED BY <1>2, <2>1, CallRefines
<1>3. CASE Respond("err")
  BY <1>3, RestRefines DEF Respond, Life, Busy, Done
<1> QED BY <1>1, <1>2, <1>3 DEF NextCandidate

\* The end of a step leaves the run as it was and waits for nothing.
LEMMA StepEndsSeen ==
  ASSUME IInv, StepEnds
  PROVE  Life' = Life /\ Busy' = "no"
  BY StepEndsEffect DEF IInv, Life, Busy, Done

LEMMA NextCallRefines ==
  ASSUME IInv, at \in Working, NEW f \in {tickets, Consume(tickets)}, NextCall(f)
  PROVE  [Promise!Next]_Promise!runVars
<1>1. Life \in {"open", "closed"} /\ Busy \in {"no", "working"}
  BY LifeByPlace DEF Working, Busy
<1>2. Life' = Life /\ Busy' = "no"
  <2>1. CASE at' = "toolcall" /\ UNCHANGED <<conf, run, stop>>
    BY <2>1 DEF Life, Busy, Done
  <2>2. CASE StepEnds
    BY <2>2, StepEndsSeen
  <2> QED BY <2>1, <2>2 DEF NextCall
<1>3. tickets' \in {f, Extend(f)}
  BY DEF NextCall
<1>4. CASE f = tickets
  <2>1. Fates' = Fates
    BY <1>3, <1>4, FateMoves DEF IInv, Fates
  <2>2. Promise!Rest
    BY <1>2, <2>1 DEF Promise!Rest, Fates
  <2> QED BY <2>2 DEF Promise!Next
<1>5. CASE f = Consume(tickets)
  <2>1. Promise!Moved("queued", "taken")
    BY <1>3, <1>5, FateMoves DEF IInv
  <2>2. Promise!Take
    BY <1>1, <1>2, <2>1 DEF Promise!Take
  <2> QED BY <2>2 DEF Promise!Next
<1> QED BY <1>4, <1>5

LEMMA LoopRefines ==
  ASSUME IInv, Loop
  PROVE  [Promise!Next]_Promise!runVars
<1> DEFINE Goal == [Promise!Next]_Promise!runVars
<1>one. 0 \in 0..Fallbacks /\ 1 \in 1..Attempts
  BY BoundAssumption, FallbackAssumption
<1>stay. ASSUME run' = run, at' # "executing", at' \notin {"calling", "chunk", "backoff",
                "requery", "repair"}, tickets' = tickets
         PROVE  Goal
  BY <1>stay, RestRefines DEF Life, Busy, Done
<1>1. CASE AgentBegin
  <2>1. Life = "open" /\ Life' = "open"
    BY <1>1 DEF AgentBegin, IInv, TypeOK, RunType, EndInv, Fresh, Life, Done
  <2> QED BY <1>1, <2>1, RestRefines DEF AgentBegin, Busy
<1>2. CASE Compacted \/ Compacted426
  BY <1>2, <1>one, AbortRefines, CallRefines DEF Compacted, Compacted426, Asking
<1>3. CASE StopWins
  BY <1>3, AbortRefines DEF StopWins, Asking
<1>4. CASE ChunkYielded
  BY <1>4, AbortRefines, SilentStep DEF ChunkYielded, Asking, Life, Busy, Done
<1>5. CASE Retry \/ Retry426
  <2>1. cur.cand \in 0..Fallbacks /\ (at = "backoff" => cur.att + 1 \in 1..Attempts)
    BY BoundAssumption DEF IInv, TypeOK, CurType, EndInv
  <2> QED BY <1>5, <2>1, AbortRefines, CallRefines DEF Retry, Retry426, Asking
<1>6. CASE AnswerStopped
  BY <1>6, AbortRefines DEF AnswerStopped, Asking
<1>7. CASE AnswerErr
  <2>1. run'.state = "error" /\ run'.dones = run.dones /\ run.dones = 0
    BY <1>7 DEF AnswerErr, IInv, TypeOK, RunType, EndInv, Fresh, Asking
  <2>2. Life = "open" /\ Busy = "no" /\ Life' = "closed" /\ Busy' = "no"
    BY <1>7, <2>1, LifeByPlace DEF AnswerErr, Life, Busy, Done, Asking
  <2>3. Promise!Moved("queued", "returned")
    BY <1>7, FateMoves DEF AnswerErr, IInv
  <2>4. \A t \in Tickets : tickets[t] \notin {"block", "message"}
    BY <1>7 DEF AnswerErr, IInv, TicketInv, Working
  <2>5. Promise!AllTold
    BY <2>4 DEF Promise!AllTold, FateOf, IInv, TypeOK, TicketStates
  <2>6. Promise!Fail
    BY <2>2, <2>3, <2>5 DEF Promise!Fail
  <2> QED BY <2>6 DEF Promise!Next
<1>8. CASE AnswerNone \/ CallsWithoutTools
  BY <1>8, StepEndsSeen, RestRefines DEF AnswerNone, CallsWithoutTools
<1>9. CASE AnswerText \/ RequeryCompletes
  BY <1>9, CompleteRefines DEF AnswerText, RequeryCompletes
<1>10. CASE AnswerTools
  BY <1>10, <1>stay DEF AnswerTools
<1>11. CASE ToTools
  BY <1>11, <1>stay, AbortRefines DEF ToTools, Asking
<1>12. CASE Requery
  <2>1. Life = "open" /\ Life' = "open" /\ Busy = "no" /\ Busy' = "asking"
    BY <1>12, LifeByPlace DEF Requery, Life, Busy, Done, Asking
  <2>2. \A t \in Tickets : tickets[t] \notin {"block", "message"} /\ tickets'[t] = tickets[t]
    BY <1>12 DEF Requery, IInv, TicketInv, Working
  <2>3. Promise!Moved("taken", "told")
    BY <2>2 DEF Promise!Moved, FateOf, IInv, TypeOK, TicketStates
  <2>4. Promise!Ask
    BY <2>1, <2>3 DEF Promise!Ask
  <2> QED BY <2>4 DEF Promise!Next
<1>14. CASE ToolNotFound
  BY <1>14, NextCallRefines DEF ToolNotFound, Working
<1>15. CASE StartTool
  <2>1. CASE Abort(tickets)
    BY <1>15, <2>1, AbortRefines DEF StartTool, Working
  <2>2. CASE at' = "executing" /\ UNCHANGED <<conf, run, cur, stop, tickets>>
    <3>1. Life \in {"open", "closed"} /\ Life' = Life /\ Busy = "no" /\ Busy' = "working"
      BY <1>15, <2>2, LifeByPlace DEF StartTool, Life, Busy, Done, Working
    <3>2. Promise!Work
      BY <2>2, <3>1 DEF Promise!Work
    <3> QED BY <3>2 DEF Promise!Next
  <2> QED BY <1>15, <2>1, <2>2 DEF StartTool
<1>16. CASE ToolInterrupted
  BY <1>16, AbortRefines DEF ToolInterrupted, Working
<1>17. CASE AgentDone
  <2>1. Life \in {"answered", "stopped"} /\ Life' = Life /\ Busy' = Busy
    BY <1>17, LifeByPlace DEF AgentDone, Life, Busy, Done
  <2>2. Promise!Moved("queued", "returned")
    BY <1>17, FateMoves DEF AgentDone, IInv
  <2>3. Promise!HandBack
    BY <2>1, <2>2 DEF Promise!HandBack
  <2> QED BY <2>3 DEF Promise!Next
<1> QED BY <1>1, <1>2, <1>3, <1>4, <1>5, <1>6, <1>7, <1>8, <1>9, <1>10, <1>11, <1>12,
     <1>14, <1>15, <1>16, <1>17 DEF Loop

LEMMA ProviderRefines ==
  ASSUME IInv, Provider
  PROVE  [Promise!Next]_Promise!runVars
<1>1. CASE ProviderStreams
  BY <1>1, SilentStep DEF ProviderStreams, Life, Busy, Done
<1>2. ASSUME NEW kind, Respond(kind) PROVE [Promise!Next]_Promise!runVars
  BY <1>2, RestRefines DEF Respond, Life, Busy, Done
<1>3. CASE ProviderAnswers \/ StreamEnds \/ ProviderRaises
  BY <1>2, <1>3, NextCandidateRefines DEF ProviderAnswers, StreamEnds, ProviderRaises
<1>4. CASE ProviderEmpty
  <2>1. CASE at = "calling" /\ at' = "backoff" /\ UNCHANGED <<conf, run, cur, stop, tickets>>
    BY <2>1, SilentStep DEF Life, Busy, Done
  <2> QED BY <1>4, <2>1, NextCandidateRefines DEF ProviderEmpty
<1>5. CASE Requeried
  <2>1. CASE Abort(tickets)
    BY <1>5, <2>1, AbortRefines DEF Requeried, Asking
  <2>2. CASE at' = "repair" /\ UNCHANGED <<conf, run, stop, tickets>>
    BY <1>5, <2>2, SilentStep DEF Requeried, Life, Busy, Done
  <2>3. CASE at' \in {"toolcall", "requeried"} /\ UNCHANGED <<conf, run, stop, tickets>>
    BY <2>3, RestRefines DEF Life, Busy, Done
  <2> QED BY <1>5, <2>1, <2>2, <2>3 DEF Requeried
<1> QED BY <1>1, <1>3, <1>4, <1>5 DEF Provider

LEMMA ToolRefines ==
  ASSUME IInv, Tool
  PROVE  [Promise!Next]_Promise!runVars
<1>1. CASE at = "executing" /\ Abort(Consume(tickets))
  BY <1>1, AbortRefines DEF Working
<1>2. CASE at = "executing" /\ tickets' = Consume(tickets) /\ UNCHANGED <<at, run>>
  <2>1. Life \in {"open", "closed"} /\ Life' = Life /\ Busy = "working" /\ Busy' = Busy
    BY <1>2, LifeByPlace DEF Life, Busy, Done, Working
  <2>2. Promise!Moved("queued", "taken")
    BY <1>2, FateMoves DEF IInv
  <2>3. Promise!Take
    BY <2>1, <2>2 DEF Promise!Take
  <2> QED BY <2>3 DEF Promise!Next
<1>3. CASE /\ at = "executing" /\ at' = at
           /\ run' = [run EXCEPT !.state = "done"] /\ tickets' = Consume(tickets)
  <2>1. run'.state = "done" /\ run'.dones = run.dones /\ run.dones = 0
    BY <1>3 DEF IInv, TypeOK, RunType, EndInv, Fresh, Working
  <2>2. Life \in {"open", "closed"} /\ Life' = "closed" /\ Busy = "working" /\ Busy' = Busy
    BY <1>3, <2>1, LifeByPlace DEF Life, Busy, Done, Working
  <2>3. Promise!Moved("queued", "taken")
    BY <1>3, FateMoves DEF IInv
  <2>4. CASE Life = "open"
    <3>1. Promise!AnswerDirectly
      BY <2>2, <2>3, <2>4 DEF Promise!AnswerDirectly
    <3> QED BY <3>1 DEF Promise!Next
  <2>5. CASE Life = "closed"
    <3>1. Promise!Take
      BY <2>2, <2>3, <2>5 DEF Promise!Take
    <3> QED BY <3>1 DEF Promise!Next
  <2> QED BY <2>2, <2>4, <2>5
<1>4. CASE ToolEnds \/ ToolFails
  BY <1>4, NextCallRefines DEF ToolEnds, ToolFails, Working
<1> QED BY <1>1, <1>2, <1>3, <1>4 DEF Tool, ToolResult, ToolDirect

LEMMA UserRefines ==
  ASSUME IInv, RequestStop \/ (\E t \in Tickets : FollowUp(t)) \/ Die
  PROVE  [Promise!Next]_Promise!runVars
<1>1. CASE RequestStop
  BY <1>1, SilentStep DEF RequestStop, Life, Busy, Done
<1>2. ASSUME NEW t \in Tickets, FollowUp(t) PROVE Promise!Next
  <2>1. Life = "open" /\ Life' = Life /\ Busy' = Busy
    <3>1. run.dones = 0
      BY <1>2 DEF FollowUp, IInv, EndInv, Hooked, Fresh, Done
    <3> QED BY <1>2, <3>1 DEF FollowUp, Life, Busy, Done
  <2>2. Fates[t] = "free" /\ Fates' = [Fates EXCEPT ![t] = "queued"]
    BY <1>2 DEF FollowUp, Fates, FateOf, IInv, TypeOK
  <2>3. Promise!Post(t)
    BY <2>1, <2>2 DEF Promise!Post, Fates
  <2> QED BY <2>3 DEF Promise!Next
<1>3. CASE Die
  BY <1>3, RestRefines DEF Die, Life, Busy, Done
<1> QED BY <1>1, <1>2, <1>3

\* The tool loop implements the contract of a run: nothing is asked once a plugin has
\* dropped its record, and every follow-up message is told or handed back, for every
\* number of messages, steps, calls, candidates and attempts.
THEOREM ContractKept == Spec => ImplementsRunContract
<1>1. Init => Promise!Init
  <2> SUFFICES ASSUME Init PROVE Promise!Init
    OBVIOUS
  <2>1. Life = "open" /\ Busy = "no" /\ \A t \in Tickets : FateOf(tickets[t]) = "free"
    BY DEF Init, Life, Busy, Done, FateOf
  <2> QED BY <2>1 DEF Promise!Init
<1>2. IInv /\ [Next]_vars => [Promise!Next]_Promise!runVars
  <2>1. CASE UNCHANGED vars
    BY <2>1, SilentStep DEF vars, Life, Busy, Done
  <2> QED BY <2>1, LoopRefines, ProviderRefines, ToolRefines, UserRefines DEF Next
<1> QED BY <1>1, <1>2, LoopInvariance, PTL DEF Spec, ImplementsRunContract, Promise!Spec

=============================================================================
