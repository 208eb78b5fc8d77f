------------------------------- MODULE HostLoop -------------------------------
(***************************************************************************)
(* The tool loop of the host's runner that the mapping patch carries:      *)
(* step_until_done of tool_loop_agent_runner.py in integration/host-v3,    *)
(* from on_agent_begin to the end of the run, with fallback providers,     *)
(* retries, streaming, tool calls, a stop request and follow-up messages   *)
(* that may arrive at every await.  Both patched copies are covered: 4.28  *)
(* lets a stop interrupt a provider call, 4.26 waits for the provider.     *)
(*                                                                         *)
(* at is the await or the yield at which the run's coroutine stands; an    *)
(* action is the code from there to the next one.                          *)
(***************************************************************************)
EXTENDS Naturals

CONSTANTS
  Tickets,    \* follow-up messages
  MaxStep,    \* max_step of step_until_done
  MaxCalls,   \* bound on the tool calls of one response
  Fallbacks,  \* number of fallback providers
  Attempts    \* EMPTY_OUTPUT_RETRY_ATTEMPTS

ASSUME BoundAssumption == {MaxStep, MaxCalls, Attempts} \subseteq Nat \ {0}
ASSUME FallbackAssumption == Fallbacks \in Nat

VARIABLES
  conf,     \* host version, streaming, skills_like schemas, tools; never changes
  run,      \* the runner's state and the counters of step_until_done
  at,       \* where the coroutine waits
  cur,      \* locals of the provider call and of the tool calls in progress
  stop,     \* the abort signal
  tickets   \* what became of every follow-up message

vars == <<conf, run, at, cur, stop, tickets>>

-----------------------------------------------------------------------------
(* Data.                                                                   *)

ConfType == [host : {"4.26", "4.28"}, streaming : BOOLEAN, skills : BOOLEAN,
             tools : BOOLEAN]

\* tools: req.func_tool is set; forced: the step after the step limit; dones
\* counts the calls of on_agent_done.
RunType == [state : {"idle", "running", "done", "error"}, aborted : BOOLEAN,
            final : {"none", "answer", "err", "interrupted"}, tools : BOOLEAN,
            step : 1..MaxStep, forced : BOOLEAN, dones : Nat]

Places == {"begin", "compact", "calling", "chunk", "backoff", "answered", "reply",
           "requery", "repair", "requeried", "toolcall", "executing", "hook",
           "over", "gone"}

\* cand and att: index and attempt of the provider being asked; chunk: this
\* attempt has streamed something; resp: what was received; left: the tool calls
\* of the response not dealt with yet.
CurType == [cand : 0..Fallbacks, att : 1..Attempts, chunk : BOOLEAN,
            resp : {"none", "err", "text", "tools"}, left : 0..MaxCalls]

\* free: not sent; pending: queued; returned: resolved, not consumed.  Consumed
\* ones are told apart by where the notice with their text is: in a tool result of
\* this step, in the messages, sent to a provider, dropped with the results.
TicketStates == {"free", "pending", "returned", "block", "message", "sent", "dropped"}

NoCall == [cand |-> 0, att |-> 1, chunk |-> FALSE, resp |-> "none", left |-> 0]

\* A runner that has been reset.
Init ==
  /\ conf \in {c \in ConfType : c.skills => c.tools}
  /\ run = [state |-> "idle", aborted |-> FALSE, final |-> "none",
            tools |-> conf.tools, step |-> 1, forced |-> FALSE, dones |-> 0]
  /\ at = "begin"
  /\ cur = NoCall
  /\ stop = "no"
  /\ tickets = [t \in Tickets |-> "free"]

\* done().
Done == run.state \in {"done", "error"}
\* _is_stop_requested: history tells a stop requested in time from a late one.
Stopped == stop # "no"
\* 4.28 lets a stop win over an await of a provider (_await_or_stop) and looks for
\* it between the candidates and the attempts.
Interruptible == conf.host = "4.28"

-----------------------------------------------------------------------------
(* The follow-up queue.                                                    *)

Moved(f, from, to) == [t \in Tickets |-> IF f[t] = from THEN to ELSE f[t]]

\* _consume_follow_up_notice: into the tool result being appended.
Consume(f) == Moved(f, "pending", "block")
\* _resolve_unconsumed_follow_ups.
Resolve(f) == Moved(f, "pending", "returned")
\* Mutant of Extend: the notice does not reach the messages.
ExtendNothing(f) == f
\* The results of the step are put into the messages; the next provider call
\* sends them; an interrupted step loses them.
Extend(f) == Moved(f, "block", "message")
Sent(f) == Moved(f, "message", "sent")
Discard(f) == Moved(f, "block", "dropped")

\* Mutant of FollowUp: a run that is done still takes messages.
FollowUpAnytime(t) ==
  /\ tickets[t] = "free"
  /\ ~Stopped
  /\ tickets' = [tickets EXCEPT ![t] = "pending"]
  /\ UNCHANGED <<conf, run, at, cur, stop>>

\* follow_up: refused once the run is done or was asked to stop.
FollowUp(t) ==
  /\ tickets[t] = "free"
  /\ ~Done /\ ~Stopped
  /\ tickets' = [tickets EXCEPT ![t] = "pending"]
  /\ UNCHANGED <<conf, run, at, cur, stop>>

\* request_stop.
RequestStop ==
  /\ stop = "no"
  /\ stop' = IF Done THEN "late" ELSE "heard"
  /\ UNCHANGED <<conf, run, at, cur, tickets>>

-----------------------------------------------------------------------------
(* Ends of a step and of the run.                                          *)

\* The state is set and on_agent_done is awaited.
EndWith(final, aborted) ==
  /\ run' = [run EXCEPT !.state = "done", !.final = final, !.aborted = aborted,
                        !.dones = run.dones + 1]
  /\ at' = "hook"
  /\ cur' = NoCall
  /\ UNCHANGED <<conf, stop>>

\* _complete_with_assistant_response.
Complete == EndWith("answer", FALSE) /\ UNCHANGED tickets

\* _finalize_aborted_step; the tool results of the step are not in the messages.
Abort(f) == EndWith("interrupted", TRUE) /\ tickets' = Discard(f)

\* on_agent_done has returned or raised.
AgentDone ==
  /\ at = "hook"
  /\ at' = "over"
  /\ tickets' = Resolve(tickets)
  /\ UNCHANGED <<conf, run, cur, stop>>

\* Mutant of StepEnds: a run that a tool has ended goes on to the next step.
StepEndsAnyhow ==
  /\ cur' = NoCall
  /\ UNCHANGED <<conf, stop>>
  /\ \/ run.forced /\ at' = "over" /\ UNCHANGED run
     \/ /\ ~run.forced
        /\ at' = "compact"
        /\ run' = IF run.step < MaxStep THEN [run EXCEPT !.step = run.step + 1]
                  ELSE [run EXCEPT !.forced = TRUE, !.tools = FALSE]

\* step_until_done after a step: the next one, or one more without tools when the
\* limit is reached, and after that nothing, done or not.
StepEnds ==
  /\ cur' = NoCall
  /\ UNCHANGED <<conf, stop>>
  /\ \/ /\ Done \/ run.forced
        /\ at' = "over"
        /\ UNCHANGED run
     \/ /\ ~Done /\ ~run.forced
        /\ at' = "compact"
        /\ run' = IF run.step < MaxStep THEN [run EXCEPT !.step = run.step + 1]
                  ELSE [run EXCEPT !.forced = TRUE, !.tools = FALSE]

-----------------------------------------------------------------------------
(* The provider calls of a step.                                           *)

\* on_agent_begin has returned or raised; the messages are being compacted.
AgentBegin ==
  /\ at = "begin"
  /\ at' = "compact"
  /\ run' = [run EXCEPT !.state = "running"]
  /\ UNCHANGED <<conf, cur, stop, tickets>>

\* _iter_llm_responses: the messages go out to candidate c, attempt a.
CallCandidate(c, a) ==
  /\ at' = "calling"
  /\ cur' = [NoCall EXCEPT !.cand = c, !.att = a]
  /\ tickets' = Sent(tickets)
  /\ UNCHANGED <<conf, run, stop>>

\* Compacted, on 4.28: a stop is seen here or before the first candidate.
Compacted ==
  /\ at = "compact"
  /\ Interruptible
  /\ IF Stopped THEN Abort(tickets) ELSE CallCandidate(0, 1)

\* On 4.26 the provider is asked whatever was requested meanwhile.
Compacted426 ==
  /\ at = "compact"
  /\ ~Interruptible
  /\ CallCandidate(0, 1)

\* Mutant of StopWins: a call that does not stream is waited for.
StopWinsStreams ==
  /\ at = "calling"
  /\ Interruptible /\ Stopped /\ conf.streaming
  /\ Abort(tickets)

\* _await_or_stop: the stop wins over the provider, or over its next chunk.
StopWins ==
  /\ at = "calling"
  /\ Interruptible /\ Stopped
  /\ Abort(tickets)

\* The response the step goes on with; none when a stream gave chunks only.
Respond(kind) ==
  /\ at' = "answered"
  /\ cur' = [cur EXCEPT !.resp = kind]
  /\ UNCHANGED <<conf, run, stop, tickets>>

\* This candidate gave nothing: the next one, or an error once all have failed.
NextCandidate ==
  \/ /\ cur.cand < Fallbacks
     /\ IF Interruptible /\ Stopped THEN Abort(tickets)
        ELSE CallCandidate(cur.cand + 1, 1)
  \/ cur.cand = Fallbacks /\ Respond("err")

\* The provider streams a piece, which is yielded at once.
ProviderStreams ==
  /\ at = "calling"
  /\ conf.streaming
  /\ at' = "chunk"
  /\ cur' = [cur EXCEPT !.chunk = TRUE]
  /\ UNCHANGED <<conf, run, stop, tickets>>

ChunkYielded ==
  /\ at = "chunk"
  /\ \/ Stopped /\ Abort(tickets)
     \/ ~Stopped /\ at' = "calling" /\ UNCHANGED <<conf, run, cur, stop, tickets>>

\* A complete response: an error before any piece tries the next candidate.
ProviderAnswers ==
  /\ at = "calling"
  /\ \E kind \in {"err", "text", "tools"} :
       IF kind = "err" /\ ~cur.chunk /\ cur.cand < Fallbacks
       THEN NextCandidate ELSE Respond(kind)

\* A stream that ends without a complete response.
StreamEnds ==
  /\ at = "calling"
  /\ conf.streaming
  /\ IF cur.chunk THEN Respond("none") ELSE NextCandidate

\* Mutant of ProviderEmpty: one attempt too many.
ProviderEmptyMore ==
  /\ at = "calling"
  /\ \/ /\ cur.att <= Attempts
        /\ at' = "backoff"
        /\ UNCHANGED <<conf, run, cur, stop, tickets>>
     \/ cur.att > Attempts /\ NextCandidate

\* EmptyModelOutputError: the same candidate again, after a pause, even when some
\* pieces of the attempt have been yielded.
ProviderEmpty ==
  /\ at = "calling"
  /\ \/ /\ cur.att < Attempts
        /\ at' = "backoff"
        /\ UNCHANGED <<conf, run, cur, stop, tickets>>
     \/ cur.att = Attempts /\ NextCandidate

\* Any other exception: the next candidate, also in the middle of a stream.
ProviderRaises == at = "calling" /\ NextCandidate

\* The pause before the next attempt is over.
Retry ==
  /\ at = "backoff"
  /\ Interruptible
  /\ IF Stopped THEN Abort(tickets) ELSE CallCandidate(cur.cand, cur.att + 1)

Retry426 ==
  /\ at = "backoff"
  /\ ~Interruptible
  /\ CallCandidate(cur.cand, cur.att + 1)

-----------------------------------------------------------------------------
(* The response.                                                           *)

\* A stop that came while it was received discards the response.
AnswerStopped ==
  /\ at = "answered"
  /\ Stopped
  /\ Abort(tickets)

\* Mutant of AnswerErr: the queue is left as it is.
AnswerErrUnresolved ==
  /\ at = "answered"
  /\ ~Stopped /\ cur.resp = "err"
  /\ run' = [run EXCEPT !.state = "error", !.final = "err"]
  /\ at' = "over"
  /\ cur' = NoCall
  /\ UNCHANGED <<conf, stop, tickets>>

\* Mutant of AnswerErr: an error is completed as an answer is.
AnswerErrHooked ==
  /\ at = "answered"
  /\ ~Stopped /\ cur.resp = "err"
  /\ EndWith("err", FALSE)
  /\ UNCHANGED tickets

\* An error ends the run: on_agent_done is not called.
AnswerErr ==
  /\ at = "answered"
  /\ ~Stopped /\ cur.resp = "err"
  /\ run' = [run EXCEPT !.state = "error", !.final = "err"]
  /\ at' = "over"
  /\ cur' = NoCall
  /\ tickets' = Resolve(tickets)
  /\ UNCHANGED <<conf, stop>>

AnswerNone ==
  /\ at = "answered"
  /\ ~Stopped /\ cur.resp = "none"
  /\ StepEnds
  /\ UNCHANGED tickets

\* Mutant of AnswerText: a stop is not looked for.
AnswerTextStopped == at = "answered" /\ cur.resp = "text" /\ Complete

AnswerText ==
  /\ at = "answered"
  /\ ~Stopped /\ cur.resp = "text"
  /\ Complete

\* The text beside the tool calls is yielded first.
AnswerTools ==
  /\ at = "answered"
  /\ ~Stopped /\ cur.resp = "tools"
  /\ \E n \in 1..MaxCalls : cur' = [cur EXCEPT !.left = n]
  /\ at' = "reply"
  /\ UNCHANGED <<conf, run, stop, tickets>>

-----------------------------------------------------------------------------
(* skills_like: the tool calls are asked for once more, with parameters.   *)

\* To the tools; _resolve_tool_exec may have found nothing to ask for.
ToTools ==
  /\ at = "reply"
  /\ IF conf.skills /\ Interruptible /\ Stopped THEN Abort(tickets)
     ELSE at' = "toolcall" /\ UNCHANGED <<conf, run, cur, stop, tickets>>

Requery ==
  /\ at = "reply"
  /\ conf.skills /\ run.tools
  /\ at' = "requery"
  /\ UNCHANGED <<conf, run, cur, stop, tickets>>

\* The answer to the query: calls, a text, or neither, which is asked once more
\* and then taken for an answer.
Requeried ==
  /\ at \in {"requery", "repair"}
  /\ \/ Interruptible /\ Stopped /\ Abort(tickets)
     \/ /\ ~(Interruptible /\ Stopped)
        /\ \/ \E n \in 1..MaxCalls :
                cur' = [cur EXCEPT !.left = n] /\ at' = "toolcall"
           \/ at' = "requeried" /\ UNCHANGED cur
           \/ at = "requery" /\ at' = "repair" /\ UNCHANGED cur
        /\ UNCHANGED <<conf, run, stop, tickets>>

\* Its text was yielded; a stop that came meanwhile is not looked for.
RequeryCompletes == at = "requeried" /\ Complete

-----------------------------------------------------------------------------
(* The tool calls of a response.                                           *)

\* The next call of the response, or the end of the step, whose results go into
\* the messages.
NextCall(f) ==
  \/ /\ cur.left > 1
     /\ cur' = [cur EXCEPT !.left = cur.left - 1]
     /\ at' = "toolcall"
     /\ tickets' = f
     /\ UNCHANGED <<conf, run, stop>>
  \/ /\ cur.left = 1
     /\ tickets' = Extend(f)
     /\ StepEnds

\* The step after the limit has no tools: its calls are recorded, not answered.
CallsWithoutTools ==
  /\ at = "toolcall"
  /\ ~run.tools
  /\ StepEnds
  /\ UNCHANGED tickets

ToolNotFound ==
  /\ at = "toolcall"
  /\ run.tools
  /\ NextCall(Consume(tickets))

\* on_tool_start; the stop is looked for before the tool runs.
StartTool ==
  /\ at = "toolcall"
  /\ run.tools
  /\ \/ Stopped /\ Abort(tickets)
     \/ ~Stopped /\ at' = "executing" /\ UNCHANGED <<conf, run, cur, stop, tickets>>

\* _iter_tool_executor_results: the stop wins over the next result.
ToolInterrupted ==
  /\ at = "executing"
  /\ Stopped
  /\ Abort(tickets)

\* A result that was ready before the stop is still appended, and lost with the
\* others when the stop is looked for again.
ToolResult ==
  /\ at = "executing"
  /\ \/ Stopped /\ Abort(Consume(tickets))
     \/ /\ ~Stopped
        /\ tickets' = Consume(tickets)
        /\ UNCHANGED <<conf, run, at, cur, stop>>

\* Mutant of ToolDirect: nothing is appended.
ToolDirectAlone ==
  /\ at = "executing"
  /\ \/ Stopped /\ Abort(Consume(tickets))
     \/ /\ ~Stopped
        /\ run' = [run EXCEPT !.state = "done"]
        /\ UNCHANGED <<conf, at, cur, stop, tickets>>

\* The tool has answered the user itself: the run is done, though the remaining
\* calls are made and on_agent_done is not called.
ToolDirect ==
  /\ at = "executing"
  /\ \/ Stopped /\ Abort(Consume(tickets))
     \/ /\ ~Stopped
        /\ run' = [run EXCEPT !.state = "done"]
        /\ tickets' = Consume(tickets)
        /\ UNCHANGED <<conf, at, cur, stop>>

ToolEnds == at = "executing" /\ NextCall(tickets)

ToolFails == at = "executing" /\ NextCall(Consume(tickets))

\* The task is cancelled, or an exception nobody catches ends the generator (a
\* query for parameters, the compaction).
Die ==
  /\ at \notin {"over", "gone"}
  /\ at' = "gone"
  /\ UNCHANGED <<conf, run, cur, stop, tickets>>

-----------------------------------------------------------------------------

Provider ==
  \/ ProviderStreams \/ ProviderAnswers \/ StreamEnds \/ ProviderEmpty
  \/ ProviderRaises \/ Requeried

Tool == ToolResult \/ ToolDirect \/ ToolEnds \/ ToolFails

\* What the event loop owes: hooks, pauses and consumers of the generator return,
\* and a stop that wins over an await is delivered.
Loop ==
  \/ AgentBegin \/ Compacted \/ Compacted426 \/ StopWins \/ ChunkYielded
  \/ Retry \/ Retry426
  \/ AnswerStopped \/ AnswerErr \/ AnswerNone \/ AnswerText \/ AnswerTools
  \/ ToTools \/ Requery \/ RequeryCompletes
  \/ CallsWithoutTools \/ ToolNotFound \/ StartTool \/ ToolInterrupted \/ AgentDone

Next ==
  \/ Loop \/ Provider \/ Tool
  \/ RequestStop \/ (\E t \in Tickets : FollowUp(t)) \/ Die

Spec == Init /\ [][Next]_vars

\* Nothing is asked of the users, of the tools, and on 4.28 of the providers; a
\* stopped query for parameters is cancelled there as any call is.  On 4.26 a
\* provider that was asked has to go on answering or to fail.
Fairness ==
  /\ WF_vars(Loop)
  /\ WF_vars(Interruptible /\ Stopped /\ Requeried)
  /\ WF_vars(~Interruptible /\ Provider)

FairSpec == Spec /\ Fairness

-----------------------------------------------------------------------------
(* Properties.                                                             *)

\* Types of the six variables.
TypeOK ==
  /\ conf \in ConfType
  /\ run \in RunType
  /\ at \in Places
  /\ cur \in CurType
  /\ stop \in {"no", "heard", "late"}
  /\ tickets \in [Tickets -> TicketStates]

\* Once a run is done in any of the four ways (answer, error, stop, a tool that
\* answered the user), no follow-up message is left waiting in its queue: it was
\* told to the model or is handed back to be sent as a message of its own.
FollowUpsSettled ==
  at = "over" /\ Done => \A t \in Tickets : tickets[t] # "pending"

\* A message taken into a tool result was sent to a provider before the run ends,
\* so that it is not marked consumed for nothing; the exceptions are a run that
\* was stopped and one that a tool ended by answering the user itself.
FollowUpsTold ==
  at = "over" =>
    \A t \in Tickets :
      tickets[t] \in {"block", "message", "dropped"}
        => run.aborted \/ (run.state = "done" /\ run.final = "none")

\* on_agent_done, with which the plugin drops the record of the turn, is called at
\* most once, and has been called exactly when the run ended with an answer or by
\* a stop: not after an error, a tool's own answer or an exhausted step limit.
HookMatchesEnd ==
  /\ run.dones \in {0, 1}
  /\ at = "over" => (run.dones = 1 <=> run.final \in {"answer", "interrupted"})

\* A stop requested before the run was done is what ends it, as an abort; the
\* exceptions are the step after the limit when it calls tools, and the answer to
\* a query for parameters, after whose output nobody looks for a stop.
StopIsAnswered ==
  at = "over" /\ stop = "heard" =>
    \/ run.aborted
    \/ run.state = "running" /\ run.forced
    \/ run.final = "answer" /\ conf.skills

\* A stop ends the run though a tool never returns, and on 4.28 though a provider
\* never answers.
StopEndsRun == stop = "heard" ~> at \in {"over", "gone"}

\* The run as those beside it see it: how it ended, what it waits for, and what
\* became of a message.
Life ==
  IF run.dones > 0 THEN IF run.aborted THEN "stopped" ELSE "answered"
  ELSE IF Done THEN "closed" ELSE "open"
Busy ==
  IF at \in {"calling", "chunk", "backoff", "requery", "repair"} THEN "asking"
  ELSE IF at = "executing" THEN "working" ELSE "no"
FateOf(state) ==
  CASE state = "pending" -> "queued"
    [] state \in {"block", "message"} -> "taken"
    [] state = "sent" -> "told"
    [] state = "dropped" -> "lost"
    [] OTHER -> state

\* What the plugin, which drops the record of the turn in on_agent_done, and the
\* senders of messages are promised (RunContract): from then on no provider is asked
\* and no tool runs, and a run that is done in another way asks no provider either;
\* no message is told twice, or told and handed back.
Promise == INSTANCE RunContract WITH
  life <- Life, busy <- Busy, fate <- [t \in Tickets |-> FateOf(tickets[t])]

ImplementsRunContract == Promise!Spec

=============================================================================
