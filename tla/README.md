# Specifications of astrbot_plugin_preference_profile

A TLA+ development of the plugin in `src/`: what it promises about private
preferences in chat turns, how its parts keep that promise when everything that
can happen at an `await`, between two SQL statements or between two messages
happens, and proofs of the most important promises for instances of any size.

Conventions: an action is the code between two points where somebody else can
act (an `await` in the asyncio code, a statement in the SQLite code, a message
for the commands); operators have the names of the code where TLA+ allows it;
`PROJECT.json` maps each definition to its lines. A definition whose comment
begins with "Mutant" or "As ... would be if" is not used by the specification:
it is the definition after it with one plausible mistake, and the property named
with it in `PROJECT.json` must fail when it takes that definition's place.

## 1. The system

The plugin keeps, for each *identity* (platform, bot account, persona, sender), a
profile of likes, dislikes and prohibitions, and administrators keep a template
of the same form for each persona. In a private chat, when the administrator's
switch and the user's own are on, it adds a short guidance block to the request
the host is about to send to a language model.

| component | state | operations | hard because |
| --- | --- | --- | --- |
| `injection.py`: `PreferenceInjector`, `TurnRegistry`, `ObservableConfig` | the DONE and STATE extras of an event; one `TurnRecord` per event, by its address: tokens, parts, weak references to event and run context, the blanking channel, dead or not | `handle` (on_llm_request, priority 20), `finalize` (priority -1000), `invalidate_runtime_messages` (on_agent_begin), `release_turn` (on_agent_done), `release_finished_or_dead` (decorating), task callback, weak-reference callback, `purge_identity`, `purge_all` | a coroutine with two awaits; invalidations pushed from other tasks at any await; the block is copied by the host and by other plugins; runs end in ways no hook reports; addresses are used again |
| host v3 patch (`integration/host-v3`): assembly and mapping | the request's parts, the message made of them, `_extra_runtime_pairs` and its channel marker | serialise, await media, build the message, bind the pairs | the source and its copy exist at different times |
| host v3 patch: the tool loop of the runner, in a 4.28 and a 4.26 copy | the runner's state, the abort signal, the follow-up queue, the messages | `step_until_done`: compaction, provider calls with retries and fallbacks, streams, a second query of `skills_like`, tool calls, `follow_up`, `request_stop`, the four ends of a run | a stop, a follow-up and an answer may meet at every await |
| `store.py`: `PrefStore` | the tables `entries` and `user_state`, the hooks | `upsert_entry`, `remove_entry`, `set_user_enabled`, `clear_user`, `clear_bot_template`, reads, `close` | several connections, statements that raise, crashes, optimistic revisions |
| `commands.py`: `CommandService`, bound in `main.py` | the clear codes (memory only), the configuration | `/xp on, off, set, remove, clear`, `/xp admin switch, template set, remove, clear`; the others read | each message is a task that awaits its identity; codes expire, are replaced, and are lost at a restart |
| `policy.py`, `prompt_builder.py` | none | `evaluate`, `render_decision` | two budgets that cut different things, a relation that tightens both |
| `identity.py`, `model.py` | none | identities, tag ids, validation | a conversation may resolve to another persona at any message |
| `relation_snapshot.py` | none; another plugin's database | `load` | two reads outside a transaction of a database somebody else writes |
| `bridge_guard.py`, `patches/0001` | the host's table of plugins, an extra of the event | `mode`, `mark_excluded`, `injection_allowed` | the other plugin may be loaded or switched on between two hooks |
| `main.py` | holds the others together | `initialize`, `terminate`, hook bindings, dispatch, saving the configuration | a save that fails is only logged |

Interactions: commands write to the store; a switch or a clear of a user commits
and then calls the store's hook, which purges that identity's turns; any write to
the configuration purges all turns; `terminate` purges all and closes the store.
A turn reads the store (`handle`), asks the relation reader, and re-reads the store
whenever a hook runs. The host calls the hooks in the order request hooks,
assembly, agent-begin, provider calls (with decorating hooks between them),
agent-done, and owns everything the block is copied into.

## 2. What makes each part correct

- A turn: no provider call carries the block after its consent was withdrawn; the
  registry can reach every block that may still be sent; nothing of other users and
  other plugins is touched; one block per event; records do not pile up.
- A guided turn: it does not enter the ledger that Context Bridge shares between
  sessions.
- The tool loop: `on_agent_done`, with which the plugin drops its record, is called
  once and nothing is sent after it; a stop ends the run; a follow-up message is
  told to the model or handed back.
- The store: it looks atomic to its callers, no update is computed from a row the
  caller did not read, nobody reads entries that are not committed, and every change
  of consent reaches the turns.
- The commands: a profile is deleted only on its own, fresh confirmation; the cap
  holds; answers are true.
- The policy: restrictions win: over intensities, over the budget, and over the
  cutting of the text.
- The relation reader: a restriction that stands is honoured, none is invented.

`PROJECT.json` lists under "hazards" each place where this could go wrong, with
the property that would show it.

## 3. Modules

### TurnInjection, DeliveryContract

`DeliveryContract` is the promise alone: a request is granted the consent of the
moment, the consent may be withdrawn for good, and a call is guided only while it
stands. `TurnInjection` is the implementation and refines it.

State: `cfg` (administrator's switch, whether the host dispatches the plugin's
hooks, whether the store is open), `users` (enabled and epoch of each), and per
turn `turn` (the event, where its coroutine is, the DONE extra, the epoch read),
`req` (the block in the request, its `_source_invalidated` mark, its serialised
copy, the runtime instance, other plugins' copies by the token they carry, the
marker and the pairs of the mapping) and `rec` (the record: held by the registry,
the STATE extra, dead, which of two tokens, its run context, its channel).
`consent`, `wire` and `blocks` in `turn` are history; no guard reads them.

A turn stands for the *address* of an event object. `EventGone` frees it at any
moment after the run, `Arrive` uses it again, and no record may survive in between.

Phases and the code between them: `persona` and `loading` are the two awaits of
`_handle_inner`; `hooks` lasts until the hook of priority -1000; `ready` until the
parts are serialised; `assembling` is the await of media; `assembled` until the
agent-begin hook, where other plugins' hooks may wait too; `running` is the tool
loop. Invalidations (`SetEnabled`, which stands for on, off and clear;
`WriteConfig`; `Deactivate`; `Terminate`) are possible in every phase.

Choices of the model: a check of the store may fail although nothing changed
(`CheckResults`), since the read may raise; a run may end in any phase without a
hook (`Abandon`); other plugins copy and remove temporary parts at their leisure
(`OtherHooks`); an event may be sent through the hooks twice (`Reruns`, which the
tests and `docs/ADR.md` take for possible). A turn that has no block yet when the
administrator's switch goes off and on again is counted as consented to, because
the recheck has no counter for the switch; the relation loader that is shipped
does not suspend, so there is no such window in practice. Entries are not part of
this module: setting or removing one does not invalidate a turn (of a removal the
documents say otherwise, see the findings). When the agent-begin hook finds a turn
invalid, it takes the event's state away before it releases the record, so the
mapping of the request is not emptied there as it is by every other release.

### TurnExclusion

The turns of `TurnInjection` beside the Context Bridge. `bridge` is the bridge's
entry in the host's table of plugins, `mark` what guard and bridge left on each
turn. The guard looks the entry up at every use and keeps nothing; where it says
no, the turn is given no guidance (`GuardedSkip`); where it says yes and the bridge
knows the protocol, the extra `uctx_bridge_turn_excluded` is set (`GuardedConsent`).
`Capture` is the bridge's own request hook with the check of `patches/0001`, and
`ChangeBridge` the host loading, patching, stopping or unloading it, at any await of
any turn. Every other action is the one of `TurnInjection` with the bridge left
alone. `moved` is history: the entry changed after the guard was asked for the turn.

### HostLoop, RunContract

`step_until_done` from the agent-begin hook to the end of the run, in both patched
copies (`conf.host`). `at` is the await or the yield at which the coroutine stands,
`cur` the locals of the step (candidate, attempt, whether this attempt has streamed,
what was received, the tool calls left), `run` the runner's fields, `stop` the abort
signal, `tickets` what became of each follow-up message. `stop` tells a request that
came in time from one that came when the run was done. Differences of the copies:
4.28 lets a stop win over an await of a provider and looks for it between candidates
and attempts (`Interruptible`); 4.26 waits (`Compacted426`, `Retry426`). What a
provider, a tool or a consumer of the generator does is chosen freely: pieces, then
anything; an error response, an empty output, an exception, calls of tools that do
not exist, tools that answer the user themselves or never return.

Things the code does that the model keeps although nothing in the documents speaks
of them: the run is left `RUNNING` when the step after the limit calls tools all the
same; a tool that answers the user itself sets the run to done without
`on_agent_done`, and the remaining calls of the response are still made; an attempt
that has streamed is retried as well, though the log line says it is skipped; an
exception in the second query leaves the generator with follow-ups unresolved
(`Die`); an error response to the second query is taken for an answer.

`TurnInjection` sees of all this `CallProvider`, `Decorate`, `Finish` and `Abandon`.
That nothing is sent after `on_agent_done`, which it takes for granted when `Finish`
drops the record, is part of `RunContract`, which `HostLoop` implements: a run is open,
answered, stopped or closed without the hook; it asks a provider only while it is open,
and tells it all messages taken in so far; an answer or an error leaves none untold; a
message is handed back only out of the queue, after the end. Steps, candidates, attempts,
streams and second queries are inside one `Ask` of the contract.

### PrefStore, AtomicStore

`AtomicStore` says that an operation takes effect at one instant or not at all,
that its answer tells which, and that a clear takes entries and consent together.
`PrefStore` executes the statements of `store.py`: each is an action, each may
raise, the process may die after each, and every other connection may act in
between. The write lock, the snapshot of a transaction and the roll-back of a
closed connection are SQLite's, modelled from how the code uses them and marked
external. `seen` is the entry the caller read before an update or a removal, as
all commands do. An entry is an AUTOINCREMENT id, a revision and what it says. `fired`
is the identity reported to the store's hooks by the step, if any. That a committed
change of consent is reported in the same step (`ConsentChangesAreReported`) is what
`TurnInjection` assumes of the store when `SetEnabled` purges as it moves the epoch; a
later operation must not commit what a failed one left in the transaction.

### Commands

The bodies of the commands that write. A handler awaits the identity of its
sender and reads nothing before; then it runs to its answer without a break. So the
model's action is a body, and any order of bodies, for any persona, is the
interleaving of the tasks. `asked` and `quoted` are history. The clock and the
restarts are there for the confirmation codes.

### Policy

`evaluate` and `render_decision` as functions of the entries of both sides, of the
relation and of the configured limits; the actions edit these inputs, so that what
an edit does to the next turn can be stated. Lengths of texts are the code's own
(header 84, token 14, notes 31 and 20 characters). The lines differ in length: by
tag, since names have 2 to 16 characters and the directions of both sides choose the
phrase (`AvoidLen`, `PositiveLen`; the instance has names of 2, 16 and 4 characters
and three phrases), and by level, since the word of level 2 is a character shorter
(`WordLen`). No line the code can make reaches `MAX_ITEM_CHARS`.

### RelationSnapshot

`load` as the reads it makes: `config.json`, the list of tables, `PRAGMA
user_version`, the row of `accounts`, the row of `timed_safety`, the clock. Each
statement is a transaction of its own, since the connection is in autocommit mode. `_load_sync` never suspends, so a writer on the
same event loop cannot come in between; one in a thread or a process of its own
can, and the model lets any write fall between any two reads. The code of Relation
Arc is not in this repository: the rows it writes are what the reader tells apart,
one identity at a time, and are external in the map. `moments` is history: what the
files and the clock were since `load` was called. The reader promises that a
restriction which stands throughout is honoured and that none is invented. It does
not promise the level of one instant: if the base is raised to a pause and the timed
pause removed between the two SELECTs, the snapshot has neither.

### MC modules and configurations

`MCTurnInjection`, `MCPrefStore`, `MCCommands` add symmetry (users and turns,
connections, personas and codes: no definition tells their members apart),
`MCPolicy` the configurations that are tried, `MCRelationSnapshot` the rows;
`MCTurnExclusion` and `MCHostLoop` only take the specification. Symmetry is not used
in runs that check liveness.

## 4. Runs

| run | instance | shows |
| --- | --- | --- |
| `turns` | 2 users, 2 addresses, epochs 0-1, patched host | types; a record outlives every call that can carry its block; one user's commands leave other turns alone |
| `hooks` | 1 user, 1 address, epochs 0-2, other hooks, reruns, fair | no revoked delivery, the inductive invariant, the delivery contract, one block per event, other plugins' copies survive, attached records drain |
| `bridge` | 1 user, 1 address, epochs 0-2, unpatched host, other hooks, reruns, every bridge | a guided turn stays out of the shared ledger; the inductive invariant of a host with the token alone, and its one gap |
| `host_loop` | 2 follow-ups, 3 steps and the one after, 2 calls a response, 2 fallbacks, 3 attempts, both copies, fair | follow-ups are settled and told, the end hook and the end agree, the loop implements the contract of a run, a stop ends the run |
| `store` | 2 connections, a user and a template, 1 tag, 1 status, ids and revisions to 2, epochs to 1 | types, exclusion of transactions, no read of what is not committed, no silent overwrite, no unreported change of consent, atomicity |
| `commands` | 1 user, 2 personas, 2 custom and 1 built-in tag, cap 1, 2 codes, time to 2 | clears need their own confirmation; the cap |
| `policy` | 3 tags, intensities 1 and 3, every relation, 2 configurations | restrictions win over intensity, budget and length; invitations and avoidances share the limit of items |
| `relation` | 4 rows of accounts, 3 of timed_safety, 2 writes, time to 1 | restrictions that stand are honoured, none is invented, nothing is guessed |
| `store_removal`, `store_wedge`, `commands_remove`, `policy_items` | as above | the findings |

Why the bounds are enough. Turns share nothing but the configuration and their
user's row, so two turns and two users show every interference of one with
another, and one turn shows all of its own; epoch 2 is an off followed by an on,
which an epoch that is only compared for equality must see. Two connections make
every conflict that `BEGIN IMMEDIATE` and a revision can make; a third would only
wait. Id 2 is an entry deleted and entered anew, revision 2 an update; epoch 1 is a
switch or a clear, and any further one is another of the same. `PrefStoreProofs` covers
any number of each. In the tool loop two follow-ups can be in two different states,
two calls make a first and a last, three candidates and three attempts a first, a
middle and a last, and three steps the same; the numbers of attempts are the code's,
those of steps and calls are of the configuration and the model. The cap,
codes and times are at the smallest values with something on both sides. Three
tags and budgets of one and two have tags kept, tags cut and avoidances that take
a slot; the two configurations cut the text between avoidances, before the first
invitation and between invitations.
Two writes of the other plugin are one between any two reads and a second to undo
it or to bring the pair out of step; one tick expires a row; the rows have a level on either side that is
above and one that is below the other's, and the proofs take any rows.
The bounds of counters are in the guards: `MaxEpoch` in `SetEnabled` and
`WriteState`, `MaxId` and `MaxRev` in `WriteEntry`, `MaxStep`, `MaxCalls`, `Fallbacks`
and `Attempts` in `HostLoop`, of which only `MaxCalls` is not the code's own, `MaxTime` in `Tick` of the commands, `MaxClock` and `MaxWrites` in `Tick` and
`Writes` of the relation.

Deadlock is checked in every run but `host_loop`, where a run ends and the messages
that may still come are bounded.

### Fairness

`TurnInjection!Fairness`: every host step of a turn, and the callback of its
finished task. The event loop resumes coroutines whose awaits return, and the tool
loop is bounded (`step_until_done`). Invalidations, other plugins, the collection of
an event and the end of a run context owe nothing.

`HostLoop!Fairness`: what the event loop owes, that hooks, pauses and consumers of
the generator return and that a stop which wins over an await is delivered. Nothing
is asked of users and tools, nor of the providers on 4.28, where a stopped call is
cancelled; on 4.26, where it is waited for, the provider has to go on answering or to
fail, or `StopEndsRun` would be false.

### Findings

1. `/xp remove` of a custom tag by its name answers "not set": setting stores
   `custom_<digest>`, removing looks for the name (`commands_remove`).
2. Avoidances are never cut, so a turn may tell more items than
   `max_inject_items`, which the docstring says includes them (`policy_items`). Only
   avoidances can do that: where anything is invited the limit holds
   (`InvitationsWithinLimit`).
3. Removing an entry calls no invalidation hook, though the comment in `store.py`
   says that every write which invalidates a profile does (`store_removal`).
4. A switch or a clear that raises inside its transaction leaves it open, and the
   connection cannot write any more (`store_wedge`).

## 5. Proofs

`TurnInjectionProofs`, for any number of users, turns and epochs:

- `TypeCorrect`, `OneBlockPerEvent`, `SelectiveInvalidation`, `RecordsOutliveCalls`,
  `StaleTextNever`: on every host.
- `ConsentCorrect`, `RevokedNeverDelivered`, `ContractImplemented`: on a host with the
  mapping patch (`ASSUME HostV3`).
- `UnpatchedCorrect`: what `UnpatchedInv` says of a host without it.

Assumptions: `UserAssumption`, `EpochAssumption`, `SwitchAssumption` of
`TurnInjection`, and `HostV3` where it says so. Nothing else.

The argument. "No revoked delivery" is not inductive: whether a later call is
guided depends on where the block stands now. `ConsentInv` says it of each stage:
a coroutine that waits with an old consent will find the epoch moved or the store
closed (`WaitingInv`); a block in the request has a live record and a valid consent,
and a serialised one that or a mark on its source, which the binding looks at
(`RequestInv`); a runtime block has a live record and its pair, so that a purge
blanks it through the mapping whether or not the agent-begin hook has run
(`RuntimeInv`). `BlankFacts` says what blanking does to such a request,
`TurnStepKeeps` has one step for each action of a turn and `InvalidationKeeps` one
for each invalidation. The other theorems about text follow from it. Refinement:
`TurnStepContract` and `WithdrawContract` map each step to one of the contract's or
to a stutter, with the invariant to show that a guided call has its consent.
`OneBlockPerEvent` has an invariant of its own, that a block implies the DONE extra.

Without the patch there are no pairs and no mark on the source: once the block is
serialised, nothing can blank it until the agent-begin hook attaches the run context.
`UnpatchedInv` keeps `WaitingInv` and has `TokenTurn` in place of the other parts. Up to
the serialisation a block has a live record and its consent; from there to the hook its
record stays in the registry, dead once it was invalidated, so that the hook will find
it (`BlankByToken`); in the run the record is attached and the consent stands, or the
hook was not run because the plugin is inactive. `TokenStep` and `WaitingStep` have one
step for each action of a turn, `TokenInvalidation` one for each invalidation
(`PurgeByToken`). `StaleTextNever` splits on the host and takes the invariant of each.

`TurnCopiesProofs`, for any number of users, turns and epochs, on both kinds of hosts:
`CopiesKept`. Its invariant follows what could be taken for the block (`Whole`) and the
copies through the request: until the agent-begin hook there is no run context to
blank through, or the request has neither block nor copies (`EarlyInv`); with the
mapping, whatever can be copied has left the marker, which settles the channel
(`MarkerInv`); without it, what is left of the block and the copies after the last
request hook meets the rotated token, or the hook was not called and will not be
(`TokenInv`). `BlankCopies` says what blanking takes.

`RelationSnapshotProofs`, for any rows, any number of writes and any time:
`RestrictionsHonoured`, `RestrictionsReal`, `SnapshotsFounded`, from `RowAssumption`
alone. The invariant `HeldWasSeen` says that each thing the reader holds was so at
some moment of the call, and that no moment is later than now: a timed row that is
live when it is judged was live when it was read (`EffectiveBounds`,
`EffectiveSource`, `JudgeHonours`, `JudgeInventsNothing`). Everything else keeps
what is said of the last snapshot (`OnlyJudgeReturns`).

`TypesKept` there says that the reader's and the writer's variables keep their types.

`TurnExclusionProofs`, on both kinds of hosts: `GuidancePrivate`, and
`ExclusionImplementsTurns`, that the composition does nothing to the turns which they
cannot do alone (`StepsAreTurnSteps`). What is proved of the turns therefore holds
beside every bridge: `TurnsKeepTypes`, `StaleTextNeverBeside`, `CopiesKeptBeside` and,
with `HostV3`, `ContractBeside` are one step each. `GuidancePrivate` is about the bridge itself. The property alone is not inductive, since a turn without a block
may be given one: `Private` says that from the moment the guard is asked until the
entry changes, the bridge is absent, stopped, or patched with the extra set, and that
before that moment it has taken nothing.

`PrefStoreProofs`, for any number of connections, users, templates and tags:
`StoreTypes`, `ExclusiveTransactions`, `NoPhantom`, `HonestWrites`, `ChangesReported`, and
`StoreIsAtomic`, that `PrefStore` implements `AtomicStore`. Assumptions: `OwnerAssumption`, `NoneAssumption`,
`BoundAssumption`. The invariant has a part for the lock (it is held by exactly the
connection with a transaction), one for the file (ids are below the next one) and one
for each connection: what it holds of its operation (`OpInv`), what it sees, the file
until it has written and afterwards the file with what it wrote (`ViewInv`), and what
its caller read (`SeenInv`). For the refinement, `Open`, `Begin` and the statements
before the commit are stutters, a commit is the abstract operation, and whatever
ends an operation otherwise refuses it; a read is a step that forgets the last answer.
`HonestWrites` needs that an entry which still has its id and its revision still says
what it said (`Dated`, `Later`). `ChangesReported` is what the turns rely on when their
`SetEnabled` purges in the step that changes the consent: only a commit changes what is
committed (`OnlyCommitChanges`), and what it commits is the effect of its own operation
(`CommitFacts`), never what an earlier one left in the transaction.

`CommandsProofs`, for any cap and any number of tags, codes and personas:
`CommandTypes`, `CapKept`, `WipesAreAsked`. To the types the invariant adds that the
entries are finite, that a profile is within the cap, and that a pending code was
shown to its sender for that profile (`PendingWasShown`).

`PolicyProofs`: `DecisionTypes`, `WishesRespected`, `ObstaclesTighten`, `InvitationsFit`,
`RestrictionsStay` and `TextFits`, for any tags, any limits and any lengths. The decision
is a function of the inputs, so only their types are invariant; the rest are facts about
what is computed from inputs of these types.

- Counting, for `ObstaclesTighten` and `InvitationsFit`: a new avoidance takes away at
  least as much room as it removes from those before a tag (`NewObstacle`,
  `RoomOfOneTag`, `KeptBefore`), so that no tag moves into the budget by it; the
  invitations kept have places 1 to the budget.
- Order and length, for `RestrictionsStay` and `TextFits`: `Sorted` puts each tag at the
  number of those that come before it, which is a bijection (`RanksSort`), so that the
  lines are the avoidances, then the invitations (`AvoidedSorted`, `KeptSorted`,
  `LinesFacts`). The sum of the lengths is a recursive function of the number of lines,
  and what is kept of them is a prefix that fits (`TextIsPrefix`). Where induction would
  be needed, the proofs take the least counterexample of a set of numbers, since the
  library's induction theorem cannot be instantiated (`FoldExists` gives the function
  that the sum is defined by).

Assumptions: `TagAssumption`, `WishAssumption`, `LimitAssumption`, `LengthAssumption`.

`HostLoopProofs`, for any numbers of steps, calls, candidates, attempts and messages:
`LoopTypes`, `SettledFollowUps`, `ToldFollowUps`, `OneDoneHook`, `NothingAfterDone`,
`StopAborts`, and `ContractKept`, that `HostLoop` implements `RunContract`. The invariant says at each place what the run has decided by then
(`EndInv`), where a consumed message can be (`TicketInv`: in a result only while the
tools run, in the messages only until the next call) and what a stop has done
(`StopInv`). For the refinement, `LifeByPlace` reads off the place what those beside the
run see of it. Each call of a provider after the first of a step is a stutter, because no
message stands in the messages by then (`CallRefines`); the aborts from all places are
one step of the contract (`AbortRefines`).

Only model-checked: liveness (`AttachedRecordsDrain`, `StopEndsRun`), which is out of the
prover's reach, and the four properties that the code does not have. Every other property
of a run is stated by a theorem.

## 6. Not modelled

- How the host resolves a persona, which is a look-up over its objects; what the model
  answers; the wording of texts; the validation of single fields, which is pure.
- What the runner puts into messages and tool results: overflow files, notices on
  repeated calls, images, modalities, the summary of a compaction. Requests without
  a message, and `skills_like` without tools, which the reset refuses.
- Which provider a later step starts from after a fallback: `HostLoop` begins each step
  with the first of its candidates, and the code with the one that answered last. The
  properties do not depend on which provider a candidate is.
- Administrators' `save_config`, which writes the host's file once and logs a failure.
- The code of Relation Arc and of Context Bridge, beyond what this repository reads of
  their files and patches into their hooks.

## 7. Plan

Built, in this order, because each leans on those before: the turn, the store, the
commands, the policy, the relation reader; then the bridge beside the turns and the
host's loop; the proofs of a module after its runs. What is left:

1. The turns together with the store's commits and the entries, to bound what an edit
   during a turn can leave behind (today only the finding on removals says so).
2. `TurnInjection` composed with `RunContract`, which `HostLoop` is proved to implement,
   so that `CallProvider`, `Finish` and `Abandon` are steps of a run that is stated once.
3. The saving of the configuration and a restart in between.
