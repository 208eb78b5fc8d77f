------------------------- MODULE TurnInjectionProofs -------------------------
(***************************************************************************)
(* Theorems about TurnInjection for every set of users and of turns and    *)
(* every bound: types, the inductive invariants ConsentInv of a host with  *)
(* the mapping patch and UnpatchedInv of one without it, what follows from *)
(* them, and the delivery contract.                                        *)
(***************************************************************************)
EXTENDS TurnInjection, TLAPS

-----------------------------------------------------------------------------
(* Types.                                                                  *)

\* Blanking and releasing keep the types of a request and of a record.
LEMMA BlankType ==
  ASSUME NEW q \in ReqType, NEW r \in RecType
  PROVE  /\ BlankedRec(q, r) \in RecType
         /\ BlankRuntime(q, r) \in ReqType
         /\ BlankedReq(q, r) \in ReqType
         /\ Released(q) \in ReqType
<1>1. BlankedRec(q, r) \in RecType
  BY DEF BlankedRec, RecType, ReqType
<1>2. \A p \in ReqType, s \in RecType : BlankRuntime(p, s) \in ReqType
  BY DEF BlankRuntime, ReqType, RecType
<1>3. BlankedReq(q, r) \in ReqType
  <2> DEFINE unlinked == [q EXCEPT !.own = IF r.state THEN FALSE ELSE @,
                                   !.mark = TRUE,
                                   !.rt = IF r.state /\ q.pairs /\ q.rt = "text"
                                          THEN "blank" ELSE @]
  <2>1. unlinked \in ReqType
    BY DEF ReqType, RecType
  <2>2. BlankRuntime(unlinked, BlankedRec(q, r)) \in ReqType
    BY <1>1, <1>2, <2>1
  <2>. QED
    BY <2>1, <2>2 DEF BlankedReq
<1>4. Released(q) \in ReqType
  BY DEF Released, ReqType
<1>. QED
  BY <1>1, <1>2, <1>3, <1>4

\* A purge keeps the types of the records and of the requests.
LEMMA PurgeType ==
  ASSUME req \in [Turns -> ReqType], rec \in [Turns -> RecType],
         NEW S \in SUBSET Turns, Purge(S)
  PROVE  req' \in [Turns -> ReqType] /\ rec' \in [Turns -> RecType]
<1>1. NoRec \in RecType
  BY DEF NoRec, RecType
<1>2. \A t \in Turns :
        /\ BlankedRec(req[t], rec[t]) \in RecType
        /\ BlankedReq(req[t], rec[t]) \in ReqType
        /\ Released(BlankedReq(req[t], rec[t])) \in ReqType
  BY BlankType
<1>. QED
  BY <1>1, <1>2 DEF Purge

\* So does withdrawing consents.
LEMMA WithdrawType ==
  ASSUME turn \in [Turns -> TurnType], NEW S \in SUBSET Turns, Withdraw(S)
  PROVE  turn' \in [Turns -> TurnType]
<1>1. \A x \in TurnType :
        [x EXCEPT !.consent = "withdrawn", !.wire = "none"] \in TurnType
  BY DEF TurnType, TurnFields
<1>. QED
  BY <1>1 DEF Withdraw

\* The field updates that the steps of a turn make are well typed.
LEMMA TurnUpdates ==
  ASSUME NEW x \in TurnType, x.phase # "idle"
  PROVE  /\ \A p \in Phases : [x EXCEPT !.phase = p] \in TurnType
         /\ \A p \in Phases, d \in BOOLEAN : [x EXCEPT !.phase = p, !.done = d] \in TurnType
         /\ \A p \in Phases : [x EXCEPT !.phase = p, !.done = TRUE, !.blocks = x.blocks + 1] \in TurnType
         /\ \A p \in Phases, e \in 0..MaxEpoch :
               [x EXCEPT !.phase = p, !.snap = e, !.consent = "granted"] \in TurnType
         /\ \A p \in Phases : [x EXCEPT !.phase = p, !.consent = "none", !.wire = "none"] \in TurnType
         /\ \A p \in Phases : [x EXCEPT !.phase = p, !.rerun = TRUE] \in TurnType
         /\ \A w \in {"plain", "guided"} : [x EXCEPT !.wire = w] \in TurnType
<1>0. x \in TurnFields /\ x.who \in Users /\ x.blocks + 1 \in Nat
  BY DEF TurnType, TurnFields
<1>a. \A y \in TurnFields : y.who = x.who => y \in TurnType
  BY <1>0 DEF TurnType
<1>1. \A p \in Phases : [x EXCEPT !.phase = p] \in TurnType
  BY <1>0, <1>a DEF TurnFields
<1>2. \A p \in Phases, d \in BOOLEAN : [x EXCEPT !.phase = p, !.done = d] \in TurnType
  BY <1>0, <1>a DEF TurnFields
<1>3. \A p \in Phases : [x EXCEPT !.phase = p, !.done = TRUE, !.blocks = x.blocks + 1] \in TurnType
  <2>1. \A p \in Phases, n \in Nat : [x EXCEPT !.phase = p, !.done = TRUE, !.blocks = n] \in TurnType
    BY <1>0, <1>a DEF TurnFields
  <2>. QED
    BY <1>0, <2>1
<1>4. \A p \in Phases, e \in 0..MaxEpoch :
        [x EXCEPT !.phase = p, !.snap = e, !.consent = "granted"] \in TurnType
  BY <1>0, <1>a DEF TurnFields
<1>5. \A p \in Phases : [x EXCEPT !.phase = p, !.consent = "none", !.wire = "none"] \in TurnType
  BY <1>0, <1>a DEF TurnFields
<1>6. \A p \in Phases : [x EXCEPT !.phase = p, !.rerun = TRUE] \in TurnType
  BY <1>0, <1>a DEF TurnFields
<1>7. \A w \in {"plain", "guided"} : [x EXCEPT !.wire = w] \in TurnType
  BY <1>0, <1>a DEF TurnFields
<1>. QED
  BY <1>1, <1>2, <1>3, <1>4, <1>5, <1>6, <1>7

LEMMA ReqFields ==
  /\ \A q \in ReqType, b \in BOOLEAN : [q EXCEPT !.own = b] \in ReqType
  /\ \A q \in ReqType, c \in {0, 1} : [q EXCEPT !.copies = q.copies \cup {c}] \in ReqType
  /\ \A q \in ReqType : [q EXCEPT !.rt = "none", !.pairs = FALSE] \in ReqType
  /\ \A q \in ReqType, k \in {"none", "text"} : [q EXCEPT !.block = k] \in ReqType
  /\ \A q \in ReqType, v \in {"none", "text", "blank"}, m, b \in BOOLEAN : [q EXCEPT !.rt = v, !.marker = m, !.pairs = b] \in ReqType
  /\ NoReq \in ReqType
<1>1. \A q \in ReqType, b \in BOOLEAN : [q EXCEPT !.own = b] \in ReqType
  BY DEF ReqType, NoReq
<1>2. \A q \in ReqType, c \in {0, 1} : [q EXCEPT !.copies = q.copies \cup {c}] \in ReqType
  BY DEF ReqType, NoReq
<1>3. \A q \in ReqType : [q EXCEPT !.rt = "none", !.pairs = FALSE] \in ReqType
  BY DEF ReqType, NoReq
<1>4. \A q \in ReqType, k \in {"none", "text"} : [q EXCEPT !.block = k] \in ReqType
  BY DEF ReqType, NoReq
<1>5. \A q \in ReqType, v \in {"none", "text", "blank"}, m, b \in BOOLEAN : [q EXCEPT !.rt = v, !.marker = m, !.pairs = b] \in ReqType
  BY DEF ReqType, NoReq
<1>6. NoReq \in ReqType
  BY DEF ReqType, NoReq
<1>. QED
  BY <1>1, <1>2, <1>3, <1>4, <1>5, <1>6

LEMMA RecFields ==
  /\ NoRec \in RecType
  /\ [NoRec EXCEPT !.held = TRUE, !.state = TRUE] \in RecType
  /\ \A r \in RecType, c \in {0, 1} : [r EXCEPT !.tok = c] \in RecType
  /\ \A r \in RecType, c \in {0, 1} : [r EXCEPT !.dead = TRUE, !.state = FALSE, !.tok = c] \in RecType
  /\ \A r \in RecType, a \in {"no", "live", "lost"} : [r EXCEPT !.attach = a] \in RecType
  /\ \A r \in RecType, a \in {"no", "live", "lost"}, h \in {"token", "identity"} : [r EXCEPT !.attach = a, !.channel = h] \in RecType
<1>1. NoRec \in RecType
  BY DEF RecType, NoRec
<1>2. [NoRec EXCEPT !.held = TRUE, !.state = TRUE] \in RecType
  BY DEF RecType, NoRec
<1>3. \A r \in RecType, c \in {0, 1} : [r EXCEPT !.tok = c] \in RecType
  BY DEF RecType, NoRec
<1>4. \A r \in RecType, c \in {0, 1} : [r EXCEPT !.dead = TRUE, !.state = FALSE, !.tok = c] \in RecType
  BY DEF RecType, NoRec
<1>5. \A r \in RecType, a \in {"no", "live", "lost"} : [r EXCEPT !.attach = a] \in RecType
  BY DEF RecType, NoRec
<1>6. \A r \in RecType, a \in {"no", "live", "lost"}, h \in {"token", "identity"} : [r EXCEPT !.attach = a, !.channel = h] \in RecType
  BY DEF RecType, NoRec
<1>. QED
  BY <1>1, <1>2, <1>3, <1>4, <1>5, <1>6

\* What a turn, a request and a record are made of, where a step reads them.
LEMMA FieldTypes ==
  /\ \A x \in TurnType : x.phase \in Phases /\ x.done \in BOOLEAN /\ x.who \in Users \cup {NoUser}
  /\ \A q \in ReqType : q.mark \in BOOLEAN /\ q.marker \in BOOLEAN /\ q.pairs \in BOOLEAN
  /\ \A q \in ReqType : q.block \in {"none", "text"} /\ q.rt \in {"none", "text", "blank"}
  /\ \A r \in RecType : r.tok \in {0, 1} /\ r.attach \in {"no", "live", "lost"} /\ r.channel \in {"token", "identity"}
  /\ \A r \in RecType : r.held \in BOOLEAN /\ r.state \in BOOLEAN /\ r.dead \in BOOLEAN
<1>1. \A x \in TurnType : x.phase \in Phases /\ x.done \in BOOLEAN /\ x.who \in Users \cup {NoUser}
  BY DEF TurnType, TurnFields, ReqType, RecType
<1>2. \A q \in ReqType : q.mark \in BOOLEAN /\ q.marker \in BOOLEAN /\ q.pairs \in BOOLEAN
  BY DEF TurnType, TurnFields, ReqType, RecType
<1>3. \A q \in ReqType : q.block \in {"none", "text"} /\ q.rt \in {"none", "text", "blank"}
  BY DEF TurnType, TurnFields, ReqType, RecType
<1>4. \A r \in RecType : r.tok \in {0, 1} /\ r.attach \in {"no", "live", "lost"} /\ r.channel \in {"token", "identity"}
  BY DEF TurnType, TurnFields, ReqType, RecType
<1>5. \A r \in RecType : r.held \in BOOLEAN /\ r.state \in BOOLEAN /\ r.dead \in BOOLEAN
  BY DEF TurnType, TurnFields, ReqType, RecType
<1>. QED
  BY <1>1, <1>2, <1>3, <1>4, <1>5

LEMMA NoTurnType ==
  /\ NoTurn(NoUser) \in TurnType
  /\ \A u \in Users, p \in Phases : [NoTurn(u) EXCEPT !.phase = p] \in TurnType
<1>1. \A u \in Users \cup {NoUser} : NoTurn(u) \in TurnFields
  BY EpochAssumption DEF NoTurn, TurnFields, Phases
<1>2. NoTurn(NoUser) \in TurnType
  <2>1. NoTurn(NoUser).phase = "idle"
    BY DEF NoTurn
  <2>. QED
    BY <1>1, <2>1 DEF TurnType
<1>3. ASSUME NEW u \in Users, NEW p \in Phases
      PROVE  [NoTurn(u) EXCEPT !.phase = p] \in TurnType
  <2>1. \A y \in TurnFields :
          [y EXCEPT !.phase = p] \in TurnFields /\ [y EXCEPT !.phase = p].who = y.who
    BY DEF TurnFields
  <2>2. NoTurn(u).who = u
    BY DEF NoTurn
  <2>3. PICK y \in TurnFields : y = [NoTurn(u) EXCEPT !.phase = p] /\ y.who = u
    BY <1>1, <2>1, <2>2
  <2>4. y \in TurnType
    BY <2>3 DEF TurnType
  <2>. QED
    BY <2>3, <2>4
<1>. QED
  BY <1>2, <1>3

LEMMA HandleBeginType ==
  ASSUME NEW d \in BOOLEAN PROVE HandleBegin(d) \in Phases
BY DEF HandleBegin, Phases, InFlight

\* In every state of every run the five variables have their types.
THEOREM TypeCorrect == Spec => []TypeOK
<1>1. Init => TypeOK
  <2> SUFFICES ASSUME Init PROVE TypeOK
    OBVIOUS
  <2>1. users \in [Users -> [enabled : BOOLEAN, epoch : 0..MaxEpoch]]
    BY EpochAssumption DEF Init
  <2>2. turn \in [Turns -> TurnType]
    BY NoTurnType DEF Init
  <2>. QED
    BY <2>1, <2>2, ReqFields, RecFields DEF Init, TypeOK
<1>2. TypeOK /\ [Next]_vars => TypeOK'
  <2> SUFFICES ASSUME TypeOK, [Next]_vars PROVE TypeOK'
    OBVIOUS
  <2> USE UserAssumption, EpochAssumption
  <2>1. ASSUME NEW u \in Users, NEW on \in BOOLEAN, SetEnabled(u, on)
        PROVE  TypeOK'
    <3>1. OfUser(u) \in SUBSET Turns /\ {} \in SUBSET Turns
      BY DEF OfUser
    <3>2. turn' \in [Turns -> TurnType]
      BY <2>1, <3>1, WithdrawType DEF SetEnabled, TypeOK
    <3>3. req' \in [Turns -> ReqType] /\ rec' \in [Turns -> RecType]
      BY <2>1, <3>1, PurgeType DEF SetEnabled, TypeOK
    <3>4. users' \in [Users -> [enabled : BOOLEAN, epoch : 0..MaxEpoch]]
      BY <2>1 DEF SetEnabled, TypeOK
    <3>. QED
      BY <2>1, <3>2, <3>3, <3>4 DEF SetEnabled, TypeOK
  <2>2. ASSUME NEW b \in BOOLEAN, WriteConfig(b) PROVE TypeOK'
    <3>1. turn' \in [Turns -> TurnType]
      <4>1. {} \in SUBSET Turns /\ {t \in Turns : turn[t].blocks > 0} \in SUBSET Turns
        OBVIOUS
      <4>. QED
        BY <2>2, <4>1, WithdrawType DEF WriteConfig, TypeOK
    <3>2. req' \in [Turns -> ReqType] /\ rec' \in [Turns -> RecType]
      BY <2>2, PurgeType DEF WriteConfig, TypeOK
    <3>. QED
      BY <2>2, <3>1, <3>2 DEF WriteConfig, TypeOK
  <2>3. CASE Deactivate
    BY <2>3 DEF Deactivate, TypeOK
  <2>4. CASE Terminate
    <3>1. turn' \in [Turns -> TurnType]
      BY <2>4, WithdrawType DEF Terminate, TypeOK
    <3>2. req' \in [Turns -> ReqType] /\ rec' \in [Turns -> RecType]
      BY <2>4, PurgeType DEF Terminate, TypeOK
    <3>. QED
      BY <2>4, <3>1, <3>2 DEF Terminate, TypeOK
  <2>5. ASSUME NEW t \in Turns, TurnStep(t) PROVE TypeOK'
    <3> USE DEF TypeOK
    <3> turn[t] \in TurnType /\ req[t] \in ReqType /\ rec[t] \in RecType
      OBVIOUS
    <3>a. \A p \in {"persona", "loading", "hooks", "ready", "assembling",
                    "assembled", "running", "over"} : p \in Phases
      BY DEF Phases, InFlight
    <3>1. CASE ReadConsent(t)
      <4>1. turn[t].phase # "idle" /\ turn[t].who \in Users
        BY <3>1 DEF ReadConsent, TurnType
      <4>2. users[turn[t].who].epoch \in 0..MaxEpoch
        BY <4>1
      <4>. QED
        BY <3>1, <3>a, <4>1, <4>2, TurnUpdates DEF ReadConsent
    <3>2. CASE HandleSkip(t)
      <4>1. PICK d \in BOOLEAN : turn' = [turn EXCEPT ![t] = [@ EXCEPT !.phase = "hooks", !.done = d]]
        BY <3>2 DEF HandleSkip
      <4>2. [turn[t] EXCEPT !.phase = "hooks", !.done = d] \in TurnType
        BY <3>2, <3>a, TurnUpdates DEF HandleSkip
      <4>. QED
        BY <3>2, <4>1, <4>2 DEF HandleSkip
    <3>3. CASE Inject(t)
      <4>1. [turn[t] EXCEPT !.phase = "hooks", !.done = TRUE, !.blocks = turn[t].blocks + 1] \in TurnType
        BY <3>3, <3>a, TurnUpdates DEF Inject
      <4>2. [req[t] EXCEPT !.own = TRUE] \in ReqType
        BY ReqFields
      <4>. QED
        BY <3>3, <4>1, <4>2, RecFields DEF Inject
    <3>4. CASE LoadSkip(t)
      <4>1. PICK d \in BOOLEAN : turn' = [turn EXCEPT ![t] = [@ EXCEPT !.phase = "hooks", !.done = d]]
        BY <3>4 DEF LoadSkip
      <4>2. [turn[t] EXCEPT !.phase = "hooks", !.done = d] \in TurnType
        BY <3>4, <3>a, TurnUpdates DEF LoadSkip
      <4>. QED
        BY <3>4, <4>1, <4>2 DEF LoadSkip
    <3>5. CASE CopyBlock(t)
      BY <3>5, FieldTypes, ReqFields DEF CopyBlock
    <3>6. CASE RemoveBlock(t)
      <4>1. [req[t] EXCEPT !.own = FALSE] \in ReqType
        BY ReqFields
      <4>2. [req[t] EXCEPT !.rt = "none", !.pairs = FALSE] \in ReqType
        BY ReqFields
      <4>. QED
        BY <3>6, <4>1, <4>2 DEF RemoveBlock
    <3>7. CASE Finalize(t)
      <4> DEFINE tok == IF rec[t].held /\ ~req[t].mark THEN 1 ELSE rec[t].tok
      <4>1. tok \in {0, 1}
        BY FieldTypes
      <4>2. [rec[t] EXCEPT !.tok = tok] \in RecType
        BY <4>1, RecFields
      <4>3. [rec[t] EXCEPT !.dead = TRUE, !.state = FALSE, !.tok = tok] \in RecType
        BY <4>1, RecFields
      <4>4. [req[t] EXCEPT !.own = FALSE] \in ReqType
        BY ReqFields
      <4>5. turn' \in [Turns -> TurnType]
        BY <3>7, <3>a, TurnUpdates DEF Finalize, GoTo
      <4>6. req' \in [Turns -> ReqType]
        BY <3>7, <4>4 DEF Finalize
      <4>7. rec' \in [Turns -> RecType]
        BY <3>7, <4>2, <4>3, RecFields DEF Finalize
      <4>. QED
        BY <3>7, <4>5, <4>6, <4>7 DEF Finalize
    <3>8. CASE Serialise(t)
      BY <3>8, <3>a, TurnUpdates, ReqFields DEF Serialise, GoTo
    <3>9. CASE Bind(t)
      <4>1. turn' \in [Turns -> TurnType]
        BY <3>9, <3>a, TurnUpdates DEF Bind, GoTo
      <4>2. HostV3 \in BOOLEAN /\ OtherHooks \in BOOLEAN
        BY SwitchAssumption
      <4>3. \A v \in {"none", "text", "blank"}, m, b \in BOOLEAN :
              [req[t] EXCEPT !.rt = v, !.marker = m, !.pairs = b] \in ReqType
        BY ReqFields
      <4>4. req[t].block \in {"none", "text"}
        BY FieldTypes
      <4>5. PICK others \in {FALSE, OtherHooks} :
              req' = [req EXCEPT ![t] = [@ EXCEPT
                !.rt = IF HostV3 /\ req[t].mark /\ req[t].block = "text"
                       THEN "blank" ELSE req[t].block,
                !.marker = HostV3 /\ ((req[t].block = "text" \/ req[t].copies # {}) \/ others),
                !.pairs = HostV3 /\ req[t].block = "text"]]
        BY <3>9 DEF Bind
      <4>6. /\ (IF HostV3 /\ req[t].mark /\ req[t].block = "text"
                THEN "blank" ELSE req[t].block) \in {"none", "text", "blank"}
            /\ (HostV3 /\ ((req[t].block = "text" \/ req[t].copies # {}) \/ others)) \in BOOLEAN
            /\ (HostV3 /\ req[t].block = "text") \in BOOLEAN
        BY <4>2, <4>4
      <4>7. req' \in [Turns -> ReqType]
        BY <4>3, <4>5, <4>6
      <4>. QED
        BY <3>9, <4>1, <4>7 DEF Bind
    <3>10. CASE AgentBegin(t)
      <4> DEFINE mapped == rec[t].state /\ (req[t].marker \/ req[t].pairs)
                 r == [rec[t] EXCEPT !.attach = IF @ = "no" THEN "live" ELSE @,
                                     !.channel = IF mapped THEN "identity" ELSE @]
      <4>1. r \in RecType
        BY FieldTypes, RecFields
      <4>2. BlankRuntime(req[t], r) \in ReqType
        BY <4>1, BlankType
      <4>3. turn' \in [Turns -> TurnType]
        BY <3>10, <3>a, TurnUpdates DEF AgentBegin, GoTo
      <4>4. req' \in [Turns -> ReqType]
        BY <3>10, <4>2 DEF AgentBegin
      <4>5. rec' \in [Turns -> RecType]
        BY <3>10, <4>1, RecFields DEF AgentBegin
      <4>. QED
        BY <3>10, <4>3, <4>4, <4>5 DEF AgentBegin
    <3>11. CASE CallProvider(t)
      BY <3>11, TurnUpdates DEF CallProvider
    <3>12. CASE Finish(t)
      BY <3>12, <3>a, TurnUpdates, ReqFields, RecFields DEF Finish, EndRun
    <3>13. CASE Abandon(t)
      BY <3>13, <3>a, TurnUpdates, ReqFields DEF Abandon, EndRun, InFlight
    <3>14. CASE Decorate(t)
      BY <3>14, RecFields, BlankType DEF Decorate, Release
    <3>15. CASE TaskDone(t)
      BY <3>15, RecFields, BlankType DEF TaskDone, Release
    <3>16. CASE ContextGone(t)
      BY <3>16, RecFields DEF ContextGone
    <3>17. CASE EventGone(t)
      BY <3>17, NoTurnType, ReqFields, RecFields DEF EventGone
    <3>18. CASE Rerun(t)
      BY <3>18, FieldTypes, HandleBeginType, TurnUpdates, ReqFields DEF Rerun
    <3>19. ASSUME NEW u \in Users, Arrive(t, u) PROVE TypeOK'
      BY <3>19, NoTurnType, HandleBeginType, ReqFields DEF Arrive
    <3>. QED
      BY <2>5, <3>1, <3>2, <3>3, <3>4, <3>5, <3>6, <3>7, <3>8, <3>9, <3>10, <3>11,
         <3>12, <3>13, <3>14, <3>15, <3>16, <3>17, <3>18, <3>19
         DEF TurnStep, HostStep
  <2>6. CASE UNCHANGED vars
    BY <2>6 DEF vars, TypeOK
  <2>. QED
    BY <2>1, <2>2, <2>3, <2>4, <2>5, <2>6 DEF Next, Invalidation
<1>. QED
  BY <1>1, <1>2, PTL DEF Spec

-----------------------------------------------------------------------------
(* Consent, on a host with the mapping patch.                              *)

TurnInv(t) == WaitingInv(t) /\ RequestInv(t) /\ RuntimeInv(t) /\ WireInv(t)

\* What blanking a held record does to the request it belongs to.
LEMMA BlankFacts ==
  ASSUME NEW q \in ReqType, NEW r \in RecType,
         NEW p, p = BlankedReq(q, r) \/ p = Released(BlankedReq(q, r))
  PROVE  /\ p.mark
         /\ p.own => q.own /\ ~r.state
         /\ p.rt = "text" => q.rt = "text" /\ ~(r.state /\ q.pairs)
         /\ p.block = q.block
<1> DEFINE unlinked == [q EXCEPT !.own = IF r.state THEN FALSE ELSE @,
                                 !.mark = TRUE,
                                 !.rt = IF r.state /\ q.pairs /\ q.rt = "text"
                                        THEN "blank" ELSE @]
           facts(x) == /\ x.mark
                       /\ x.own => q.own /\ ~r.state
                       /\ x.rt = "text" => q.rt = "text" /\ ~(r.state /\ q.pairs)
                       /\ x.block = q.block
<1>1. unlinked \in ReqType /\ facts(unlinked)
  BY DEF ReqType, RecType
<1>2. \A x \in ReqType, s \in RecType : facts(x) => facts(BlankRuntime(x, s))
  BY DEF BlankRuntime, ReqType, RecType
<1>3. BlankedRec(q, r) \in RecType
  BY BlankType
<1>4. facts(BlankedReq(q, r))
  <2>1. facts(BlankRuntime(unlinked, BlankedRec(q, r)))
    <3> HIDE DEF unlinked, facts
    <3>. QED
      BY <1>1, <1>2, <1>3
  <2>2. BlankedReq(q, r) = IF r.attach = "live"
                           THEN BlankRuntime(unlinked, BlankedRec(q, r)) ELSE unlinked
    BY DEF BlankedReq
  <2> HIDE DEF unlinked, facts
  <2>. QED
    BY <1>1, <2>1, <2>2
<1>5. \A x \in ReqType : facts(x) => facts(Released(x))
  BY DEF Released, ReqType
<1>6. BlankedReq(q, r) \in ReqType
  BY BlankType
<1>. QED
  BY <1>4, <1>5, <1>6

\* One step of a turn keeps what the turn's own invariant says of it.
LEMMA TurnStepKeeps ==
  ASSUME HostV3, TypeOK, NEW t \in Turns, TurnInv(t), TurnStep(t)
  PROVE  TurnInv(t)'
<1> USE DEF TypeOK, TurnInv
<1> turn[t] \in TurnFields /\ req[t] \in ReqType /\ rec[t] \in RecType
  BY DEF TurnType
<1>1. CASE ReadConsent(t)
  <2>1. turn[t].who \in Users
    BY <1>1 DEF ReadConsent, TurnType
  <2>2. users[turn[t].who].epoch \in 0..MaxEpoch
    BY <2>1
  <2>3. users[turn[t].who].epoch <= users[turn[t].who].epoch
    BY <2>2, EpochAssumption
  <2>. QED
    BY <1>1, <2>1, <2>3 DEF ReadConsent, WaitingInv, RequestInv, RuntimeInv, WireInv, Reachable, TurnFields
<1>2. CASE HandleSkip(t)
  BY <1>2 DEF HandleSkip, WaitingInv, RequestInv, RuntimeInv, WireInv, Reachable, TurnFields
<1>3. CASE Inject(t)
  <2>1. cfg.open /\ users[turn[t].who].epoch = turn[t].snap
    BY <1>3 DEF Inject, CheckResults, Valid
  <2>2. turn[t].who \in Users /\ turn[t].snap \in 0..MaxEpoch
    BY <1>3 DEF Inject, TurnType, TurnFields
  <2>3. turn[t].consent = "granted"
    BY <1>3, <2>1, <2>2, EpochAssumption DEF Inject, WaitingInv
  <2>4. turn[t].blocks + 1 > 0
    BY DEF TurnFields
  <2>. QED
    BY <1>3, <2>3, <2>4 DEF Inject, WaitingInv, RequestInv, RuntimeInv, WireInv, Reachable, TurnFields, ReqType, NoRec
<1>4. CASE LoadSkip(t)
  BY <1>4 DEF LoadSkip, WaitingInv, RequestInv, RuntimeInv, WireInv, Reachable, TurnFields
<1>5. CASE CopyBlock(t)
  BY <1>5 DEF CopyBlock, WaitingInv, RequestInv, RuntimeInv, WireInv, Reachable, ReqType
<1>6. CASE RemoveBlock(t)
  <2>1. CASE req' = [req EXCEPT ![t].own = FALSE]
    BY <1>6, <2>1 DEF RemoveBlock, WaitingInv, RequestInv, RuntimeInv, WireInv, Reachable, ReqType
  <2>2. CASE req' = [req EXCEPT ![t] = [@ EXCEPT !.rt = "none", !.pairs = FALSE]]
    BY <1>6, <2>2 DEF RemoveBlock, WaitingInv, RequestInv, RuntimeInv, WireInv, Reachable, ReqType
  <2>. QED
    BY <1>6, <2>1, <2>2 DEF RemoveBlock
<1>7. CASE Finalize(t)
  <2> DEFINE tok == IF rec[t].held /\ ~req[t].mark THEN 1 ELSE rec[t].tok
  <2>0. /\ turn' = [turn EXCEPT ![t].phase = "ready"]
        /\ turn[t].phase = "hooks" /\ UNCHANGED <<cfg, users>>
    BY <1>7 DEF Finalize, GoTo
  <2>1. CASE UNCHANGED <<req, rec>>
    BY <2>0, <2>1 DEF WaitingInv, RequestInv, RuntimeInv, WireInv, Reachable, TurnFields
  <2>2. CASE rec' = [rec EXCEPT ![t].tok = tok] /\ UNCHANGED req
    BY <2>0, <2>2 DEF WaitingInv, RequestInv, RuntimeInv, WireInv, Reachable, TurnFields, RecType
  <2>3. CASE /\ rec' = [rec EXCEPT ![t] =
                          IF ~rec[t].held \/ rec[t].attach # "live" THEN NoRec
                          ELSE [@ EXCEPT !.dead = TRUE, !.state = FALSE, !.tok = tok]]
             /\ req' = [req EXCEPT ![t].own = FALSE]
    <3>1. rec'[t].held => rec[t].held
      BY <2>3 DEF NoRec, RecType
    <3>2. ~req'[t].own /\ req'[t].mark = req[t].mark
      BY <2>3 DEF ReqType
    <3>. QED
      BY <2>0, <3>1, <3>2 DEF WaitingInv, RequestInv, RuntimeInv, WireInv, Reachable, TurnFields
  <2>. QED
    BY <1>7, <2>1, <2>2, <2>3 DEF Finalize
<1>8. CASE Serialise(t)
  BY <1>8 DEF Serialise, GoTo, WaitingInv, RequestInv, RuntimeInv, WireInv, Reachable, TurnFields, ReqType
<1>9. CASE Bind(t)
  BY <1>9 DEF Bind, GoTo, WaitingInv, RequestInv, RuntimeInv, WireInv, Reachable, TurnFields, ReqType
<1>10. CASE AgentBegin(t)
  <2> DEFINE mapped == rec[t].state /\ (req[t].marker \/ req[t].pairs)
             r == [rec[t] EXCEPT !.attach = IF @ = "no" THEN "live" ELSE @,
                                 !.channel = IF mapped THEN "identity" ELSE @]
  <2>0. /\ turn' = [turn EXCEPT ![t].phase = "running"]
        /\ turn[t].phase = "assembled" /\ UNCHANGED <<cfg, users>>
    BY <1>10 DEF AgentBegin, GoTo
  <2>1. CASE (~cfg.active \/ ~rec[t].held) /\ UNCHANGED <<req, rec>>
    BY <2>0, <2>1 DEF WaitingInv, RequestInv, RuntimeInv, WireInv, Reachable, TurnFields
  <2>2. /\ r.held = rec[t].held /\ r.state = rec[t].state /\ r.dead = rec[t].dead
        /\ rec[t].attach = "no" => r.attach = "live"
    BY DEF RecType
  <2>3. CASE rec' = [rec EXCEPT ![t] = r] /\ UNCHANGED req
    <3>1. rec'[t] = r
      BY <2>3
    <3> HIDE DEF r
    <3>. QED
      BY <2>0, <2>2, <2>3, <3>1 DEF WaitingInv, RequestInv, RuntimeInv, WireInv, Reachable, TurnFields
  <2>4. CASE /\ rec' = [rec EXCEPT ![t] = NoRec]
             /\ req' = [req EXCEPT ![t] =
                          IF r.attach = "live" THEN BlankRuntime(@, r) ELSE @]
    <3>1. ~rec'[t].held
      BY <2>4 DEF NoRec
    <3>2. req'[t] = IF r.attach = "live" THEN BlankRuntime(req[t], r) ELSE req[t]
      BY <2>4
    <3>3. ASSUME req'[t].rt = "text" PROVE FALSE
      <4>1. req[t].rt = "text"
        BY <3>2, <3>3 DEF BlankRuntime, ReqType
      <4>2. rec[t].attach = "no" /\ req[t].pairs
        BY <2>0, <4>1 DEF RuntimeInv
      <4>3. BlankRuntime(req[t], r).rt = "blank" /\ BlankRuntime(req[t], r) \in ReqType
        <5>1. r \in RecType
          BY FieldTypes, RecFields
        <5> HIDE DEF r
        <5>. QED
          BY <4>1, <4>2, <5>1, BlankType DEF BlankRuntime, ReqType
      <4>. QED
        BY <2>2, <3>2, <3>3, <4>2, <4>3 DEF ReqType
    <3>. QED
      BY <2>0, <3>1, <3>3 DEF WaitingInv, RequestInv, RuntimeInv, WireInv, Reachable, TurnFields
  <2>. QED
    BY <1>10, <2>1, <2>3, <2>4 DEF AgentBegin
<1>11. CASE CallProvider(t)
  BY <1>11 DEF CallProvider, WaitingInv, RequestInv, RuntimeInv, WireInv, Reachable, TurnFields
<1>12. CASE Finish(t)
  BY <1>12 DEF Finish, EndRun, InFlight, WaitingInv, RequestInv, RuntimeInv, WireInv, Reachable, TurnFields, NoReq, NoRec
<1>13. CASE Abandon(t)
  BY <1>13 DEF Abandon, EndRun, InFlight, WaitingInv, RequestInv, RuntimeInv, WireInv, Reachable, TurnFields, NoReq, NoRec
<1>14. CASE Decorate(t)
  BY <1>14 DEF Decorate, Release, Released, WaitingInv, RequestInv, RuntimeInv, WireInv, Reachable, NoRec, ReqType, RecType
<1>15. CASE TaskDone(t)
  BY <1>15 DEF TaskDone, Release, Released, WaitingInv, RequestInv, RuntimeInv, WireInv, Reachable, NoRec, ReqType, RecType
<1>16. CASE ContextGone(t)
  BY <1>16 DEF ContextGone, WaitingInv, RequestInv, RuntimeInv, WireInv, Reachable, RecType
<1>17. CASE EventGone(t)
  BY <1>17 DEF EventGone, NoTurn, NoReq, NoRec, WaitingInv, RequestInv, RuntimeInv, WireInv, Reachable
<1>18. CASE Rerun(t)
  BY <1>18 DEF Rerun, HandleBegin, NoReq, WaitingInv, RequestInv, RuntimeInv, WireInv, Reachable, TurnFields
<1>19. ASSUME NEW u \in Users, Arrive(t, u) PROVE TurnInv(t)'
  BY <1>19 DEF Arrive, HandleBegin, NoTurn, NoReq, WaitingInv, RequestInv, RuntimeInv, WireInv, Reachable
<1>. QED
  BY <1>1, <1>2, <1>3, <1>4, <1>5, <1>6, <1>7, <1>8, <1>9, <1>10, <1>11, <1>12,
     <1>13, <1>14, <1>15, <1>16, <1>17, <1>18, <1>19 DEF TurnStep, HostStep

\* So does an invalidation: the turns it withdraws consent from are purged, or have
\* no block, and a waiting one will find the epoch moved or the store closed.
LEMMA InvalidationKeeps ==
  ASSUME HostV3, TypeOK, NEW t \in Turns, TurnInv(t), Invalidation
  PROVE  TurnInv(t)'
<1> USE DEF TypeOK, TurnInv
<1> turn[t] \in TurnFields /\ req[t] \in ReqType /\ rec[t] \in RecType
  BY DEF TurnType
<1>1. ASSUME NEW S \in SUBSET Turns, Purge(S)
      PROVE  \/ (t \in S => ~rec[t].held) /\ req'[t] = req[t] /\ rec'[t] = rec[t]
             \/ /\ rec[t].held
                /\ req'[t].own => req[t].own /\ ~rec[t].state
                /\ req'[t].rt = "text" => req[t].rt = "text" /\ ~(rec[t].state /\ req[t].pairs)
                /\ req'[t].mark
  <2>1. CASE t \in S /\ rec[t].held
    <3>1. req'[t] = BlankedReq(req[t], rec[t]) \/ req'[t] = Released(BlankedReq(req[t], rec[t]))
      BY <1>1, <2>1 DEF Purge
    <3>. QED
      BY <2>1, <3>1, BlankFacts
  <2>2. CASE ~(t \in S /\ rec[t].held)
    BY <1>1, <2>2 DEF Purge
  <2>. QED
    BY <2>1, <2>2
<1>2. ASSUME NEW S \in SUBSET Turns, NEW W \in SUBSET Turns, W \subseteq S,
             Purge(S), Withdraw(W),
             cfg'.active = cfg.active, cfg'.open => cfg.open,
             turn[t].phase = "loading" =>
               /\ users'[turn[t].who].epoch >= users[turn[t].who].epoch
               /\ users'[turn[t].who].epoch \in Nat
               /\ t \in W => \/ users'[turn[t].who].epoch > users[turn[t].who].epoch
                             \/ ~cfg'.open
                             \/ turn[t].blocks > 0
      PROVE  TurnInv(t)'
  <2>0. /\ turn'[t].phase = turn[t].phase /\ turn'[t].who = turn[t].who
        /\ turn'[t].snap = turn[t].snap /\ turn'[t].done = turn[t].done
        /\ turn'[t].blocks = turn[t].blocks
        /\ \/ turn'[t].consent = turn[t].consent /\ turn'[t].wire = turn[t].wire
           \/ t \in W /\ turn'[t].consent = "withdrawn" /\ turn'[t].wire = "none"
        /\ turn'[t].consent = "granted" => turn[t].consent = "granted"
        /\ turn[t].consent = "none" => turn'[t].consent = "none"
    BY <1>2 DEF Withdraw, TurnFields
  <2>a. turn[t].snap \in Nat /\ (turn[t].phase = "loading" => users[turn[t].who].epoch \in Nat)
    <3>1. turn[t].phase = "loading" => turn[t].who \in Users
      BY DEF WaitingInv
    <3>2. \A u \in Users : users[u].epoch \in 0..MaxEpoch
      OBVIOUS
    <3>3. \A n \in 0..MaxEpoch : n \in Nat
      BY EpochAssumption
    <3>4. turn[t].snap \in 0..MaxEpoch
      BY DEF TurnFields
    <3>. QED
      BY <3>1, <3>2, <3>3, <3>4
  <2>1. CASE (t \in S => ~rec[t].held) /\ req'[t] = req[t] /\ rec'[t] = rec[t]
    <3>1. WaitingInv(t)'
      BY <1>2, <2>0, <2>a, <2>1 DEF WaitingInv
    <3>2. (RequestInv(t) /\ RuntimeInv(t) /\ WireInv(t))'
      BY <1>2, <2>0, <2>1 DEF RequestInv, RuntimeInv, WireInv, Reachable
    <3>. QED
      BY <3>1, <3>2
  <2>2. CASE /\ rec[t].held
             /\ req'[t].own => req[t].own /\ ~rec[t].state
             /\ req'[t].rt = "text" => req[t].rt = "text" /\ ~(rec[t].state /\ req[t].pairs)
             /\ req'[t].mark
    <3>1. turn[t].phase \notin {"persona", "loading", "idle"} /\ turn[t].blocks > 0 /\ turn[t].done
      BY <2>2 DEF WaitingInv
    <3>2. WaitingInv(t)'
      BY <2>0, <3>1 DEF WaitingInv
    <3>3. (RequestInv(t) /\ RuntimeInv(t) /\ WireInv(t))'
      BY <2>0, <2>2 DEF RequestInv, RuntimeInv, WireInv, Reachable
    <3>. QED
      BY <3>2, <3>3
  <2>. QED
    BY <1>1, <1>2, <2>1, <2>2
<1>a. \A u \in Users : users[u].epoch \in Nat
  BY EpochAssumption
<1>b. turn[t].phase = "loading" => turn[t].who \in Users
  BY DEF WaitingInv
<1>3. ASSUME NEW u \in Users, NEW on \in BOOLEAN, SetEnabled(u, on) PROVE TurnInv(t)'
  <2> DEFINE W == IF on THEN {} ELSE OfUser(u)
  <2>1. OfUser(u) \in SUBSET Turns /\ W \in SUBSET Turns /\ W \subseteq OfUser(u)
    BY DEF OfUser
  <2>2. /\ users'[u].epoch = users[u].epoch + 1
        /\ \A v \in Users \ {u} : users'[v] = users[v]
    BY <1>3 DEF SetEnabled
  <2>3. turn[t].phase = "loading" =>
          /\ users'[turn[t].who].epoch >= users[turn[t].who].epoch
          /\ users'[turn[t].who].epoch \in Nat
          /\ t \in W => users'[turn[t].who].epoch > users[turn[t].who].epoch
    <3>1. t \in W => turn[t].who = u
      BY DEF OfUser
    <3> HIDE DEF W
    <3>. QED
      BY <1>a, <1>b, <2>2, <3>1
  <2>4. Purge(OfUser(u)) /\ Withdraw(W) /\ cfg' = cfg
    BY <1>3 DEF SetEnabled
  <2> HIDE DEF W
  <2>. QED
    BY <1>2, <2>1, <2>3, <2>4
<1>4. ASSUME NEW b \in BOOLEAN, WriteConfig(b) PROVE TurnInv(t)'
  <2> DEFINE W == IF b THEN {} ELSE {s \in Turns : turn[s].blocks > 0}
  <2>1. Purge(Turns) /\ Withdraw(W) /\ users' = users
    BY <1>4 DEF WriteConfig
  <2>2. cfg'.active = cfg.active /\ cfg'.open = cfg.open
    BY <1>4 DEF WriteConfig
  <2>3. W \in SUBSET Turns /\ (t \in W => turn[t].blocks > 0)
    OBVIOUS
  <2>4. turn[t].phase = "loading" => users'[turn[t].who].epoch >= users[turn[t].who].epoch
    BY <1>a, <1>b, <2>1
  <2> HIDE DEF W
  <2>. QED
    BY <1>2, <1>a, <1>b, <2>1, <2>2, <2>3, <2>4
<1>5. CASE Deactivate
  BY <1>5 DEF Deactivate, WaitingInv, RequestInv, RuntimeInv, WireInv, Reachable
<1>6. CASE Terminate
  <2>1. Purge(Turns) /\ Withdraw(Turns) /\ users' = users
    BY <1>6 DEF Terminate
  <2>2. cfg'.active = cfg.active /\ ~cfg'.open
    BY <1>6 DEF Terminate
  <2>3. turn[t].phase = "loading" => users'[turn[t].who].epoch >= users[turn[t].who].epoch
    BY <1>a, <1>b, <2>1
  <2>. QED
    BY <1>2, <1>a, <1>b, <2>1, <2>2, <2>3
<1>. QED
  BY <1>3, <1>4, <1>5, <1>6 DEF Invalidation

\* A step of a turn leaves the configuration, the users and the other turns alone.
LEMMA TurnStepIsLocal ==
  ASSUME TypeOK, NEW t \in Turns, TurnStep(t)
  PROVE  /\ cfg' = cfg /\ users' = users
         /\ \A s \in Turns \ {t} : turn'[s] = turn[s] /\ req'[s] = req[s] /\ rec'[s] = rec[s]
<1> USE DEF TypeOK
<1>1. CASE ReadConsent(t) \/ HandleSkip(t) \/ Inject(t) \/ LoadSkip(t) \/ CallProvider(t)
  BY <1>1 DEF ReadConsent, HandleSkip, Inject, LoadSkip, CallProvider
<1>2. CASE CopyBlock(t) \/ RemoveBlock(t)
  BY <1>2 DEF CopyBlock, RemoveBlock
<1>3. CASE Finalize(t)
  BY <1>3 DEF Finalize, GoTo
<1>4. CASE Serialise(t) \/ Bind(t)
  BY <1>4 DEF Serialise, Bind, GoTo
<1>5. CASE AgentBegin(t)
  BY <1>5 DEF AgentBegin, GoTo
<1>6. CASE Finish(t) \/ Abandon(t)
  BY <1>6 DEF Finish, Abandon, EndRun
<1>7. CASE Decorate(t) \/ TaskDone(t)
  BY <1>7 DEF Decorate, TaskDone, Release
<1>8. CASE ContextGone(t) \/ EventGone(t) \/ Rerun(t)
  BY <1>8 DEF ContextGone, EventGone, Rerun
<1>9. CASE \E u \in Users : Arrive(t, u)
  BY <1>9 DEF Arrive
<1>. QED
  BY <1>1, <1>2, <1>3, <1>4, <1>5, <1>6, <1>7, <1>8, <1>9 DEF TurnStep, HostStep

\* On a patched host every reachable state satisfies the inductive invariant.
THEOREM ConsentCorrect == ASSUME HostV3 PROVE Spec => []ConsentInv
<1>1. Init => ConsentInv
  BY DEF Init, ConsentInv, WaitingInv, RequestInv, RuntimeInv, WireInv, Reachable, NoTurn, NoReq, NoRec
<1>2. TypeOK /\ ConsentInv /\ [Next]_vars => ConsentInv'
  <2> SUFFICES ASSUME TypeOK, ConsentInv, [Next]_vars, NEW t \in Turns
               PROVE  TurnInv(t)'
    BY DEF ConsentInv, TurnInv
  <2>1. TurnInv(t)
    BY DEF ConsentInv, TurnInv
  <2>2. CASE Invalidation
    BY <2>1, <2>2, InvalidationKeeps
  <2>3. ASSUME NEW s \in Turns, TurnStep(s) PROVE TurnInv(t)'
    <3>1. CASE s = t
      BY <2>1, <2>3, <3>1, TurnStepKeeps
    <3>2. CASE s # t
      <4>1. /\ cfg' = cfg /\ users' = users /\ turn'[t] = turn[t]
            /\ req'[t] = req[t] /\ rec'[t] = rec[t]
        BY <2>3, <3>2, TurnStepIsLocal
      <4>. QED
        BY <2>1, <4>1 DEF TurnInv, WaitingInv, RequestInv, RuntimeInv, WireInv, Reachable
    <3>. QED
      BY <3>1, <3>2
  <2>4. CASE UNCHANGED vars
    BY <2>1, <2>4 DEF vars, TurnInv, WaitingInv, RequestInv, RuntimeInv, WireInv, Reachable
  <2>. QED
    BY <2>2, <2>3, <2>4 DEF Next
<1>. QED
  BY <1>1, <1>2, TypeCorrect, PTL DEF Spec

\* A revoked block is never sent: no provider call of any run on a patched host
\* carries guidance its user has withdrawn.
THEOREM RevokedNeverDelivered == ASSUME HostV3 PROVE Spec => []NoRevokedDelivery
<1>1. ConsentInv => NoRevokedDelivery
  BY DEF ConsentInv, WireInv, NoRevokedDelivery
<1>. QED
  BY <1>1, ConsentCorrect, PTL

-----------------------------------------------------------------------------
(* Consent, on a host without the patch.                                   *)

\* Blanking takes an attached record's text away, and nothing else can: a record that
\* is not attached is only marked dead.
LEMMA BlankByToken ==
  ASSUME NEW q \in ReqType, ~q.pairs, NEW r \in RecType, r.channel = "token",
         NEW p, p = BlankedReq(q, r) \/ p = Released(BlankedReq(q, r))
  PROVE  /\ ~p.pairs /\ p.marker = q.marker /\ p.block = q.block
         /\ p.own => ~r.state
         /\ p.rt = "text" => q.rt = "text" /\ r.attach # "live"
         /\ BlankedRec(q, r) = [r EXCEPT !.dead = TRUE]
<1> DEFINE facts(x) == /\ ~x.pairs /\ x.marker = q.marker /\ x.block = q.block
                       /\ x.own => ~r.state
                       /\ x.rt = "text" => q.rt = "text"
           unlinked == [q EXCEPT !.own = IF r.state THEN FALSE ELSE @, !.mark = TRUE,
                                 !.rt = IF r.state /\ q.pairs /\ q.rt = "text"
                                        THEN "blank" ELSE @]
<1>1. unlinked \in ReqType /\ facts(unlinked)
  BY DEF ReqType, RecType
<1>2. BlankedRec(q, r) = [r EXCEPT !.dead = TRUE] /\ BlankedRec(q, r) \in RecType
  <2>1. [r EXCEPT !.dead = TRUE, !.channel = r.channel] = [r EXCEPT !.dead = TRUE]
    BY DEF RecType
  <2> QED BY <2>1, BlankType DEF BlankedRec
<1>3. BlankedRec(q, r).channel = "token"
  BY <1>2 DEF RecType
<1>4. \A x \in ReqType, s \in RecType : facts(x) /\ s.channel = "token" =>
        facts(BlankRuntime(x, s)) /\ BlankRuntime(x, s).rt # "text"
  BY DEF BlankRuntime, ReqType, RecType
<1>5. facts(BlankedReq(q, r)) /\ (BlankedReq(q, r).rt = "text" => r.attach # "live")
  <2>1. BlankedReq(q, r) = IF r.attach = "live"
                           THEN BlankRuntime(unlinked, BlankedRec(q, r)) ELSE unlinked
    BY DEF BlankedReq
  <2> HIDE DEF unlinked, facts
  <2>2. CASE r.attach = "live"
    BY <1>1, <1>2, <1>3, <1>4, <2>1, <2>2
  <2>3. CASE r.attach # "live"
    BY <1>1, <2>1, <2>3
  <2> QED BY <2>2, <2>3
<1>6. \A x \in ReqType : facts(x) => facts(Released(x)) /\ Released(x).rt = x.rt
  BY DEF Released, ReqType
<1>7. BlankedReq(q, r) \in ReqType
  BY BlankType
<1> QED BY <1>2, <1>5, <1>6, <1>7

\* One step of a turn keeps what WaitingInv says of it, on both kinds of hosts.
LEMMA WaitingStep ==
  ASSUME TypeOK, NEW t \in Turns, WaitingInv(t), TurnStep(t)
  PROVE  WaitingInv(t)'
<1> USE DEF TypeOK
<1> turn[t] \in TurnFields /\ req[t] \in ReqType /\ rec[t] \in RecType
  BY DEF TurnType
<1>1. CASE ReadConsent(t)
  <2>1. turn[t].who \in Users
    BY <1>1 DEF ReadConsent, TurnType
  <2>2. users[turn[t].who].epoch \in 0..MaxEpoch
    BY <2>1
  <2>3. users[turn[t].who].epoch <= users[turn[t].who].epoch
    BY <2>2, EpochAssumption
  <2> QED BY <1>1, <2>1, <2>3 DEF ReadConsent, WaitingInv, TurnFields
<1>2. CASE HandleSkip(t) \/ LoadSkip(t)
  <2>1. CASE HandleSkip(t)
    BY <2>1 DEF HandleSkip, WaitingInv, TurnFields
  <2>2. CASE LoadSkip(t)
    BY <2>2 DEF LoadSkip, WaitingInv, TurnFields
  <2> QED BY <1>2, <2>1, <2>2
<1>3. CASE Inject(t)
  <2>1. turn[t].blocks + 1 > 0
    BY DEF TurnFields
  <2> QED BY <1>3, <2>1 DEF Inject, WaitingInv, TurnFields, NoRec
<1>4. CASE CopyBlock(t) \/ RemoveBlock(t)
  BY <1>4 DEF CopyBlock, RemoveBlock, WaitingInv, ReqType
<1>5. CASE Finalize(t)
  <2>1. turn'[t] = [turn[t] EXCEPT !.phase = "ready"] /\ turn[t].phase = "hooks"
    BY <1>5 DEF Finalize, GoTo
  <2>2. rec'[t].held => rec[t].held
    BY <1>5 DEF Finalize, NoRec, RecType
  <2> QED BY <2>1, <2>2 DEF WaitingInv, TurnFields
<1>6. CASE Serialise(t) \/ Bind(t)
  BY <1>6 DEF Serialise, Bind, GoTo, WaitingInv, TurnFields
<1>7. CASE AgentBegin(t)
  <2>1. turn'[t] = [turn[t] EXCEPT !.phase = "running"] /\ turn[t].phase = "assembled"
    BY <1>7 DEF AgentBegin, GoTo
  <2>2. rec'[t].held => rec[t].held
    BY <1>7 DEF AgentBegin, NoRec, RecType
  <2> QED BY <2>1, <2>2 DEF WaitingInv, TurnFields
<1>8. CASE CallProvider(t)
  BY <1>8 DEF CallProvider, WaitingInv, TurnFields
<1>9. CASE Finish(t) \/ Abandon(t)
  <2>1. /\ turn'[t] = [turn[t] EXCEPT !.phase = "over", !.consent = "none", !.wire = "none"]
        /\ turn[t].phase \in InFlight /\ users' = users /\ cfg' = cfg
    BY <1>9 DEF Finish, Abandon, EndRun
  <2>2. rec'[t].held => rec[t].held
    BY <1>9 DEF Finish, Abandon, NoRec
  <2> QED BY <2>1, <2>2 DEF WaitingInv, TurnFields
<1>10. CASE Decorate(t) \/ TaskDone(t)
  BY <1>10 DEF Decorate, TaskDone, Release, Released, WaitingInv, NoRec, ReqType
<1>11. CASE ContextGone(t)
  BY <1>11 DEF ContextGone, WaitingInv, RecType
<1>12. CASE EventGone(t)
  BY <1>12 DEF EventGone, NoTurn, NoReq, NoRec, WaitingInv
<1>13. CASE Rerun(t)
  BY <1>13 DEF Rerun, HandleBegin, NoReq, WaitingInv, TurnFields
<1>14. ASSUME NEW u \in Users, Arrive(t, u) PROVE WaitingInv(t)'
  BY <1>14 DEF Arrive, HandleBegin, NoTurn, NoReq, WaitingInv
<1> QED BY <1>1, <1>2, <1>3, <1>4, <1>5, <1>6, <1>7, <1>8, <1>9, <1>10, <1>11, <1>12,
           <1>13, <1>14 DEF TurnStep, HostStep

\* It keeps what TokenTurn says: the agent-begin hook finds every record that was
\* invalidated before it, and blanks through the token.
LEMMA TokenStep ==
  ASSUME ~HostV3, TypeOK, NEW t \in Turns, WaitingInv(t), TokenTurn(t), TurnStep(t)
  PROVE  TokenTurn(t)'
<1> USE DEF TypeOK
<1> turn[t] \in TurnFields /\ req[t] \in ReqType /\ rec[t] \in RecType
  BY DEF TurnType
<1>1. CASE ReadConsent(t) \/ HandleSkip(t) \/ LoadSkip(t) \/ CallProvider(t)
  <2>1. req' = req /\ rec' = rec /\ cfg' = cfg
    BY <1>1 DEF ReadConsent, HandleSkip, LoadSkip, CallProvider
  <2>2. CASE ReadConsent(t) \/ CallProvider(t)
    <3>1. \/ turn[t].phase = "persona" /\ turn'[t].phase = "loading"
          \/ turn'[t].phase = turn[t].phase /\ turn'[t].consent = turn[t].consent
      <4>1. CASE ReadConsent(t)
        BY <4>1 DEF ReadConsent, TurnFields
      <4>2. CASE CallProvider(t)
        BY <4>2 DEF CallProvider, TurnFields
      <4> QED BY <2>2, <4>1, <4>2
    <3> QED BY <2>1, <3>1 DEF TokenTurn, Reachable
  <2>3. CASE HandleSkip(t) \/ LoadSkip(t)
    <3>1. turn'[t].phase = "hooks" /\ turn[t].phase \in {"persona", "loading"}
      <4>1. ASSUME NEW d, turn' = [turn EXCEPT ![t] = [@ EXCEPT !.phase = "hooks", !.done = d]]
            PROVE  turn'[t].phase = "hooks"
        BY <4>1 DEF TurnFields
      <4> QED BY <2>3, <4>1 DEF HandleSkip, LoadSkip
    <3>2. ~req[t].own
      BY <3>1 DEF WaitingInv
    <3> QED BY <2>1, <3>1, <3>2 DEF TokenTurn
  <2> QED BY <1>1, <2>2, <2>3
<1>2. CASE Inject(t)
  <2>1. cfg.open /\ users[turn[t].who].epoch = turn[t].snap
    BY <1>2 DEF Inject, CheckResults, Valid
  <2>2. turn[t].who \in Users /\ turn[t].snap \in 0..MaxEpoch
    BY <1>2 DEF Inject, TurnType, TurnFields
  <2>3. turn[t].consent = "granted"
    BY <1>2, <2>1, <2>2, EpochAssumption DEF Inject, WaitingInv
  <2> QED BY <1>2, <2>3 DEF Inject, TokenTurn, Reachable, TurnFields, ReqType, NoRec
<1>3. CASE CopyBlock(t)
  BY <1>3 DEF CopyBlock, TokenTurn, Reachable, ReqType
<1>4. CASE RemoveBlock(t)
  <2>1. CASE req' = [req EXCEPT ![t].own = FALSE]
    BY <1>4, <2>1 DEF RemoveBlock, TokenTurn, Reachable, ReqType
  <2>2. CASE req' = [req EXCEPT ![t] = [@ EXCEPT !.rt = "none", !.pairs = FALSE]]
    BY <1>4, <2>2 DEF RemoveBlock, TokenTurn, Reachable, ReqType
  <2> QED BY <1>4, <2>1, <2>2 DEF RemoveBlock
<1>5. CASE Finalize(t)
  <2> DEFINE tok == IF rec[t].held /\ ~req[t].mark THEN 1 ELSE rec[t].tok
  <2>1. turn'[t] = [turn[t] EXCEPT !.phase = "ready"] /\ turn[t].phase = "hooks" /\ cfg' = cfg
    BY <1>5 DEF Finalize, GoTo
  <2>2. CASE UNCHANGED <<req, rec>>
    BY <2>1, <2>2 DEF TokenTurn, Reachable, TurnFields
  <2>3. CASE rec' = [rec EXCEPT ![t].tok = tok] /\ UNCHANGED req
    BY <2>1, <2>3 DEF TokenTurn, Reachable, TurnFields, RecType
  <2>4. CASE /\ rec' = [rec EXCEPT ![t] =
                          IF ~rec[t].held \/ rec[t].attach # "live" THEN NoRec
                          ELSE [@ EXCEPT !.dead = TRUE, !.state = FALSE, !.tok = tok]]
             /\ req' = [req EXCEPT ![t].own = FALSE]
    <3>1. rec'[t].channel = "token"
      BY <2>4 DEF TokenTurn, NoRec, RecType
    <3> QED BY <2>1, <2>4, <3>1 DEF TokenTurn, TurnFields, ReqType
  <2> QED BY <1>5, <2>2, <2>3, <2>4 DEF Finalize
<1>6. CASE Serialise(t)
  BY <1>6 DEF Serialise, GoTo, TokenTurn, Reachable, TurnFields, ReqType
<1>7. CASE Bind(t)
  <2>1. /\ turn'[t] = [turn[t] EXCEPT !.phase = "assembled"] /\ rec' = rec
        /\ turn[t].phase = "assembling"
    BY <1>7 DEF Bind, GoTo
  <2>2. req'[t] = [req[t] EXCEPT !.rt = req[t].block, !.marker = FALSE, !.pairs = FALSE]
    BY <1>7 DEF Bind
  <2> QED BY <2>1, <2>2 DEF TokenTurn, TurnFields, ReqType
<1>8. CASE AgentBegin(t)
  <2> DEFINE mapped == rec[t].state /\ (req[t].marker \/ req[t].pairs)
             r == [rec[t] EXCEPT !.attach = IF @ = "no" THEN "live" ELSE @,
                                 !.channel = IF mapped THEN "identity" ELSE @]
  <2>1. /\ turn'[t] = [turn[t] EXCEPT !.phase = "running"]
        /\ turn[t].phase = "assembled" /\ cfg' = cfg
    BY <1>8 DEF AgentBegin, GoTo
  <2>2. /\ r \in RecType /\ r.held = rec[t].held /\ r.state = rec[t].state
        /\ r.dead = rec[t].dead /\ r.channel = "token"
        /\ rec[t].attach = "no" => r.attach = "live"
    BY FieldTypes DEF TokenTurn, RecType
  <2>3. CASE (~cfg.active \/ ~rec[t].held) /\ UNCHANGED <<req, rec>>
    BY <2>1, <2>3 DEF TokenTurn, Reachable, TurnFields
  <2>4. CASE rec' = [rec EXCEPT ![t] = r] /\ UNCHANGED req /\ r.state /\ ~r.dead
    <3>1. rec'[t] = r
      BY <2>4
    <3> HIDE DEF r
    <3> QED BY <2>1, <2>2, <2>4, <3>1 DEF TokenTurn, Reachable, TurnFields
  <2>5. CASE /\ rec' = [rec EXCEPT ![t] = NoRec]
             /\ req' = [req EXCEPT ![t] =
                          IF r.attach = "live" THEN BlankRuntime(@, r) ELSE @]
    <3> HIDE DEF r
    <3>1. /\ rec'[t] = NoRec
          /\ req'[t] = IF r.attach = "live" THEN BlankRuntime(req[t], r) ELSE req[t]
      BY <2>5
    <3>2. ~req'[t].pairs /\ req'[t].marker = req[t].marker /\ (req'[t].rt = "text" =>
            req[t].rt = "text" /\ r.attach # "live")
      BY <2>2, <3>1 DEF TokenTurn, BlankRuntime, ReqType
    <3> QED BY <2>1, <2>2, <3>1, <3>2 DEF TokenTurn, NoRec, TurnFields
  <2> QED BY <1>8, <2>3, <2>4, <2>5 DEF AgentBegin
<1>9. CASE Finish(t) \/ Abandon(t)
  BY <1>9 DEF Finish, Abandon, EndRun, InFlight, TokenTurn, Reachable, TurnFields, NoReq, NoRec
<1>10. CASE Decorate(t)
  BY <1>10 DEF Decorate, Release, Released, TokenTurn, Reachable, NoRec, ReqType, RecType
<1>11. CASE TaskDone(t)
  BY <1>11 DEF TaskDone, Release, Released, TokenTurn, Reachable, NoRec, ReqType, RecType
<1>12. CASE ContextGone(t)
  BY <1>12 DEF ContextGone, TokenTurn, Reachable, RecType
<1>13. CASE EventGone(t)
  BY <1>13 DEF EventGone, NoTurn, NoReq, NoRec, TokenTurn, Reachable
<1>14. CASE Rerun(t)
  BY <1>14 DEF Rerun, HandleBegin, NoReq, TokenTurn, Reachable, TurnFields
<1>15. ASSUME NEW u \in Users, Arrive(t, u) PROVE TokenTurn(t)'
  BY <1>15 DEF Arrive, HandleBegin, NoTurn, NoReq, TokenTurn, Reachable
<1> QED BY <1>1, <1>2, <1>3, <1>4, <1>5, <1>6, <1>7, <1>8, <1>9, <1>10, <1>11, <1>12,
           <1>13, <1>14, <1>15 DEF TurnStep, HostStep

\* What a purge and a withdrawal do to a turn of an unpatched host: a record they
\* reach is dead or gone, one that they withdraw from without reaching it has no text.
LEMMA PurgeByToken ==
  ASSUME TypeOK, NEW t \in Turns, WaitingInv(t), TokenTurn(t),
         NEW S \in SUBSET Turns, NEW W \in SUBSET Turns, W \subseteq S,
         Purge(S), Withdraw(W), cfg'.active = cfg.active
  PROVE  TokenTurn(t)'
<1> USE DEF TypeOK
<1> turn[t] \in TurnFields /\ req[t] \in ReqType /\ rec[t] \in RecType
  BY DEF TurnType
<1>0. /\ turn'[t].phase = turn[t].phase
      /\ turn'[t].consent = turn[t].consent \/ t \in W
  BY DEF Withdraw, TurnFields
<1>1. CASE t \in S /\ rec[t].held
  <2>1. req'[t] = BlankedReq(req[t], rec[t]) \/ req'[t] = Released(BlankedReq(req[t], rec[t]))
    BY <1>1 DEF Purge
  <2>2. /\ ~req'[t].pairs /\ ~req'[t].marker /\ req'[t].block = req[t].block
        /\ req'[t].own => ~rec[t].state
        /\ req'[t].rt = "text" => req[t].rt = "text" /\ rec[t].attach # "live"
        /\ BlankedRec(req[t], rec[t]) = [rec[t] EXCEPT !.dead = TRUE]
    BY <2>1, BlankByToken DEF TokenTurn
  <2>3. \/ rec'[t] = NoRec /\ rec[t].attach = "live"
        \/ rec'[t] = [rec[t] EXCEPT !.dead = TRUE]
    BY <1>1, <2>2 DEF Purge
  <2>4. /\ rec'[t].channel = "token"
        /\ rec[t].attach # "live" => /\ rec'[t].held = rec[t].held /\ rec'[t].dead
                                     /\ rec'[t].state = rec[t].state
                                     /\ rec'[t].attach = rec[t].attach
    BY <2>3 DEF TokenTurn, NoRec, RecType
  <2>5. ~(turn'[t].phase \in {"hooks", "ready"} /\ req'[t].own)
    <3> SUFFICES ASSUME turn'[t].phase \in {"hooks", "ready"}, req'[t].own PROVE FALSE
      OBVIOUS
    <3>1. req[t].own
      BY <2>1, BlankFacts
    <3> QED BY <1>0, <2>2, <3>1 DEF TokenTurn, Reachable
  <2> QED BY <1>0, <2>2, <2>4, <2>5 DEF TokenTurn, Reachable
<1>2. CASE ~(t \in S /\ rec[t].held)
  <2>1. req'[t] = req[t] /\ rec'[t] = rec[t]
    BY <1>2 DEF Purge
  <2>2. turn'[t].consent = turn[t].consent \/ ~rec[t].held
    BY <1>0, <1>2
  <2> QED BY <1>0, <2>1, <2>2 DEF TokenTurn, Reachable
<1> QED BY <1>1, <1>2

\* What WaitingInv says survives an invalidation: the waiting coroutine will find the
\* epoch moved or the store closed.
LEMMA WaitingPurge ==
  ASSUME TypeOK, NEW t \in Turns, WaitingInv(t),
         NEW S \in SUBSET Turns, NEW W \in SUBSET Turns,
         Purge(S), Withdraw(W), cfg'.open => cfg.open,
         turn[t].phase = "loading" =>
           /\ users'[turn[t].who].epoch >= users[turn[t].who].epoch
           /\ users'[turn[t].who].epoch \in Nat
           /\ t \in W => \/ users'[turn[t].who].epoch > users[turn[t].who].epoch
                         \/ ~cfg'.open
                         \/ turn[t].blocks > 0
  PROVE  WaitingInv(t)'
<1> USE DEF TypeOK
<1> turn[t] \in TurnFields /\ req[t] \in ReqType /\ rec[t] \in RecType
  BY DEF TurnType
<1>1. /\ turn'[t].phase = turn[t].phase /\ turn'[t].who = turn[t].who
      /\ turn'[t].snap = turn[t].snap /\ turn'[t].done = turn[t].done
      /\ turn'[t].blocks = turn[t].blocks
      /\ \/ turn'[t].consent = turn[t].consent
         \/ t \in W /\ turn[t].consent = "granted"
  BY DEF Withdraw, TurnFields
<1>2. turn[t].snap \in Nat /\ (turn[t].phase = "loading" => users[turn[t].who].epoch \in Nat)
  <2>1. turn[t].phase = "loading" => turn[t].who \in Users
    BY DEF WaitingInv
  <2>2. \A u \in Users : users[u].epoch \in 0..MaxEpoch
    OBVIOUS
  <2>3. \A n \in 0..MaxEpoch : n \in Nat
    BY EpochAssumption
  <2>4. turn[t].snap \in 0..MaxEpoch
    BY DEF TurnFields
  <2> QED BY <2>1, <2>2, <2>3, <2>4
<1>3. CASE t \in S /\ rec[t].held
  <2>1. turn[t].phase \notin {"persona", "loading", "idle"} /\ turn[t].blocks > 0 /\ turn[t].done
    BY <1>3 DEF WaitingInv
  <2>2. turn[t].phase = "over" => turn'[t].consent = "none"
    BY <1>1 DEF WaitingInv
  <2> QED BY <1>1, <2>1, <2>2 DEF WaitingInv
<1>4. CASE ~(t \in S /\ rec[t].held)
  <2>1. req'[t] = req[t] /\ rec'[t] = rec[t]
    BY <1>4 DEF Purge
  <2> QED BY <1>1, <1>2, <2>1 DEF WaitingInv
<1> QED BY <1>3, <1>4

\* So an invalidation keeps both.
LEMMA TokenInvalidation ==
  ASSUME TypeOK, NEW t \in Turns, WaitingInv(t), TokenTurn(t), Invalidation
  PROVE  WaitingInv(t)' /\ TokenTurn(t)'
<1> USE DEF TypeOK
<1>a. \A u \in Users : users[u].epoch \in Nat
  BY EpochAssumption
<1>b. turn[t].phase = "loading" => turn[t].who \in Users
  BY DEF WaitingInv
<1>1. ASSUME NEW u \in Users, NEW on \in BOOLEAN, SetEnabled(u, on)
      PROVE  WaitingInv(t)' /\ TokenTurn(t)'
  <2> DEFINE W == IF on THEN {} ELSE OfUser(u)
  <2>1. OfUser(u) \in SUBSET Turns /\ W \in SUBSET Turns /\ W \subseteq OfUser(u)
    BY DEF OfUser
  <2>2. /\ users'[u].epoch = users[u].epoch + 1
        /\ \A v \in Users \ {u} : users'[v] = users[v]
    BY <1>1 DEF SetEnabled
  <2>3. Purge(OfUser(u)) /\ Withdraw(W) /\ cfg' = cfg
    BY <1>1 DEF SetEnabled
  <2>4. t \in W => turn[t].who = u
    BY DEF OfUser
  <2> HIDE DEF W
  <2>5. turn[t].phase = "loading" =>
          /\ users'[turn[t].who].epoch >= users[turn[t].who].epoch
          /\ users'[turn[t].who].epoch \in Nat
          /\ t \in W => users'[turn[t].who].epoch > users[turn[t].who].epoch
    BY <1>a, <1>b, <2>2, <2>4
  <2>6. WaitingInv(t)'
    BY <2>1, <2>3, <2>5, WaitingPurge
  <2>7. TokenTurn(t)'
    BY <2>1, <2>3, PurgeByToken
  <2> QED BY <2>6, <2>7
<1>2. ASSUME NEW b \in BOOLEAN, WriteConfig(b) PROVE WaitingInv(t)' /\ TokenTurn(t)'
  <2> DEFINE W == IF b THEN {} ELSE {s \in Turns : turn[s].blocks > 0}
  <2>1. Purge(Turns) /\ Withdraw(W) /\ users' = users
    BY <1>2 DEF WriteConfig
  <2>2. cfg'.active = cfg.active /\ cfg'.open = cfg.open
    BY <1>2 DEF WriteConfig
  <2>3. W \in SUBSET Turns /\ (t \in W => turn[t].blocks > 0)
    OBVIOUS
  <2>4. turn[t].phase = "loading" => users'[turn[t].who].epoch >= users[turn[t].who].epoch
    BY <1>a, <1>b, <2>1
  <2> HIDE DEF W
  <2>5. WaitingInv(t)'
    BY <1>a, <1>b, <2>1, <2>2, <2>3, <2>4, WaitingPurge
  <2>6. TokenTurn(t)'
    BY <2>1, <2>2, <2>3, PurgeByToken
  <2> QED BY <2>5, <2>6
<1>3. CASE Deactivate
  BY <1>3 DEF Deactivate, WaitingInv, TokenTurn, Reachable
<1>4. CASE Terminate
  <2>1. Purge(Turns) /\ Withdraw(Turns) /\ users' = users
    BY <1>4 DEF Terminate
  <2>2. cfg'.active = cfg.active /\ ~cfg'.open
    BY <1>4 DEF Terminate
  <2>3. turn[t].phase = "loading" => users'[turn[t].who].epoch >= users[turn[t].who].epoch
    BY <1>a, <1>b, <2>1
  <2>4. WaitingInv(t)'
    BY <1>a, <1>b, <2>1, <2>2, <2>3, WaitingPurge
  <2>5. TokenTurn(t)'
    BY <2>1, <2>2, PurgeByToken
  <2> QED BY <2>4, <2>5
<1> QED BY <1>1, <1>2, <1>3, <1>4 DEF Invalidation

\* On a host without the patch every reachable state satisfies its own inductive
\* invariant; on a host with it there is nothing to say.
THEOREM UnpatchedCorrect == Spec => []UnpatchedInv
<1>1. Init => UnpatchedInv
  BY DEF Init, UnpatchedInv, WaitingInv, TokenTurn, Reachable, NoTurn, NoReq, NoRec
<1>2. TypeOK /\ UnpatchedInv /\ [Next]_vars => UnpatchedInv'
  <2> SUFFICES ASSUME ~HostV3, TypeOK, UnpatchedInv, [Next]_vars, NEW t \in Turns
               PROVE  WaitingInv(t)' /\ TokenTurn(t)'
    BY DEF UnpatchedInv
  <2>1. WaitingInv(t) /\ TokenTurn(t)
    BY DEF UnpatchedInv
  <2>2. CASE Invalidation
    BY <2>1, <2>2, TokenInvalidation
  <2>3. ASSUME NEW s \in Turns, TurnStep(s) PROVE WaitingInv(t)' /\ TokenTurn(t)'
    <3>1. CASE s = t
      BY <2>1, <2>3, <3>1, WaitingStep, TokenStep
    <3>2. CASE s # t
      <4>1. /\ cfg' = cfg /\ users' = users /\ turn'[t] = turn[t]
            /\ req'[t] = req[t] /\ rec'[t] = rec[t]
        BY <2>3, <3>2, TurnStepIsLocal
      <4> QED BY <2>1, <4>1 DEF WaitingInv, TokenTurn, Reachable
    <3> QED BY <3>1, <3>2
  <2>4. CASE UNCHANGED vars
    BY <2>1, <2>4 DEF vars, WaitingInv, TokenTurn, Reachable
  <2> QED BY <2>2, <2>3, <2>4 DEF Next
<1> QED BY <1>1, <1>2, TypeCorrect, PTL DEF Spec

-----------------------------------------------------------------------------
(* Consent, on both kinds of hosts.                                        *)

\* While a provider call can carry the block, its record is in the registry.
THEOREM RecordsOutliveCalls == Spec => []RecordOutlivesCalls
<1>1. CASE HostV3
  <2>1. ConsentInv => RecordOutlivesCalls
    BY DEF ConsentInv, RuntimeInv, Reachable, RecordOutlivesCalls
  <2> QED BY <1>1, <2>1, ConsentCorrect, PTL
<1>2. CASE ~HostV3
  <2>1. UnpatchedInv => RecordOutlivesCalls
    BY <1>2 DEF UnpatchedInv, TokenTurn, Reachable, RecordOutlivesCalls
  <2> QED BY <2>1, UnpatchedCorrect, PTL
<1> QED BY <1>1, <1>2

\* What the next call would send is consented to, always on a patched host, and
\* elsewhere unless the plugin was deactivated before the agent-begin hook.
THEOREM StaleTextNever == Spec => []StaleTextOnlyWithoutHook
<1>1. CASE HostV3
  <2>1. ConsentInv => StaleTextOnlyWithoutHook
    BY DEF ConsentInv, RuntimeInv, StaleTextOnlyWithoutHook
  <2> QED BY <1>1, <2>1, ConsentCorrect, PTL
<1>2. CASE ~HostV3
  <2>1. UnpatchedInv => StaleTextOnlyWithoutHook
    BY <1>2 DEF UnpatchedInv, TokenTurn, StaleTextOnlyWithoutHook
  <2> QED BY <2>1, UnpatchedCorrect, PTL
<1> QED BY <1>1, <1>2

-----------------------------------------------------------------------------
(* Whatever the host.                                                      *)

BlockInv(t) ==
  /\ turn[t].blocks <= 1
  /\ turn[t].blocks > 0 => turn[t].done
  /\ turn[t].phase \in {"persona", "loading"} => ~turn[t].done

\* The history variables of withdrawing consents touch nothing that counts blocks.
LEMMA WithdrawFacts ==
  ASSUME TypeOK, NEW S \in SUBSET Turns, Withdraw(S), NEW t \in Turns
  PROVE  /\ turn'[t].phase = turn[t].phase /\ turn'[t].done = turn[t].done
         /\ turn'[t].blocks = turn[t].blocks
BY DEF TypeOK, Withdraw, TurnType, TurnFields

\* No event is ever given a second block, also when the host sends it through the
\* request hooks again after its first record was dropped.
THEOREM OneBlockPerEvent == Spec => []BlockOnce
<1> DEFINE BInv == \A t \in Turns : BlockInv(t)
<1>1. Init => BInv
  BY DEF Init, BlockInv, NoTurn
<1>2. TypeOK /\ BInv /\ [Next]_vars => BInv'
  <2> SUFFICES ASSUME TypeOK, BInv, [Next]_vars, NEW t \in Turns
               PROVE  BlockInv(t)'
    OBVIOUS
  <2>1. BlockInv(t) /\ turn[t] \in TurnFields
    BY DEF TypeOK, TurnType
  <2>2. CASE UNCHANGED turn
    BY <2>1, <2>2 DEF BlockInv
  <2>3. ASSUME NEW S \in SUBSET Turns, Withdraw(S) PROVE BlockInv(t)'
    BY <2>1, <2>3, WithdrawFacts DEF BlockInv
  <2>4. CASE Invalidation
    <3>1. ASSUME NEW u \in Users, NEW on \in BOOLEAN, SetEnabled(u, on) PROVE BlockInv(t)'
      <4>1. PICK S \in SUBSET Turns : Withdraw(S)
        BY <3>1 DEF SetEnabled, OfUser
      <4>. QED
        BY <2>3, <4>1
    <3>2. ASSUME NEW b \in BOOLEAN, WriteConfig(b) PROVE BlockInv(t)'
      <4>1. PICK S \in SUBSET Turns : Withdraw(S)
        BY <3>2 DEF WriteConfig
      <4>. QED
        BY <2>3, <4>1
    <3>. QED
      BY <2>2, <2>3, <2>4, <3>1, <3>2 DEF Invalidation, Deactivate, Terminate
  <2>5. ASSUME NEW s \in Turns, TurnStep(s) PROVE BlockInv(t)'
    <3>1. CASE s # t
      BY <2>1, <2>5, <3>1, TurnStepIsLocal DEF BlockInv
    <3>2. CASE s = t
      <4> USE <2>1, <2>5, <3>2 DEF TypeOK, BlockInv, TurnFields
      <4>1. ASSUME NEW d \in BOOLEAN,
                   turn' = [turn EXCEPT ![t] = [@ EXCEPT !.phase = "hooks", !.done = d]],
                   turn[t].phase \in {"persona", "loading"}
            PROVE  BlockInv(t)'
        <5>1. turn'[t].blocks = 0 /\ turn'[t].phase = "hooks"
          BY <4>1
        <5>. QED
          BY <5>1
      <4>9. CASE HandleSkip(t) \/ LoadSkip(t)
        BY <4>1, <4>9 DEF HandleSkip, LoadSkip
      <4>10. CASE ReadConsent(t)
        BY <4>10 DEF ReadConsent
      <4>11. CASE CallProvider(t)
        BY <4>11 DEF CallProvider
      <4>2. CASE Inject(t)
        <5>1. turn[t].blocks = 0 /\ turn[t].blocks + 1 = 1
          BY <4>2 DEF Inject
        <5>. QED
          BY <4>2, <5>1 DEF Inject
      <4>3. CASE \E p \in {"ready", "assembling", "assembled", "running"} : GoTo(t, p)
        BY <4>3 DEF GoTo
      <4>4. CASE CopyBlock(t) \/ RemoveBlock(t) \/ Decorate(t) \/ TaskDone(t) \/ ContextGone(t)
        <5>1. UNCHANGED turn
          BY <4>4 DEF CopyBlock, RemoveBlock, Decorate, TaskDone, ContextGone
        <5>. QED
          BY <2>2, <5>1
      <4>5. CASE EndRun(t)
        BY <4>5 DEF EndRun
      <4>6. CASE EventGone(t)
        BY <4>6 DEF EventGone, NoTurn
      <4>12. CASE Rerun(t)
        BY <4>12 DEF Rerun, HandleBegin
      <4>7. ASSUME NEW u \in Users, Arrive(t, u) PROVE BlockInv(t)'
        BY <4>7 DEF Arrive, NoTurn, HandleBegin
      <4>8. CASE Finalize(t) \/ Serialise(t) \/ Bind(t) \/ AgentBegin(t)
        BY <4>3, <4>8 DEF Finalize, Serialise, Bind, AgentBegin
      <4>. QED
        BY <4>2, <4>4, <4>5, <4>6, <4>7, <4>8, <4>9, <4>10, <4>11, <4>12
           DEF TurnStep, HostStep, Finish, Abandon
    <3>. QED
      BY <3>1, <3>2
  <2>. QED
    BY <2>2, <2>4, <2>5 DEF Next, vars
<1>3. BInv => BlockOnce
  BY DEF BlockInv, BlockOnce
<1>. QED
  BY <1>1, <1>2, <1>3, TypeCorrect, PTL DEF Spec

\* A user's off, on or clear touches neither request nor record of anyone else.
THEOREM SelectiveInvalidation == Spec => InvalidationIsSelective
<1> DEFINE A == \A t \in Turns :
                  (\E u \in Users \ {turn[t].who} : users'[u] # users[u])
                    => req'[t] = req[t] /\ rec'[t] = rec[t]
<1>1. TypeOK /\ [Next]_vars => A
  <2> SUFFICES ASSUME TypeOK, [Next]_vars, NEW t \in Turns,
                      NEW v \in Users \ {turn[t].who}, users'[v] # users[v]
               PROVE  req'[t] = req[t] /\ rec'[t] = rec[t]
    OBVIOUS
  <2>1. PICK u \in Users, on \in BOOLEAN : SetEnabled(u, on)
    <3>1. \A s \in Turns : ~TurnStep(s)
      BY TurnStepIsLocal
    <3>. QED
      BY <3>1 DEF Next, Invalidation, WriteConfig, Deactivate, Terminate, vars
  <2>2. u = v
    BY <2>1 DEF SetEnabled, TypeOK
  <2>3. t \notin OfUser(u)
    BY <2>2 DEF OfUser
  <2>. QED
    BY <2>1, <2>3 DEF SetEnabled, Purge, TypeOK
<1>. QED
  BY <1>1, TypeCorrect, PTL DEF Spec, InvalidationIsSelective

-----------------------------------------------------------------------------
(* The turns implement the delivery contract.                              *)

\* What a step of a turn does to its consent and to what was sent.
LEMMA TurnStepContract ==
  ASSUME TypeOK, NEW t \in Turns, TurnInv(t), TurnStep(t)
  PROVE  \/ turn'[t].consent = turn[t].consent /\ turn'[t].wire = turn[t].wire
         \/ /\ turn[t].consent = "none" /\ turn'[t].consent = "granted"
            /\ turn'[t].wire = turn[t].wire
         \/ turn'[t].consent = "none" /\ turn'[t].wire = "none"
         \/ /\ turn'[t].consent = turn[t].consent
            /\ \/ turn'[t].wire = "plain"
               \/ turn'[t].wire = "guided" /\ turn[t].consent = "granted"
<1> USE DEF TypeOK
<1> turn[t] \in TurnFields
  BY DEF TurnType
<1>1. CASE ReadConsent(t)
  BY <1>1 DEF ReadConsent, TurnInv, WaitingInv, TurnFields
<1>2. ASSUME NEW d \in BOOLEAN, turn' = [turn EXCEPT ![t] = [@ EXCEPT !.phase = "hooks", !.done = d]]
      PROVE  turn'[t].consent = turn[t].consent /\ turn'[t].wire = turn[t].wire
  BY <1>2 DEF TurnFields
<1>9. CASE HandleSkip(t) \/ LoadSkip(t)
  BY <1>2, <1>9 DEF HandleSkip, LoadSkip
<1>10. CASE Inject(t)
  BY <1>10 DEF Inject, TurnFields
<1>3. CASE \E p \in {"ready", "assembling", "assembled", "running"} : GoTo(t, p)
  BY <1>3 DEF GoTo, TurnFields
<1>4. CASE Finalize(t) \/ Serialise(t) \/ Bind(t) \/ AgentBegin(t)
  BY <1>3, <1>4 DEF Finalize, Serialise, Bind, AgentBegin
<1>5. CASE CopyBlock(t) \/ RemoveBlock(t) \/ Decorate(t) \/ TaskDone(t) \/ ContextGone(t)
  BY <1>5 DEF CopyBlock, RemoveBlock, Decorate, TaskDone, ContextGone
<1>6. CASE CallProvider(t)
  <2>1. turn'[t] = [turn[t] EXCEPT !.wire = IF req[t].rt = "text" THEN "guided" ELSE "plain"]
    BY <1>6 DEF CallProvider
  <2>2. req[t].rt = "text" => turn[t].consent = "granted"
    BY <1>6 DEF CallProvider, TurnInv, RuntimeInv
  <2>. QED
    BY <2>1, <2>2 DEF TurnFields
<1>7. CASE EndRun(t)
  BY <1>7 DEF EndRun, TurnFields
<1>8. CASE Finish(t) \/ Abandon(t)
  BY <1>7, <1>8 DEF Finish, Abandon
<1>11. CASE EventGone(t)
  BY <1>11 DEF EventGone, NoTurn
<1>12. CASE Rerun(t)
  BY <1>12 DEF Rerun, TurnFields
<1>13. ASSUME NEW u \in Users, Arrive(t, u)
       PROVE  turn'[t].consent = "none" /\ turn'[t].wire = "none"
  BY <1>13 DEF Arrive, NoTurn
<1>. QED
  BY <1>1, <1>4, <1>5, <1>6, <1>8, <1>9, <1>10, <1>11, <1>12, <1>13 DEF TurnStep, HostStep

\* Withdrawing consents is one Withdraw of the contract.
LEMMA WithdrawContract ==
  ASSUME TypeOK, NEW S \in SUBSET Turns, Withdraw(S)
  PROVE  Contract!Next
<1>1. PICK W \in SUBSET Turns : W = {t \in S : turn[t].consent = "granted"}
  OBVIOUS
<1>2. \A t \in Turns :
        /\ turn'[t].consent = IF t \in W THEN "withdrawn" ELSE turn[t].consent
        /\ turn'[t].wire = IF t \in W THEN "none" ELSE turn[t].wire
  BY <1>1 DEF Withdraw, TypeOK, TurnType, TurnFields
<1>3. \A t \in W : turn[t].consent = "granted"
  BY <1>1
<1>4. Contract!Withdraw(W)
  BY <1>2, <1>3 DEF Contract!Withdraw
<1>. QED
  BY <1>4 DEF Contract!Next

\* On a patched host every run, seen through the consent and the wire of its turns,
\* is a run of the contract.
THEOREM ContractImplemented == ASSUME HostV3 PROVE Spec => ImplementsContract
<1>1. Init => Contract!Init
  BY DEF Init, NoTurn, Contract!Init
<1>2. TypeOK /\ ConsentInv /\ [Next]_vars => [Contract!Next]_(Contract!contractVars)
  <2> SUFFICES ASSUME TypeOK, ConsentInv, [Next]_vars
               PROVE  Contract!Next \/ UNCHANGED Contract!contractVars
    OBVIOUS
  <2>1. CASE UNCHANGED turn
    BY <2>1 DEF Contract!contractVars
  <2>2. ASSUME NEW t \in Turns, TurnStep(t)
        PROVE  Contract!Next \/ UNCHANGED Contract!contractVars
    <3>1. TurnInv(t)
      BY DEF ConsentInv, TurnInv
    <3>2. \A s \in Turns \ {t} : turn'[s] = turn[s]
      BY <2>2, TurnStepIsLocal
    <3>3. CASE turn'[t].consent = turn[t].consent /\ turn'[t].wire = turn[t].wire
      BY <3>2, <3>3 DEF Contract!contractVars
    <3>4. CASE /\ turn[t].consent = "none" /\ turn'[t].consent = "granted"
               /\ turn'[t].wire = turn[t].wire
      BY <3>2, <3>4 DEF Contract!Next, Contract!Grant
    <3>5. CASE turn'[t].consent = "none" /\ turn'[t].wire = "none"
      BY <3>2, <3>5 DEF Contract!Next, Contract!Retire
    <3>6. CASE /\ turn'[t].consent = turn[t].consent
               /\ \/ turn'[t].wire = "plain"
                  \/ turn'[t].wire = "guided" /\ turn[t].consent = "granted"
      BY <3>2, <3>6 DEF Contract!Next, Contract!Call
    <3>. QED
      BY <2>2, <3>1, <3>3, <3>4, <3>5, <3>6, TurnStepContract
  <2>3. CASE Invalidation
    <3>1. ASSUME NEW u \in Users, NEW on \in BOOLEAN, SetEnabled(u, on) PROVE Contract!Next
      <4>1. PICK S \in SUBSET Turns : Withdraw(S)
        BY <3>1 DEF SetEnabled, OfUser
      <4>. QED
        BY <4>1, WithdrawContract
    <3>2. ASSUME NEW b \in BOOLEAN, WriteConfig(b) PROVE Contract!Next
      <4>1. PICK S \in SUBSET Turns : Withdraw(S)
        BY <3>2 DEF WriteConfig
      <4>. QED
        BY <4>1, WithdrawContract
    <3>3. CASE Deactivate
      BY <2>1, <3>3 DEF Deactivate
    <3>4. CASE Terminate
      BY <3>4, WithdrawContract DEF Terminate
    <3>. QED
      BY <2>3, <3>1, <3>2, <3>3, <3>4 DEF Invalidation
  <2>. QED
    BY <2>1, <2>2, <2>3 DEF Next, vars
<1>. QED
  BY <1>1, <1>2, TypeCorrect, ConsentCorrect, PTL DEF Spec, ImplementsContract, Contract!Spec
=============================================================================
