-------------------------- MODULE TurnCopiesProofs --------------------------
(***************************************************************************)
(* Other plugins' copies of the block survive its blanking, for every      *)
(* number of users and turns, on both kinds of hosts.  On a host with the  *)
(* mapping the token channel is never used while there is a copy; without  *)
(* it, the token used is the rotated one.                                  *)
(***************************************************************************)
EXTENDS TurnInjectionProofs

\* The block, before and after the assembly, where another plugin can copy it.
Whole(t) ==
  \/ turn[t].phase \in {"hooks", "ready"} /\ req[t].own
  \/ turn[t].phase = "assembling" /\ req[t].block = "text"
  \/ turn[t].phase \in {"assembled", "running"} /\ req[t].rt = "text"

RecordInv(t) ==
  /\ rec[t].held => turn[t].done /\ turn[t].phase # "idle" /\ (rec[t].state \/ rec[t].attach # "no")
  /\ rec[t].held /\ req[t].mark => rec[t].dead

\* Until the hook that attaches a run context there is none, or it is that of an
\* earlier run of the event, and then this request has neither block nor copies.
EarlyInv(t) ==
  /\ turn[t].phase \in {"persona", "loading"}
       => ~turn[t].done /\ ~req[t].own /\ ~req[t].mark /\ req[t].copies = {}
  /\ turn[t].phase \in {"hooks", "ready", "assembling", "assembled"}
       /\ (Whole(t) \/ req[t].copies # {}) => rec[t].attach = "no"

MarkerInv(t) ==
  /\ turn[t].phase = "assembled" /\ (req[t].rt = "text" \/ req[t].copies # {})
       => req[t].marker
  /\ turn[t].phase = "running" /\ rec[t].attach = "live"
       => rec[t].channel = "identity" \/ (req[t].copies = {} /\ req[t].rt # "text")

\* Once the last request hook has run, what can be copied carries the rotated
\* token, as do all copies made before it that could be confused with the block.
TokenInv(t) ==
  turn[t].phase \in {"ready", "assembling", "assembled", "running"} /\ rec[t].held
     /\ (Whole(t) \/ 0 \in req[t].copies)
    => rec[t].tok = 1 \/ (rec[t].attach = "no" /\ ~cfg.active)

CopyInv(t) == RecordInv(t) /\ EarlyInv(t) /\ (HostV3 => MarkerInv(t)) /\ TokenInv(t)

\* What OtherCopiesKept says of one turn and one step.
Kept(t) ==
  turn[t].phase \in InFlight /\ turn'[t].phase \in InFlight
    => req[t].copies \ req'[t].copies \subseteq (IF HostV3 THEN {} ELSE {1})

-----------------------------------------------------------------------------
(* Blanking.                                                               *)

\* Blanking by the registry adds nothing that could be copied, and takes copies away
\* only through the token of a record with a live run context and no mapping.
LEMMA BlankCopies ==
  ASSUME NEW q \in ReqType, NEW r \in RecType,
         NEW p, p = BlankedReq(q, r) \/ p = Released(BlankedReq(q, r))
  PROVE  /\ p.own => q.own
         /\ p.rt = "text" => q.rt = "text"
         /\ p.block = q.block /\ p.marker = q.marker
         /\ p.copies \subseteq q.copies
         /\ q.copies \ p.copies \subseteq {r.tok}
         /\ p.copies # q.copies => r.attach = "live" /\ r.channel = "token"
<1> DEFINE unlinked == [q EXCEPT !.own = IF r.state THEN FALSE ELSE @,
                                 !.mark = TRUE,
                                 !.rt = IF r.state /\ q.pairs /\ q.rt = "text"
                                        THEN "blank" ELSE @]
           facts(x) == /\ x.own => q.own
                       /\ x.rt = "text" => q.rt = "text"
                       /\ x.block = q.block /\ x.marker = q.marker
           taken(x) == /\ x.copies \subseteq q.copies
                       /\ q.copies \ x.copies \subseteq {r.tok}
                       /\ x.copies # q.copies => r.attach = "live" /\ r.channel = "token"
<1>1. unlinked \in ReqType /\ facts(unlinked) /\ unlinked.copies = q.copies
  BY DEF ReqType, RecType
<1>2. \A x \in ReqType, s \in RecType :
        /\ facts(x) => facts(BlankRuntime(x, s))
        /\ BlankRuntime(x, s).copies = IF s.channel = "token" THEN x.copies \ {s.tok} ELSE x.copies
  BY DEF BlankRuntime, ReqType, RecType
<1>3. /\ BlankedRec(q, r) \in RecType /\ BlankedRec(q, r).tok = r.tok
      /\ BlankedRec(q, r).channel = "token" => r.channel = "token"
  BY BlankType DEF BlankedRec, RecType
<1>4. BlankedReq(q, r) = IF r.attach = "live"
                         THEN BlankRuntime(unlinked, BlankedRec(q, r)) ELSE unlinked
  BY DEF BlankedReq
<1>5. facts(BlankedReq(q, r)) /\ taken(BlankedReq(q, r))
  <2>1. CASE r.attach = "live"
    <3> HIDE DEF unlinked, facts
    <3>1. facts(BlankedReq(q, r))
      BY <1>1, <1>2, <1>3, <1>4, <2>1
    <3>2. BlankedReq(q, r).copies = IF BlankedRec(q, r).channel = "token"
                                    THEN q.copies \ {r.tok} ELSE q.copies
      BY <1>1, <1>2, <1>3, <1>4, <2>1
    <3> QED BY <1>3, <2>1, <3>1, <3>2
  <2>2. CASE r.attach # "live"
    <3> HIDE DEF unlinked, facts
    <3> QED BY <1>1, <1>4, <2>2
  <2> QED BY <2>1, <2>2
<1>6. BlankedReq(q, r) \in ReqType
  BY BlankType
<1>7. \A x \in ReqType : facts(x) /\ taken(x) => facts(Released(x)) /\ taken(Released(x))
  BY DEF Released, ReqType
<1> QED BY <1>5, <1>6, <1>7

-----------------------------------------------------------------------------
(* Invalidations.                                                          *)

LEMMA InvalidationFacts ==
  ASSUME TypeOK, NEW t \in Turns, Invalidation
  PROVE  /\ turn'[t].phase = turn[t].phase /\ turn'[t].done = turn[t].done
         /\ cfg'.active => cfg.active
         /\ \/ req'[t] = req[t] /\ rec'[t] = rec[t]
            \/ \E S \in SUBSET Turns : t \in S /\ rec[t].held /\ Purge(S)
<1>0. turn[t] \in TurnFields /\ cfg \in [admin : BOOLEAN, active : BOOLEAN, open : BOOLEAN]
  BY DEF TypeOK, TurnType
<1>1. ASSUME NEW W, Withdraw(W)
      PROVE  turn'[t].phase = turn[t].phase /\ turn'[t].done = turn[t].done
  BY <1>0, <1>1 DEF Withdraw, TurnFields
<1>2. ASSUME NEW S \in SUBSET Turns, Purge(S)
      PROVE  \/ req'[t] = req[t] /\ rec'[t] = rec[t]
             \/ t \in S /\ rec[t].held
  BY <1>2 DEF Purge
<1>3. OfUser(turn[t].who) \in SUBSET Turns /\ \A u : OfUser(u) \in SUBSET Turns
  BY DEF OfUser
<1>4. ASSUME NEW u \in Users, NEW on \in BOOLEAN, SetEnabled(u, on)
      PROVE  /\ turn'[t].phase = turn[t].phase /\ turn'[t].done = turn[t].done
             /\ cfg' = cfg /\ Purge(OfUser(u))
  BY <1>1, <1>4 DEF SetEnabled
<1>5. ASSUME NEW b \in BOOLEAN, WriteConfig(b)
      PROVE  /\ turn'[t].phase = turn[t].phase /\ turn'[t].done = turn[t].done
             /\ cfg'.active = cfg.active /\ Purge(Turns)
  BY <1>0, <1>1, <1>5 DEF WriteConfig
<1>6. CASE Terminate
  <2>1. /\ turn'[t].phase = turn[t].phase /\ turn'[t].done = turn[t].done
        /\ cfg'.active = cfg.active /\ Purge(Turns)
    BY <1>0, <1>1, <1>6 DEF Terminate
  <2> QED BY <1>2, <2>1
<1>7. CASE Deactivate
  BY <1>7 DEF Deactivate
<1> QED BY <1>2, <1>3, <1>4, <1>5, <1>6, <1>7 DEF Invalidation

\* What a purge does to a turn that it reaches.
LEMMA PurgedCopies ==
  ASSUME TypeOK, NEW t \in Turns, NEW S \in SUBSET Turns, t \in S, rec[t].held, Purge(S)
  PROVE  /\ req'[t].own => req[t].own
         /\ req'[t].rt = "text" => req[t].rt = "text"
         /\ req'[t].block = req[t].block /\ req'[t].marker = req[t].marker
         /\ req'[t].copies \subseteq req[t].copies
         /\ req[t].copies \ req'[t].copies \subseteq {rec[t].tok}
         /\ req'[t].copies # req[t].copies => rec[t].attach = "live" /\ rec[t].channel = "token"
         /\ \/ rec'[t] = NoRec
            \/ /\ rec'[t].dead /\ rec'[t].state = rec[t].state /\ rec'[t].tok = rec[t].tok
               /\ rec'[t].attach = rec[t].attach /\ rec'[t].attach # "live"
<1>0. req[t] \in ReqType /\ rec[t] \in RecType
  BY DEF TypeOK
<1>1. req'[t] = BlankedReq(req[t], rec[t]) \/ req'[t] = Released(BlankedReq(req[t], rec[t]))
  BY DEF Purge
<1>2. /\ BlankedRec(req[t], rec[t]).dead
      /\ BlankedRec(req[t], rec[t]).state = rec[t].state
      /\ BlankedRec(req[t], rec[t]).tok = rec[t].tok
      /\ BlankedRec(req[t], rec[t]).attach = rec[t].attach
  BY <1>0 DEF BlankedRec, RecType
<1>3. \/ rec'[t] = NoRec
      \/ rec[t].attach # "live" /\ rec'[t] = BlankedRec(req[t], rec[t])
  BY DEF Purge
<1> QED BY <1>0, <1>1, <1>2, <1>3, BlankCopies

LEMMA InvalidationCopies ==
  ASSUME TypeOK, NEW t \in Turns, CopyInv(t), Invalidation
  PROVE  CopyInv(t)' /\ Kept(t)
<1>0. req[t] \in ReqType /\ rec[t] \in RecType
  BY DEF TypeOK
<1>1. /\ turn'[t].phase = turn[t].phase /\ turn'[t].done = turn[t].done
      /\ cfg'.active => cfg.active
  BY InvalidationFacts
<1>2. CASE req'[t] = req[t] /\ rec'[t] = rec[t]
  <2>1. Whole(t)' = Whole(t)
    BY <1>1, <1>2 DEF Whole
  <2> QED BY <1>1, <1>2, <2>1 DEF CopyInv, RecordInv, EarlyInv, MarkerInv, TokenInv, Kept
<1>3. ASSUME NEW S \in SUBSET Turns, t \in S, rec[t].held, Purge(S)
      PROVE  CopyInv(t)' /\ Kept(t)
  <2>1. /\ req'[t].own => req[t].own
        /\ req'[t].rt = "text" => req[t].rt = "text"
        /\ req'[t].block = req[t].block /\ req'[t].marker = req[t].marker
        /\ req'[t].copies \subseteq req[t].copies
        /\ req[t].copies \ req'[t].copies \subseteq {rec[t].tok}
        /\ req'[t].copies # req[t].copies
             => rec[t].attach = "live" /\ rec[t].channel = "token"
    BY <1>3, PurgedCopies
  <2>2. \/ rec'[t] = NoRec
        \/ /\ rec'[t].dead /\ rec'[t].state = rec[t].state /\ rec'[t].tok = rec[t].tok
           /\ rec'[t].attach = rec[t].attach /\ rec'[t].attach # "live"
    BY <1>3, PurgedCopies
  <2>3. Whole(t)' => Whole(t)
    BY <1>1, <2>1 DEF Whole
  <2>4. turn[t].done /\ turn[t].phase \notin {"persona", "loading"}
    BY <1>3 DEF CopyInv, RecordInv, EarlyInv
  <2>5. NoRec.attach = "no" /\ ~NoRec.held
    BY DEF NoRec
  <2>6. RecordInv(t)'
    BY <1>1, <1>3, <2>2, <2>4, <2>5 DEF CopyInv, RecordInv
  <2>7. EarlyInv(t)'
    BY <1>1, <2>1, <2>2, <2>3, <2>4, <2>5 DEF CopyInv, EarlyInv
  <2>8. HostV3 => MarkerInv(t)'
    BY <1>1, <2>1, <2>2, <2>5 DEF CopyInv, MarkerInv
  <2>9. TokenInv(t)'
    BY <1>1, <1>3, <2>1, <2>2, <2>3, <2>5 DEF CopyInv, TokenInv
  <2>10. Kept(t)
    <3> SUFFICES ASSUME turn[t].phase \in InFlight, req'[t].copies # req[t].copies
                 PROVE  ~HostV3 /\ rec[t].tok = 1
      BY <1>0, <2>1 DEF Kept, RecType
    <3>1. rec[t].attach = "live" /\ rec[t].channel = "token" /\ req[t].copies # {}
      BY <2>1
    <3>2. turn[t].phase = "running"
      BY <2>4, <3>1 DEF InFlight, CopyInv, EarlyInv
    <3>3. ~HostV3
      BY <3>1, <3>2 DEF CopyInv, MarkerInv
    <3>4. rec[t].tok \in req[t].copies
      BY <2>1
    <3>5. rec[t].tok = 1
      BY <1>0, <1>3, <3>1, <3>2, <3>4 DEF CopyInv, TokenInv, RecType
    <3> QED BY <3>3, <3>5
  <2> QED BY <2>6, <2>7, <2>8, <2>9, <2>10 DEF CopyInv
<1> QED BY <1>2, <1>3, InvalidationFacts

-----------------------------------------------------------------------------
(* Steps of a turn.                                                        *)

\* The on_llm_request hook and the arrival of an event: the request has no copies.
LEMMA HandlingCopies ==
  ASSUME TypeOK, NEW t \in Turns, CopyInv(t),
         \/ ReadConsent(t) \/ HandleSkip(t) \/ Inject(t) \/ LoadSkip(t) \/ Rerun(t)
         \/ EventGone(t) \/ \E u \in Users : Arrive(t, u)
  PROVE  CopyInv(t)' /\ Kept(t)
<1> USE DEF CopyInv, RecordInv, EarlyInv, MarkerInv, TokenInv, Whole
<1>0. /\ turn \in [Turns -> TurnType] /\ req \in [Turns -> ReqType] /\ rec \in [Turns -> RecType]
      /\ turn[t] \in TurnFields /\ req[t] \in ReqType /\ rec[t] \in RecType
  BY DEF TypeOK, TurnType
<1>1. CASE ReadConsent(t) \/ HandleSkip(t) \/ LoadSkip(t)
  <2>1. /\ turn[t].phase \in {"persona", "loading"} /\ turn'[t].phase \in {"loading", "hooks"}
        /\ turn'[t].phase = "loading" => turn'[t].done = turn[t].done
        /\ req' = req /\ rec' = rec
    <3>1. CASE ReadConsent(t)
      BY <1>0, <3>1 DEF ReadConsent, TurnFields
    <3>2. CASE HandleSkip(t) \/ LoadSkip(t)
      <4>1. /\ turn[t].phase \in {"persona", "loading"} /\ req' = req /\ rec' = rec
            /\ \E d \in BOOLEAN : turn' = [turn EXCEPT ![t] = [@ EXCEPT !.phase = "hooks", !.done = d]]
        BY <3>2 DEF HandleSkip, LoadSkip
      <4>2. turn'[t].phase = "hooks"
        BY <1>0, <4>1 DEF TurnFields
      <4> QED BY <4>1, <4>2
    <3> QED BY <1>1, <3>1, <3>2
  <2>2. ~rec[t].held /\ req[t].copies = {} /\ ~req[t].own
    BY <2>1
  <2> QED BY <2>1, <2>2 DEF Kept
<1>2. CASE Inject(t)
  <2>1. /\ turn[t].phase = "loading" /\ turn'[t].phase = "hooks" /\ turn'[t].done
    BY <1>0, <1>2 DEF Inject, TurnFields
  <2>2. /\ rec'[t].attach = "no" /\ rec'[t].state /\ ~rec'[t].dead
        /\ req'[t].mark = req[t].mark /\ req'[t].copies = req[t].copies
    BY <1>0, <1>2 DEF Inject, NoRec, ReqType
  <2> QED BY <2>1, <2>2 DEF Kept
<1>3. CASE Rerun(t)
  <2>1. /\ turn[t].phase = "over" /\ turn'[t].phase = HandleBegin(turn[t].done)
        /\ turn'[t].done = turn[t].done /\ rec' = rec /\ req'[t] = NoReq
    BY <1>0, <1>3 DEF Rerun, TurnFields
  <2>2. /\ HandleBegin(turn[t].done) \in {"persona", "hooks"}
        /\ HandleBegin(turn[t].done) = "persona" => ~turn[t].done
    BY DEF HandleBegin
  <2> QED BY <2>1, <2>2 DEF NoReq, Kept, InFlight
<1>4. CASE EventGone(t)
  <2>1. turn[t].phase = "over" /\ turn'[t].phase = "idle" /\ rec'[t] = NoRec
    BY <1>0, <1>4 DEF EventGone, NoTurn
  <2> QED BY <2>1 DEF NoRec, Kept, InFlight
<1>5. ASSUME NEW u \in Users, Arrive(t, u) PROVE CopyInv(t)' /\ Kept(t)
  <2>0. PICK p \in {"persona", "hooks"} : p = HandleBegin(FALSE)
    BY DEF HandleBegin
  <2>1. /\ turn[t].phase = "idle" /\ turn'[t].phase = p
        /\ ~turn'[t].done /\ rec' = rec /\ req'[t] = NoReq
    BY <1>0, <1>5, <2>0 DEF Arrive, NoTurn
  <2>2. ~rec[t].held
    BY <2>1
  <2> QED BY <2>1, <2>2 DEF NoReq, Kept, InFlight
<1> QED BY <1>1, <1>2, <1>3, <1>4, <1>5

\* Other plugins' hooks: what is copied carries the token of the moment.
LEMMA OtherHooksCopies ==
  ASSUME TypeOK, NEW t \in Turns, CopyInv(t), CopyBlock(t) \/ RemoveBlock(t)
  PROVE  CopyInv(t)' /\ Kept(t)
<1> USE DEF CopyInv, RecordInv, EarlyInv, MarkerInv, TokenInv, Whole
<1>0. req \in [Turns -> ReqType] /\ req[t] \in ReqType /\ rec[t] \in RecType
  BY DEF TypeOK
<1>1. CASE CopyBlock(t)
  <2>1. /\ req'[t].own = req[t].own /\ req'[t].mark = req[t].mark
        /\ req'[t].block = req[t].block /\ req'[t].rt = req[t].rt
        /\ req'[t].marker = req[t].marker
        /\ req'[t].copies = req[t].copies \cup {rec[t].tok}
    BY <1>0, <1>1 DEF CopyBlock, ReqType
  <2>2. turn' = turn /\ rec' = rec /\ cfg' = cfg
    BY <1>1 DEF CopyBlock
  <2>3. /\ turn[t].phase \in {"hooks", "ready", "assembled", "running"} /\ Whole(t)
    BY <1>1 DEF CopyBlock
  <2> QED BY <2>1, <2>2, <2>3 DEF Kept
<1>2. CASE RemoveBlock(t)
  <2>1. /\ req'[t].own => req[t].own
        /\ req'[t].mark = req[t].mark /\ req'[t].block = req[t].block
        /\ req'[t].rt = "text" => req[t].rt = "text"
        /\ req'[t].marker = req[t].marker /\ req'[t].copies = req[t].copies
    <3>1. CASE req' = [req EXCEPT ![t].own = FALSE]
      BY <1>0, <3>1 DEF ReqType
    <3>2. CASE req' = [req EXCEPT ![t] = [@ EXCEPT !.rt = "none", !.pairs = FALSE]]
      <4>1. PICK q \in ReqType : q = req[t]
        BY <1>0
      <4>2. req'[t] = [q EXCEPT !.rt = "none", !.pairs = FALSE]
        BY <1>0, <3>2, <4>1
      <4> QED BY <4>1, <4>2 DEF ReqType
    <3> QED BY <1>2, <3>1, <3>2 DEF RemoveBlock
  <2>2. turn' = turn /\ rec' = rec /\ cfg' = cfg
    BY <1>2 DEF RemoveBlock
  <2> QED BY <2>1, <2>2 DEF Kept
<1> QED BY <1>1, <1>2

\* The last request hook rotates the token before anything is assembled.
LEMMA FinalizeCopies ==
  ASSUME TypeOK, NEW t \in Turns, CopyInv(t), Finalize(t)
  PROVE  CopyInv(t)' /\ Kept(t)
<1> USE DEF CopyInv, RecordInv, EarlyInv, MarkerInv, TokenInv, Whole
<1>0. /\ req \in [Turns -> ReqType] /\ rec \in [Turns -> RecType] /\ turn \in [Turns -> TurnType]
      /\ req[t] \in ReqType /\ rec[t] \in RecType /\ turn[t] \in TurnFields
  BY DEF TypeOK, TurnType
<1>1. /\ turn[t].phase = "hooks" /\ turn'[t].phase = "ready"
      /\ turn'[t].done = turn[t].done /\ cfg' = cfg
  BY <1>0 DEF Finalize, GoTo, TurnFields
<1>2. CASE req' = req /\ rec' = rec /\ (~cfg.active \/ ~rec[t].held)
  BY <1>1, <1>2 DEF Kept
<1>3. CASE /\ req' = req /\ rec[t].state /\ ~rec[t].dead
           /\ rec' = [rec EXCEPT ![t].tok = IF rec[t].held /\ ~req[t].mark THEN 1 ELSE rec[t].tok]
  <2>1. /\ rec'[t].held = rec[t].held /\ rec'[t].state = rec[t].state
        /\ rec'[t].dead = rec[t].dead /\ rec'[t].attach = rec[t].attach
        /\ rec[t].held /\ ~req[t].mark => rec'[t].tok = 1
    BY <1>0, <1>3 DEF RecType
  <2> QED BY <1>1, <1>3, <2>1 DEF Kept
<1>4. CASE /\ req' = [req EXCEPT ![t].own = FALSE]
           /\ \/ rec'[t] = NoRec
              \/ /\ rec[t].held /\ rec[t].attach = "live"
                 /\ rec'[t].attach = "live" /\ rec'[t].dead
  <2>1. /\ ~req'[t].own /\ req'[t].copies = req[t].copies
    BY <1>0, <1>4 DEF ReqType
  <2> QED BY <1>1, <1>4, <2>1 DEF NoRec, Kept
<1>5. CASE ~cfg.active \/ ~(rec[t].state \/ rec[t].held)
  BY <1>2, <1>5 DEF Finalize
<1>6. CASE ~(~cfg.active \/ ~(rec[t].state \/ rec[t].held))
  <2> DEFINE tok == IF rec[t].held /\ ~req[t].mark THEN 1 ELSE rec[t].tok
  <2>1. PICK ok \in CheckResults(t) :
          IF ok /\ rec[t].state /\ ~rec[t].dead
          THEN /\ rec' = [rec EXCEPT ![t].tok = tok]
               /\ UNCHANGED req
          ELSE /\ rec' = [rec EXCEPT ![t] =
                            IF ~rec[t].held \/ rec[t].attach # "live" THEN NoRec
                            ELSE [@ EXCEPT !.dead = TRUE, !.state = FALSE,
                                           !.tok = tok]]
               /\ req' = [req EXCEPT ![t].own = FALSE]
    BY <1>6 DEF Finalize
  <2>2. CASE ok /\ rec[t].state /\ ~rec[t].dead
    BY <1>3, <2>1, <2>2
  <2>3. CASE ~(ok /\ rec[t].state /\ ~rec[t].dead)
    <3>1. CASE ~rec[t].held \/ rec[t].attach # "live"
      BY <1>0, <1>4, <2>1, <2>3, <3>1
    <3>2. CASE rec[t].held /\ rec[t].attach = "live"
      <4>1. PICK r \in RecType : r = rec[t]
        BY <1>0
      <4>2. rec'[t].attach = "live" /\ rec'[t].dead
        <5>1. rec'[t] = [r EXCEPT !.dead = TRUE, !.state = FALSE, !.tok = tok]
          BY <1>0, <2>1, <2>3, <3>2, <4>1
        <5> HIDE DEF tok
        <5> QED BY <3>2, <4>1, <5>1 DEF RecType
      <4> QED BY <1>4, <2>1, <2>3, <3>2, <4>2
    <3> QED BY <3>1, <3>2
  <2> QED BY <2>2, <2>3
<1> QED BY <1>5, <1>6

\* The assembly: a request with something that can be copied is marked as bound.
LEMMA AssemblyCopies ==
  ASSUME TypeOK, NEW t \in Turns, CopyInv(t), Serialise(t) \/ Bind(t)
  PROVE  CopyInv(t)' /\ Kept(t)
<1> USE DEF CopyInv, RecordInv, EarlyInv, MarkerInv, TokenInv, Whole
<1>0. /\ req \in [Turns -> ReqType] /\ turn \in [Turns -> TurnType]
      /\ req[t] \in ReqType /\ rec[t] \in RecType /\ turn[t] \in TurnFields
  BY DEF TypeOK, TurnType
<1>1. CASE Serialise(t)
  <2>1. /\ turn[t].phase = "ready" /\ turn'[t].phase = "assembling"
        /\ turn'[t].done = turn[t].done /\ cfg' = cfg /\ rec' = rec
    BY <1>0, <1>1 DEF Serialise, GoTo, TurnFields
  <2>2. /\ req'[t].block = "text" => req[t].own
        /\ req'[t].mark = req[t].mark /\ req'[t].copies = req[t].copies
    BY <1>0, <1>1 DEF Serialise, ReqType
  <2> QED BY <2>1, <2>2 DEF Kept
<1>2. CASE Bind(t)
  <2>1. /\ turn[t].phase = "assembling" /\ turn'[t].phase = "assembled"
        /\ turn'[t].done = turn[t].done /\ cfg' = cfg /\ rec' = rec
    BY <1>0, <1>2 DEF Bind, GoTo, TurnFields
  <2>2. PICK q \in ReqType : q = req[t]
    BY <1>0
  <2>3. PICK v, m, b :
          /\ req'[t] = [q EXCEPT !.rt = v, !.marker = m, !.pairs = b]
          /\ v = "text" => q.block = "text"
          /\ HostV3 /\ (q.block = "text" \/ q.copies # {}) => m
    <3>1. PICK others \in {FALSE, OtherHooks} :
            req' = [req EXCEPT ![t] = [@ EXCEPT
              !.rt = IF HostV3 /\ req[t].mark /\ req[t].block = "text"
                     THEN "blank" ELSE req[t].block,
              !.marker = HostV3 /\ ((req[t].block = "text" \/ req[t].copies # {}) \/ others),
              !.pairs = HostV3 /\ req[t].block = "text"]]
      BY <1>2 DEF Bind
    <3> QED BY <1>0, <2>2, <3>1
  <2>4. /\ req'[t].rt = v /\ req'[t].marker = m
        /\ req'[t].mark = q.mark /\ req'[t].copies = q.copies
    BY <2>3 DEF ReqType
  <2> QED BY <2>1, <2>2, <2>3, <2>4 DEF Kept
<1> QED BY <1>1, <1>2

\* The hook that attaches the run context settles the channel before it blanks.
LEMMA AgentBeginCopies ==
  ASSUME TypeOK, NEW t \in Turns, CopyInv(t), AgentBegin(t)
  PROVE  CopyInv(t)' /\ Kept(t)
<1> USE DEF CopyInv, RecordInv, EarlyInv, MarkerInv, TokenInv, Whole
<1>0. /\ req \in [Turns -> ReqType] /\ rec \in [Turns -> RecType] /\ turn \in [Turns -> TurnType]
      /\ req[t] \in ReqType /\ rec[t] \in RecType /\ turn[t] \in TurnFields
  BY DEF TypeOK, TurnType
<1>1. /\ turn[t].phase = "assembled" /\ turn'[t].phase = "running"
      /\ turn'[t].done = turn[t].done /\ cfg' = cfg
  BY <1>0 DEF AgentBegin, GoTo, TurnFields
<1>2. CASE ~cfg.active \/ ~rec[t].held
  <2>1. req' = req /\ rec' = rec
    BY <1>2 DEF AgentBegin
  <2> QED BY <1>1, <2>1 DEF Kept
<1>3. CASE cfg.active /\ rec[t].held
  <2> DEFINE mapped == rec[t].state /\ (req[t].marker \/ req[t].pairs)
             a == IF rec[t].attach = "no" THEN "live" ELSE rec[t].attach
             h == IF mapped THEN "identity" ELSE rec[t].channel
             r == [rec[t] EXCEPT !.attach = a, !.channel = h]
  <2>1. /\ r.attach = a /\ r.channel = h /\ r.held = rec[t].held /\ r.state = rec[t].state
        /\ r.dead = rec[t].dead /\ r.tok = rec[t].tok /\ r \in RecType
    <3>1. a \in {"no", "live", "lost"} /\ h \in {"token", "identity"}
      BY <1>0 DEF RecType
    <3> HIDE DEF a, h
    <3> QED BY <1>0, <3>1 DEF RecType
  <2>2. \/ rec' = [rec EXCEPT ![t] = r] /\ req' = req
        \/ /\ rec' = [rec EXCEPT ![t] = NoRec]
           /\ req' = [req EXCEPT ![t] =
                IF r.attach = "live" THEN BlankRuntime(req[t], r) ELSE req[t]]
    BY <1>3 DEF AgentBegin
  \* On a host with the mapping the token is not used while there is a copy.
  <2>3. HostV3 /\ a = "live" => h = "identity" \/ (req[t].copies = {} /\ req[t].rt # "text")
    BY <1>1, <1>3
  \* Without it the token was rotated.
  <2>4. req[t].rt = "text" \/ 0 \in req[t].copies => rec[t].tok = 1
    BY <1>1, <1>3
  <2>5. CASE rec' = [rec EXCEPT ![t] = r] /\ req' = req
    <3>1. rec'[t] = r
      BY <1>0, <2>5
    <3> HIDE DEF r, h
    <3> QED BY <1>1, <1>3, <2>1, <2>3, <2>4, <2>5, <3>1 DEF Kept
  <2>6. CASE /\ rec' = [rec EXCEPT ![t] = NoRec]
             /\ req' = [req EXCEPT ![t] =
                  IF r.attach = "live" THEN BlankRuntime(req[t], r) ELSE req[t]]
    <3>1. rec'[t] = NoRec
      BY <1>0, <2>6
    <3>2. req'[t].copies = IF a = "live" /\ h = "token" THEN req[t].copies \ {rec[t].tok}
                           ELSE req[t].copies
      <4>1. \A q \in ReqType, x \in RecType :
              /\ BlankRuntime(q, x) \in ReqType
              /\ BlankRuntime(q, x).copies = IF x.channel = "token" THEN q.copies \ {x.tok}
                                             ELSE q.copies
        BY DEF BlankRuntime, ReqType, RecType
      <4>2. PICK x \in RecType : x = r
        BY <2>1
      <4> HIDE DEF r, h, a
      <4>3. req'[t] = IF x.attach = "live" THEN BlankRuntime(req[t], x) ELSE req[t]
        BY <1>0, <2>6, <4>2
      <4>4. x.attach = a /\ x.channel = h /\ x.tok = rec[t].tok
        BY <2>1, <4>2
      <4>5. BlankRuntime(req[t], x).copies =
              IF x.channel = "token" THEN req[t].copies \ {x.tok} ELSE req[t].copies
        BY <1>0, <4>1
      <4>6. CASE x.attach = "live"
        BY <4>3, <4>4, <4>5, <4>6
      <4>7. CASE x.attach # "live"
        BY <4>3, <4>4, <4>7
      <4> QED BY <4>6, <4>7
    <3>3. Kept(t)
      <4>1. rec[t].tok \in {0, 1}
        BY <1>0 DEF RecType
      <4> HIDE DEF a, h
      <4> QED BY <2>3, <2>4, <3>2, <4>1 DEF Kept
    <3> QED BY <1>1, <3>1, <3>3 DEF NoRec
  <2> QED BY <2>2, <2>5, <2>6
<1> QED BY <1>2, <1>3

\* Calls and the end of a turn: nothing is blanked.
LEMMA EndCopies ==
  ASSUME TypeOK, NEW t \in Turns, CopyInv(t),
         \/ CallProvider(t) \/ Finish(t) \/ Abandon(t)
         \/ Decorate(t) \/ TaskDone(t) \/ ContextGone(t)
  PROVE  CopyInv(t)' /\ Kept(t)
<1> USE DEF CopyInv, RecordInv, EarlyInv, MarkerInv, TokenInv, Whole
<1>0. /\ req \in [Turns -> ReqType] /\ rec \in [Turns -> RecType] /\ turn \in [Turns -> TurnType]
      /\ req[t] \in ReqType /\ rec[t] \in RecType /\ turn[t] \in TurnFields
  BY DEF TypeOK, TurnType
<1>1. CASE CallProvider(t)
  <2>1. /\ turn'[t].phase = turn[t].phase /\ turn'[t].done = turn[t].done
        /\ req' = req /\ rec' = rec /\ cfg' = cfg
    BY <1>0, <1>1 DEF CallProvider, TurnFields
  <2> QED BY <2>1 DEF Kept
<1>2. CASE Finish(t) \/ Abandon(t)
  <2>1. /\ turn'[t].phase = "over" /\ turn'[t].done = turn[t].done /\ req'[t] = NoReq
    <3>1. EndRun(t)
      BY <1>2 DEF Finish, Abandon
    <3>2. PICK x \in TurnFields : x = turn[t]
      BY <1>0
    <3>3. turn'[t] = [x EXCEPT !.phase = "over", !.consent = "none", !.wire = "none"]
      BY <1>0, <3>1, <3>2 DEF EndRun
    <3>4. req'[t] = NoReq
      BY <1>0, <3>1 DEF EndRun
    <3> QED BY <3>2, <3>3, <3>4 DEF TurnFields
  <2>2. rec'[t] = NoRec \/ rec'[t] = rec[t]
    BY <1>0, <1>2 DEF Finish, Abandon
  <2> QED BY <2>1, <2>2 DEF NoReq, NoRec, Kept, InFlight
<1>3. CASE Decorate(t) \/ TaskDone(t)
  <2>1. turn' = turn /\ cfg' = cfg /\ rec'[t] = NoRec /\ req'[t] = Released(req[t])
    BY <1>0, <1>3 DEF Decorate, TaskDone, Release
  <2>2. req'[t].copies = req[t].copies /\ turn[t].phase \in {"running", "over"}
    BY <1>0, <1>3, <2>1 DEF Decorate, TaskDone, Released, ReqType
  <2> QED BY <2>1, <2>2 DEF NoRec, Kept
<1>4. CASE ContextGone(t)
  <2>1. /\ turn' = turn /\ req' = req /\ turn[t].phase = "over"
        /\ rec'[t].held = rec[t].held /\ rec'[t].dead = rec[t].dead
        /\ rec'[t].attach = "lost"
    BY <1>0, <1>4 DEF ContextGone, RecType
  <2> QED BY <2>1 DEF Kept
<1> QED BY <1>1, <1>2, <1>3, <1>4

-----------------------------------------------------------------------------

LEMMA TurnStepCopies ==
  ASSUME TypeOK, NEW t \in Turns, CopyInv(t), TurnStep(t)
  PROVE  CopyInv(t)' /\ Kept(t)
  BY HandlingCopies, OtherHooksCopies, FinalizeCopies, AssemblyCopies, AgentBeginCopies,
     EndCopies DEF TurnStep, HostStep

LEMMA EveryStepCopies ==
  ASSUME TypeOK, NEW t \in Turns, CopyInv(t), [Next]_vars
  PROVE  CopyInv(t)' /\ Kept(t)
<1>1. CASE turn'[t] = turn[t] /\ req'[t] = req[t] /\ rec'[t] = rec[t] /\ cfg' = cfg
  <2>1. Whole(t)' = Whole(t)
    BY <1>1 DEF Whole
  <2> QED BY <1>1, <2>1 DEF CopyInv, RecordInv, EarlyInv, MarkerInv, TokenInv, Kept
<1>2. ASSUME NEW s \in Turns, TurnStep(s) PROVE CopyInv(t)' /\ Kept(t)
  BY <1>1, <1>2, TurnStepIsLocal, TurnStepCopies
<1> QED BY <1>1, <1>2, InvalidationCopies DEF Next, vars

\* Clearing the plugin's block never blanks another plugin's copy, for every number of
\* users, turns and epochs; without the mapping, no copy made before the token was
\* rotated.
THEOREM CopiesKept == Spec => OtherCopiesKept
<1> DEFINE Inv == \A t \in Turns : CopyInv(t)
<1>1. Init => Inv
  BY DEF Init, CopyInv, RecordInv, EarlyInv, MarkerInv, TokenInv, NoTurn, NoReq, NoRec
<1>2. TypeOK /\ Inv /\ [Next]_vars => Inv'
  BY EveryStepCopies
<1>3. TypeOK /\ Inv /\ [Next]_vars => [\A t \in Turns : Kept(t)]_vars
  BY EveryStepCopies
<1> HIDE DEF Inv
<1> QED BY <1>1, <1>2, <1>3, TypeCorrect, PTL DEF Spec, OtherCopiesKept, Kept
=============================================================================
