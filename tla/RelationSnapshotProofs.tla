------------------------ MODULE RelationSnapshotProofs ------------------------
(***************************************************************************)
(* The properties of RelationSnapshot for every row, clock and number of   *)
(* writes.  The invariant says where each thing the reader holds was seen: *)
(* at some moment of the call, none of which is later than now.            *)
(***************************************************************************)
EXTENDS RelationSnapshot, TLAPS

\* What the reader holds was so at some moment of this call.
HeldWasSeen ==
  /\ Reading => Now \in moments
  /\ \A m \in moments : m.clock <= clock
  /\ reader.step \in {"tables", "version", "account", "timed", "judge"} =>
       \E m \in moments : m.files.config = reader.scope
  /\ reader.step \in {"account", "timed", "judge"} =>
       \E m \in moments : m.files.schema = "known"
  /\ reader.step \in {"timed", "judge"} =>
       /\ reader.account.readable
       /\ \E m \in moments : m.files.account[reader.scope] = reader.account
  /\ reader.step = "judge" =>
       \E m \in moments : m.files.timed[reader.scope] = reader.timed

IInv ==
  /\ TypeOK
  /\ HeldWasSeen
  /\ LastingRestrictionHonoured
  /\ NoRestrictionInvented
  /\ NothingGuessed

\* A step of Relation Arc or of the clock.
Outside ==
  \/ \E s \in Scopes, a \in Accounts, t \in TimedRows : WriteRows(s, a, t)
  \/ \E c \in Scopes \cup {"unclear"} : WriteConfig(c)
  \/ \E schema \in {"missing", "unknown", "known"} : Migrate(schema)
  \/ Tick

\* Levels are ordered by their rank.
LEMMA RankType == \A l \in Levels : Rank[l] \in 0..2
  BY DEF Rank, Levels

\* The level that counts is a level, at least the base, and at least a live timed row.
LEMMA EffectiveBounds ==
  ASSUME NEW a \in AccountRow, NEW t \in TimedRow, NEW now \in Nat
  PROVE  /\ Effective(a, t, now) \in Levels
         /\ Rank[Effective(a, t, now)] >= Rank[Base(a)]
         /\ Live(t, now) => Rank[Effective(a, t, now)] >= Rank[t.level]
  BY DEF Effective, Stricter, Base, Live, Rank, Levels, AccountRow, TimedRow

\* It is due to the account alone, or to a timed row that is live.
LEMMA EffectiveSource ==
  ASSUME NEW a \in AccountRow, NEW t \in TimedRow, NEW now \in Nat
  PROVE  \/ a.paused /\ Effective(a, t, now) = "pause_intimacy"
         \/ Effective(a, t, now) = Base(a)
         \/ Live(t, now) /\ Effective(a, t, now) = t.level
  BY DEF Effective, Stricter, Base, Live

\* The type invariant is inductive.
LEMMA TypeInductive == TypeOK /\ [Next]_vars => TypeOK'
<1> SUFFICES ASSUME TypeOK, [Next]_vars PROVE TypeOK'
  OBVIOUS
<1> USE DEF TypeOK
<1>now. Now \in Moment
  BY DEF Now, Moment
<1>idle. [step |-> "idle", scope |-> reader.scope, account |-> NoAccount, timed |-> NoTimed]
           \in Readers
  BY RowAssumption DEF Readers, Steps
<1>un. Unavailable \in Snapshots
  BY DEF Unavailable, Snapshots, Levels
<1>1. CASE Load
  <2>1. [reader EXCEPT !.step = "config"] \in Readers
    BY DEF Readers, Steps
  <2> QED BY <1>1, <2>1, <1>now, <1>idle, <1>un DEF Load, Return
<1>2. CASE ReadConfig
  <2>1. [reader EXCEPT !.step = "tables", !.scope = arc.config] \in Readers
    BY <1>2 DEF ReadConfig, Readers, Steps
  <2> QED BY <1>2, <2>1 DEF ReadConfig, Goes
<1>3. CASE CheckTables \/ CheckVersion
  <2>1. /\ [reader EXCEPT !.step = "version"] \in Readers
        /\ [reader EXCEPT !.step = "account"] \in Readers
    BY DEF Readers, Steps
  <2> QED BY <1>3, <2>1 DEF CheckTables, CheckVersion, Goes
<1>4. CASE ReadAccount
  <2>1. arc.account[reader.scope] \in AccountRow
    BY DEF Files, Readers
  <2>2. [reader EXCEPT !.step = "timed", !.account = arc.account[reader.scope]] \in Readers
    BY <2>1 DEF Readers, Steps
  <2> QED BY <1>4, <2>2 DEF ReadAccount, Goes
<1>5. CASE ReadTimed
  <2>1. arc.timed[reader.scope] \in TimedRow
    BY DEF Files, Readers
  <2>2. [reader EXCEPT !.step = "judge", !.timed = arc.timed[reader.scope]] \in Readers
    BY <2>1 DEF Readers, Steps
  <2> QED BY <1>5, <2>2 DEF ReadTimed, Goes
<1>6. CASE Judge
  <2>1. reader.account \in AccountRow /\ reader.timed \in TimedRow
    BY DEF Readers
  <2>2. [available |-> TRUE, paused |-> reader.account.paused,
         rhythm |-> Effective(reader.account, reader.timed, clock)] \in Snapshots
    BY <2>1, EffectiveBounds DEF Snapshots, AccountRow
  <2> QED BY <1>6, <2>2, <1>idle DEF Judge, Judged, Return
<1>7. CASE Refuse \/ Raise
  BY <1>7, <1>idle, <1>un DEF Refuse, Raise, Return
<1>8. CASE Outside
  <2>1. arc' \in Files /\ clock' \in Nat /\ writes' \in Nat
    <3>1. CASE \E s \in Scopes, a \in Accounts, t \in TimedRows : WriteRows(s, a, t)
      <4> PICK s \in Scopes, a \in Accounts, t \in TimedRows : WriteRows(s, a, t)
        BY <3>1
      <4>1. a \in AccountRow /\ t \in TimedRow
        BY RowAssumption
      <4>2. [arc.account EXCEPT ![s] = a] \in [Scopes -> AccountRow]
        BY <4>1 DEF Files
      <4>3. [arc.timed EXCEPT ![s] = t] \in [Scopes -> TimedRow]
        BY <4>1 DEF Files
      <4>4. arc' = [arc EXCEPT !.account = [arc.account EXCEPT ![s] = a],
                               !.timed = [arc.timed EXCEPT ![s] = t]]
        BY DEF WriteRows, Writes, Files
      <4>5. arc' \in Files
        BY <4>2, <4>3, <4>4 DEF Files
      <4> QED BY <4>5 DEF WriteRows, Writes
    <3>2. CASE \E c \in Scopes \cup {"unclear"} : WriteConfig(c)
      BY <3>2 DEF WriteConfig, Writes, Files
    <3>3. CASE \E schema \in {"missing", "unknown", "known"} : Migrate(schema)
      BY <3>3 DEF Migrate, Writes, Files
    <3>4. CASE Tick
      BY <3>4 DEF Tick
    <3> QED BY <1>8, <3>1, <3>2, <3>3, <3>4 DEF Outside
  <2>2. Now' \in Moment
    BY <2>1 DEF Now, Moment
  <2>3. Seen /\ UNCHANGED <<reader, snapshot>>
    BY <1>8 DEF Outside, WriteRows, WriteConfig, Migrate, Writes, Tick
  <2> QED BY <2>1, <2>2, <2>3 DEF Seen
<1>9. CASE UNCHANGED vars
  BY <1>9 DEF vars
<1> QED BY <1>1, <1>2, <1>3, <1>4, <1>5, <1>6, <1>7, <1>8, <1>9 DEF Next, Outside

\* What a step of the files or of the clock leaves alone, and what it adds.
LEMMA OutsideStep ==
  ASSUME TypeOK, TypeOK', Outside
  PROVE  /\ UNCHANGED <<reader, snapshot>>
         /\ clock <= clock'
         /\ moments' = IF Reading THEN moments \cup {Now'} ELSE moments
<1>1. UNCHANGED <<reader, snapshot>> /\ Seen /\ (clock' = clock \/ clock' = clock + 1)
  BY DEF Outside, WriteRows, WriteConfig, Migrate, Writes, Tick
<1> QED BY <1>1 DEF Seen, TypeOK

\* Each read keeps the moment it was made at; the files may go on changing.
LEMMA HeldInductive ==
  ASSUME TypeOK, TypeOK', HeldWasSeen, [Next]_vars
  PROVE  HeldWasSeen'
<1> USE DEF TypeOK
<1>1. CASE Load
  BY <1>1 DEF Load, Return, HeldWasSeen, Reading, Now, Readers
<1>2. CASE ReadConfig
  BY <1>2 DEF ReadConfig, Goes, HeldWasSeen, Reading, Now, Readers
<1>3. CASE CheckTables \/ CheckVersion
  BY <1>3 DEF CheckTables, CheckVersion, Goes, HeldWasSeen, Reading, Now, Readers
<1>4. CASE ReadAccount
  BY <1>4 DEF ReadAccount, Goes, HeldWasSeen, Reading, Now, Readers
<1>5. CASE ReadTimed
  BY <1>5 DEF ReadTimed, Goes, HeldWasSeen, Reading, Now, Readers
<1>6. CASE Judge \/ Refuse \/ Raise
  BY <1>6 DEF Judge, Judged, Refuse, Raise, Return, HeldWasSeen, Reading
<1>7. CASE Outside
  <2>1. UNCHANGED reader /\ clock <= clock' /\ clock \in Nat /\ clock' \in Nat
    BY <1>7, OutsideStep
  <2>2. moments \subseteq moments' /\ moments' \subseteq moments \cup {Now'}
    BY <1>7, OutsideStep
  <2>3. Reading' => Now' \in moments'
    BY <1>7, OutsideStep, <2>1 DEF Reading
  <2>4. \A m \in moments' : m.clock <= clock'
    <3> SUFFICES ASSUME NEW m \in moments' PROVE m.clock <= clock'
      OBVIOUS
    <3>1. CASE m \in moments
      BY <3>1, <2>1 DEF HeldWasSeen, Moment
    <3>2. CASE m = Now'
      BY <3>2, <2>1 DEF Now
    <3> QED BY <2>2, <3>1, <3>2
  <2> QED BY <2>1, <2>2, <2>3, <2>4 DEF HeldWasSeen
<1>8. CASE UNCHANGED vars
  BY <1>8 DEF vars, HeldWasSeen, Reading, Now
<1> QED BY <1>1, <1>2, <1>3, <1>4, <1>5, <1>6, <1>7, <1>8 DEF Next, Outside

\* A step that gives no snapshot, or none that is new, leaves what is said of it alone.
LEMMA OnlyJudgeReturns ==
  ASSUME TypeOK, TypeOK', [Next]_vars, ~Judge
  PROVE  \/ ~Returned'
         \/ Returned /\ UNCHANGED <<snapshot, moments>>
<1> USE DEF TypeOK, Returned, Reading
<1>1. CASE Load
  BY <1>1 DEF Load, Return, Unavailable, Readers
<1>2. CASE ReadConfig
  BY <1>2 DEF ReadConfig, Goes, Readers
<1>3. CASE CheckTables \/ CheckVersion
  BY <1>3 DEF CheckTables, CheckVersion, Goes, Readers
<1>4. CASE ReadAccount
  BY <1>4 DEF ReadAccount, Goes, Readers
<1>5. CASE ReadTimed
  BY <1>5 DEF ReadTimed, Goes, Readers
<1>6. CASE Refuse \/ Raise
  BY <1>6 DEF Refuse, Raise, Return, Unavailable
<1>7. CASE Outside
  BY <1>7, OutsideStep
<1>8. CASE UNCHANGED vars
  BY <1>8 DEF vars
<1> QED BY <1>1, <1>2, <1>3, <1>4, <1>5, <1>6, <1>7, <1>8 DEF Next, Outside

\* What Judge returns, and which moments it rests on.
LEMMA JudgeRestsOnMoments ==
  ASSUME TypeOK, HeldWasSeen, Judge
  PROVE  /\ moments' = moments
         /\ snapshot'.paused = reader.account.paused
         /\ snapshot'.rhythm = Effective(reader.account, reader.timed, clock)
         /\ reader.account \in AccountRow /\ reader.timed \in TimedRow
         /\ reader.account.readable
         /\ Now \in moments
         /\ \E m \in moments : m.files.config = reader.scope
         /\ \E m \in moments : m.files.schema = "known"
         /\ \E m \in moments : m.files.account[reader.scope] = reader.account
         /\ \E m \in moments : m.files.timed[reader.scope] = reader.timed
  BY DEF TypeOK, Readers, HeldWasSeen, Judge, Judged, Return, Reading

\* What stands throughout the call is in what Judge returns.
LEMMA JudgeHonours ==
  ASSUME TypeOK, HeldWasSeen, Judge
  PROVE  LastingRestrictionHonoured'
<1> DEFINE P(s) ==
      /\ (\A m \in moments' : m.files.account[s].paused) =>
           snapshot'.paused /\ AsStrictAs("pause_intimacy")'
      /\ \A l \in Levels :
           (\A m \in moments' : Rank[Base(m.files.account[s])] >= Rank[l]) => AsStrictAs(l)'
      /\ \A n \in moments' :
           LET t == n.files.timed[s]
           IN  (\A m \in moments' : m.files.timed[s] = t /\ Live(t, m.clock))
                 => AsStrictAs(t.level)'
<1> SUFFICES ASSUME NEW s \in Scopes, \A m \in moments' : m.files.config = s
             PROVE  P(s)
  BY DEF LastingRestrictionHonoured
<1> USE JudgeRestsOnMoments
<1>s. s = reader.scope
  OBVIOUS
<1>clock. clock \in Nat
  BY DEF TypeOK
<1>b. /\ Rank[snapshot'.rhythm] >= Rank[Base(reader.account)]
      /\ Live(reader.timed, clock) => Rank[snapshot'.rhythm] >= Rank[reader.timed.level]
  BY <1>clock, EffectiveBounds
<1>1. ASSUME \A m \in moments' : m.files.account[s].paused
      PROVE  snapshot'.paused /\ AsStrictAs("pause_intimacy")'
  <2>1. reader.account.paused
    BY <1>1, <1>s
  <2>2. snapshot'.paused /\ snapshot'.rhythm = "pause_intimacy"
    BY <2>1 DEF Effective
  <2> QED BY <2>2, RankType DEF AsStrictAs, Levels
<1>2. ASSUME NEW l \in Levels, \A m \in moments' : Rank[Base(m.files.account[s])] >= Rank[l]
      PROVE  AsStrictAs(l)'
  <2>1. Rank[Base(reader.account)] >= Rank[l]
    BY <1>2, <1>s
  <2>2. Base(reader.account) \in Levels /\ snapshot'.rhythm \in Levels
    BY <1>clock, EffectiveBounds DEF Base, Levels
  <2> QED BY <1>b, <2>1, <2>2, RankType DEF AsStrictAs
<1>3. ASSUME NEW n \in moments',
             \A m \in moments' : /\ m.files.timed[s] = n.files.timed[s]
                                 /\ Live(n.files.timed[s], m.clock)
      PROVE  AsStrictAs(n.files.timed[s].level)'
  <2>1. reader.timed = n.files.timed[s]
    BY <1>3, <1>s
  <2>2. Live(reader.timed, clock)
    BY <1>3, <2>1 DEF Now
  <2> QED BY <1>b, <2>1, <2>2 DEF AsStrictAs
<1> QED BY <1>1, <1>2, <1>3

\* The level Judge returns was reached at the moment the row it comes from was read.
LEMMA JudgeInventsNothing ==
  ASSUME TypeOK, HeldWasSeen, Judge
  PROVE  NoRestrictionInvented'
<1> USE JudgeRestsOnMoments
<1>1. clock \in Nat /\ reader.scope \in Scopes /\ moments \subseteq Moment
  BY DEF TypeOK, Readers
<1> DEFINE Reached(m) ==
      Rank[Effective(m.files.account[reader.scope], m.files.timed[reader.scope], m.clock)]
        >= Rank[snapshot'.rhythm]
<1>2. \A m \in moments : /\ m.files.account[reader.scope] \in AccountRow
                         /\ m.files.timed[reader.scope] \in TimedRow
                         /\ m.clock \in Nat /\ m.clock <= clock
  BY <1>1 DEF Moment, Files, HeldWasSeen
<1>3. \E m \in moments : Reached(m)
  <2>1. CASE reader.account.paused
    <3> PICK m \in moments : m.files.account[reader.scope] = reader.account
      OBVIOUS
    <3>1. Effective(m.files.account[reader.scope], m.files.timed[reader.scope], m.clock)
            = snapshot'.rhythm
      BY <2>1 DEF Effective
    <3>2. snapshot'.rhythm \in Levels
      BY <1>1, EffectiveBounds
    <3> QED BY <3>1, <3>2, RankType
  <2>2. CASE snapshot'.rhythm = Base(reader.account)
    <3> PICK m \in moments : m.files.account[reader.scope] = reader.account
      OBVIOUS
    <3>1. Reached(m)
      BY <2>2, <1>2, EffectiveBounds
    <3> QED BY <3>1
  <2>3. CASE Live(reader.timed, clock) /\ snapshot'.rhythm = reader.timed.level
    <3> PICK m \in moments : m.files.timed[reader.scope] = reader.timed
      OBVIOUS
    <3>1. Live(reader.timed, m.clock)
      BY <2>3, <1>1, <1>2 DEF Live, TimedRow
    <3>2. Reached(m)
      BY <2>3, <3>1, <1>2, EffectiveBounds
    <3> QED BY <3>2
  <2> QED BY <2>1, <2>2, <2>3, <1>1, EffectiveSource
<1>4. \E m \in moments' : m.files.config = reader.scope
  OBVIOUS
<1> QED BY <1>1, <1>3, <1>4 DEF NoRestrictionInvented

\* Each check Judge rests on was passed at a moment of the call.
LEMMA JudgeGuessesNothing ==
  ASSUME TypeOK, HeldWasSeen, Judge
  PROVE  NothingGuessed'
<1>1. reader.scope \in Scopes
  BY DEF TypeOK, Readers
<1> QED BY <1>1, JudgeRestsOnMoments DEF NothingGuessed

\* Every step keeps the invariant.
LEMMA IInvInductive == IInv /\ [Next]_vars => IInv'
<1> SUFFICES ASSUME IInv, [Next]_vars PROVE IInv'
  OBVIOUS
<1>1. TypeOK' /\ TypeOK /\ HeldWasSeen
  BY TypeInductive DEF IInv
<1>2. HeldWasSeen'
  BY <1>1, HeldInductive
<1>3. CASE Judge
  BY <1>1, <1>2, <1>3, JudgeHonours, JudgeInventsNothing, JudgeGuessesNothing DEF IInv
<1>4. CASE ~Judge
  <2>1. CASE ~Returned'
    BY <1>1, <1>2, <2>1
       DEF IInv, LastingRestrictionHonoured, NoRestrictionInvented, NothingGuessed
  <2>2. CASE Returned /\ UNCHANGED <<snapshot, moments>>
    BY <1>1, <1>2, <2>2
       DEF IInv, LastingRestrictionHonoured, NoRestrictionInvented, NothingGuessed, AsStrictAs
  <2> QED BY <1>1, <1>4, <2>1, <2>2, OnlyJudgeReturns
<1> QED BY <1>3, <1>4

\* The first call has not been made: the files are as they are found, nothing was read.
LEMMA IInvInitially == Init => IInv
<1> SUFFICES ASSUME Init PROVE IInv
  OBVIOUS
<1>1. TypeOK
  <2> PICK a \in Accounts, t \in TimedRows :
        arc = [config |-> "session", schema |-> "known",
               account |-> [global |-> NoAccount, session |-> a],
               timed |-> [global |-> NoTimed, session |-> t]]
    BY DEF Init
  <2>1. arc \in Files
    BY RowAssumption DEF Files, Scopes
  <2>2. reader \in Readers
    BY RowAssumption DEF Init, Readers, Steps, Scopes
  <2> QED BY <2>1, <2>2 DEF TypeOK, Init, Unavailable, Snapshots, Levels
<1>2. HeldWasSeen /\ ~Returned
  BY DEF Init, HeldWasSeen, Reading, Returned, Unavailable
<1> QED BY <1>1, <1>2
        DEF IInv, LastingRestrictionHonoured, NoRestrictionInvented, NothingGuessed

\* The invariant holds in every state.
THEOREM Invariance == Spec => []IInv
  BY IInvInitially, IInvInductive, PTL DEF Spec

\* Every variable keeps its type: what Relation Arc writes, and what the reader holds,
\* judges and returns.
THEOREM TypesKept == Spec => []TypeOK
  BY Invariance, PTL DEF IInv

\* A restriction that stands as long as the read takes is in the snapshot, whatever
\* Relation Arc writes meanwhile and however often.
THEOREM RestrictionsHonoured == Spec => []LastingRestrictionHonoured
  BY Invariance, PTL DEF IInv

\* A snapshot is no stricter than the relation was at some moment of the read.
THEOREM RestrictionsReal == Spec => []NoRestrictionInvented
  BY Invariance, PTL DEF IInv

\* There is a snapshot only of a scope, a schema and a row that were seen to be in order.
THEOREM SnapshotsFounded == Spec => []NothingGuessed
  BY Invariance, PTL DEF IInv
=============================================================================
