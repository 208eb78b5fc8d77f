--------------------------- MODULE RelationSnapshot ---------------------------
(***************************************************************************)
(* The reader of pref_profile/relation_snapshot.py.  It looks into the     *)
(* files of another plugin, Relation Arc: its config.json for the scope in *)
(* force, then four reads of its database, each a transaction of its own,  *)
(* then the clock.  The files belong to that plugin, whose writes may fall *)
(* between any two reads when they come from a thread or a process of      *)
(* their own.  Properties speak of moments, what the files and the clock   *)
(* were since load was called.                                             *)
(***************************************************************************)
EXTENDS Integers

CONSTANTS
  MaxClock,   \* bound: last tick of the clock
  MaxWrites,  \* bound: writes of Relation Arc
  Accounts,   \* rows of accounts that are written
  TimedRows   \* rows of timed_safety that are written

Scopes == {"global", "session"}
Levels == {"normal", "slow_down", "pause_intimacy"}
Rank == [l \in Levels |-> CASE l = "normal" -> 0 [] l = "slow_down" -> 1 [] OTHER -> 2]

\* A row of accounts.  Not readable: there is none, its state_json is no object, or the
\* interaction_safety in it is no level.  A base that is unset is not in state_json.
AccountRow == [readable : BOOLEAN, paused : BOOLEAN, base : Levels \cup {"unset"}]
NoAccount == [readable |-> FALSE, paused |-> FALSE, base |-> "unset"]

\* A row of timed_safety.  No row is one that has expired.
TimedRow == [level : Levels \cup {"other"}, expires : Nat]
NoTimed == [level |-> "other", expires |-> 0]

ASSUME BoundAssumption == MaxClock \in Nat /\ MaxWrites \in Nat
ASSUME RowAssumption ==
  /\ Accounts \subseteq AccountRow /\ NoAccount \in Accounts
  /\ TimedRows \subseteq TimedRow /\ NoTimed \in TimedRows

VARIABLES
  arc,       \* the files of Relation Arc
  clock,     \* time.time()
  writes,    \* writes so far, bounded
  reader,    \* where load is, and what it has read
  snapshot,  \* what it returned last
  moments    \* files and clock at every moment of that call

vars == <<arc, clock, writes, reader, snapshot, moments>>

Files == [config : Scopes \cup {"unclear"}, schema : {"missing", "unknown", "known"},
          account : [Scopes -> AccountRow], timed : [Scopes -> TimedRow]]
Moment == [files : Files, clock : Nat]
Now == [files |-> arc, clock |-> clock]

Snapshots == [available : BOOLEAN, paused : BOOLEAN, rhythm : Levels]
Unavailable == [available |-> FALSE, paused |-> FALSE, rhythm |-> "normal"]

Steps == {"idle", "config", "tables", "version", "account", "timed", "judge"}
Readers == [step : Steps, scope : Scopes, account : AccountRow, timed : TimedRow]

-----------------------------------------------------------------------------
(* What the rows mean.                                                     *)

Base(a) == IF a.base \in Levels THEN a.base ELSE "normal"
Live(t, now) == t.level \in Levels /\ t.expires > now

Stricter(l, k) == IF Rank[k] > Rank[l] THEN k ELSE l

\* The level that counts: the stricter of the base and of a timed row that has not
\* expired; an account on pause is at the strictest.
Effective(a, t, now) ==
  IF a.paused THEN "pause_intimacy"
  ELSE IF Live(t, now) THEN Stricter(Base(a), t.level) ELSE Base(a)

-----------------------------------------------------------------------------
(* The reader.  A read that raises, at any step, gives no snapshot.        *)

Init ==
  /\ \E a \in Accounts, t \in TimedRows :
       arc = [config |-> "session", schema |-> "known",
              account |-> [global |-> NoAccount, session |-> a],
              timed |-> [global |-> NoTimed, session |-> t]]
  /\ clock = 0 /\ writes = 0
  /\ reader = [step |-> "idle", scope |-> "global", account |-> NoAccount, timed |-> NoTimed]
  /\ snapshot = Unavailable
  /\ moments = {}

Reading == reader.step # "idle"

Goes(r) ==
  /\ reader' = r
  /\ UNCHANGED <<arc, clock, writes, snapshot, moments>>

Return(s) ==
  /\ snapshot' = s
  /\ reader' = [step |-> "idle", scope |-> reader.scope, account |-> NoAccount, timed |-> NoTimed]
  /\ UNCHANGED <<arc, clock, writes>>

\* A turn asks for the relation.  No database: no snapshot.
Load ==
  /\ ~Reading
  /\ moments' = {Now}
  /\ IF arc.schema = "missing"
     THEN Return(Unavailable)
     ELSE /\ reader' = [reader EXCEPT !.step = "config"]
          /\ UNCHANGED <<arc, clock, writes, snapshot>>

\* One scope is read, the one config.json names.
ReadConfig ==
  /\ reader.step = "config" /\ arc.config \in Scopes
  /\ Goes([reader EXCEPT !.step = "tables", !.scope = arc.config])

\* The two tables are there.
CheckTables ==
  /\ reader.step = "tables" /\ arc.schema # "missing"
  /\ Goes([reader EXCEPT !.step = "version"])

\* As CheckVersion would be if the tables were enough.
CheckNoVersion ==
  /\ reader.step = "version"
  /\ Goes([reader EXCEPT !.step = "account"])

CheckVersion ==
  /\ reader.step = "version" /\ arc.schema = "known"
  /\ Goes([reader EXCEPT !.step = "account"])

ReadAccount ==
  /\ reader.step = "account" /\ arc.account[reader.scope].readable
  /\ Goes([reader EXCEPT !.step = "timed", !.account = arc.account[reader.scope]])

ReadTimed ==
  /\ reader.step = "timed"
  /\ Goes([reader EXCEPT !.step = "judge", !.timed = arc.timed[reader.scope]])

Judged(level) ==
  /\ reader.step = "judge"
  /\ Return([available |-> TRUE, paused |-> reader.account.paused, rhythm |-> level])
  /\ UNCHANGED moments

\* As Judge would be if the timed row, while it lasts, took the place of the base.
JudgeReplacing ==
  Judged(IF reader.account.paused THEN "pause_intimacy"
         ELSE IF Live(reader.timed, clock) THEN reader.timed.level
         ELSE Base(reader.account))

\* As Judge would be if a timed row counted until it is deleted.
JudgeUntimed == Judged(Effective(reader.account, reader.timed, -1))

\* As Judge would be if a base that is not set were passed on.
JudgeUnchecked == Judged(reader.account.base)

\* The clock is read last.
Judge == Judged(Effective(reader.account, reader.timed, clock))

Refused ==
  \/ reader.step = "config" /\ arc.config \notin Scopes
  \/ reader.step = "tables" /\ arc.schema = "missing"
  \/ reader.step = "version" /\ arc.schema # "known"
  \/ reader.step = "account" /\ ~arc.account[reader.scope].readable

\* What was read is not what it must be.
Refuse ==
  /\ Refused
  /\ Return(Unavailable)
  /\ UNCHANGED moments

\* A file or a statement cannot be read; load catches everything.
Raise ==
  /\ Reading
  /\ Return(Unavailable)
  /\ UNCHANGED moments

-----------------------------------------------------------------------------
(* Relation Arc and time.                                                  *)

Seen == moments' = IF Reading THEN moments \cup {Now'} ELSE moments

Writes(files) ==
  /\ writes < MaxWrites
  /\ files # arc
  /\ arc' = files
  /\ writes' = writes + 1
  /\ UNCHANGED <<clock, reader, snapshot>>
  /\ Seen

\* A transaction of Relation Arc: one identity, in one scope, one or both of its rows.
WriteRows(s, a, t) ==
  Writes([arc EXCEPT !.account = [@ EXCEPT ![s] = a], !.timed = [@ EXCEPT ![s] = t]])

\* The administrator changes the scope, or the file is being written.
WriteConfig(c) == Writes([arc EXCEPT !.config = c])

\* The other plugin is updated, or its data removed.
Migrate(schema) == Writes([arc EXCEPT !.schema = schema])

Tick ==
  /\ clock < MaxClock
  /\ clock' = clock + 1
  /\ UNCHANGED <<arc, writes, reader, snapshot>>
  /\ Seen

Next ==
  \/ Load \/ ReadConfig \/ CheckTables \/ CheckVersion \/ ReadAccount \/ ReadTimed \/ Judge
  \/ Refuse \/ Raise
  \/ \E s \in Scopes, a \in Accounts, t \in TimedRows : WriteRows(s, a, t)
  \/ \E c \in Scopes \cup {"unclear"} : WriteConfig(c)
  \/ \E schema \in {"missing", "unknown", "known"} : Migrate(schema)
  \/ Tick

Spec == Init /\ [][Next]_vars

-----------------------------------------------------------------------------
(* Properties, of the snapshot a call returned.                            *)

\* Every variable has its type.
TypeOK ==
  /\ arc \in Files
  /\ clock \in Nat /\ writes \in Nat
  /\ reader \in Readers
  /\ snapshot \in Snapshots
  /\ moments \subseteq Moment

Returned == ~Reading /\ snapshot.available

AsStrictAs(level) == Rank[snapshot.rhythm] >= Rank[level]

\* A restriction that stands for as long as the read takes is in the snapshot, whatever
\* else is written meanwhile: a pause of the account, a base of some level or above, a
\* timed row that stays and does not expire (relation_snapshot.py:117-154).  No more than
\* this holds: a base raised as the timed row is taken away falls between the two reads.
LastingRestrictionHonoured ==
  Returned =>
    \A s \in Scopes : (\A m \in moments : m.files.config = s) =>
      /\ (\A m \in moments : m.files.account[s].paused) =>
           snapshot.paused /\ AsStrictAs("pause_intimacy")
      /\ \A l \in Levels :
           (\A m \in moments : Rank[Base(m.files.account[s])] >= Rank[l]) => AsStrictAs(l)
      /\ \A n \in moments :
           LET t == n.files.timed[s]
           IN  (\A m \in moments : m.files.timed[s] = t /\ Live(t, m.clock))
                 => AsStrictAs(t.level)

\* A snapshot is no stricter than the relation was: the level it gives, or one above it,
\* was the effective one at some moment of the read, in one scope that config.json named
\* at some moment (relation_snapshot.py:117-158; a row of a scope that is not in force
\* and a row that has expired do not count).
NoRestrictionInvented ==
  Returned =>
    \E s \in Scopes :
      /\ \E m \in moments : m.files.config = s
      /\ \E m \in moments :
           Rank[Effective(m.files.account[s], m.files.timed[s], m.clock)]
             >= Rank[snapshot.rhythm]

\* What cannot be told is not guessed: there is a snapshot only when the scope was named,
\* the schema known and the row of that scope readable, each at its moment of the read
\* (relation_snapshot.py:60-140).
NothingGuessed ==
  Returned =>
    \E s \in Scopes :
      /\ \E m \in moments : m.files.config = s
      /\ \E m \in moments : m.files.schema = "known"
      /\ \E m \in moments : m.files.account[s].readable
=============================================================================
