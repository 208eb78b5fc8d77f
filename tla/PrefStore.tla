------------------------------ MODULE PrefStore ------------------------------
(***************************************************************************)
(* pref_profile/store.py: the SQLite file of the plugin under several      *)
(* connections (the tests open two; a reload or a second process does too),*)
(* statements that raise, and processes that die.  An action is a          *)
(* statement: another connection may act between any two, and each may     *)
(* fail.  Reads outside a transaction see the last commit (WAL).           *)
(***************************************************************************)
EXTENDS Integers

CONSTANTS
  Users, Bots,  \* owners of entries: identities, and bot templates
  Tags,
  Statuses,     \* what an entry says
  NoStatus,
  Conns,        \* connections to the file
  NoConn, NoOwner,
  MaxId,        \* bound on AUTOINCREMENT ids, counted from the start
  MaxRev, MaxEpoch  \* bounds on the counters of a row

ASSUME OwnerAssumption == Users \cap Bots = {} /\ NoOwner \notin Users \cup Bots
ASSUME NoneAssumption == NoConn \notin Conns /\ NoStatus \notin Statuses
ASSUME BoundAssumption == {MaxId, MaxRev, MaxEpoch} \subseteq Nat \ {0}

VARIABLES
  file,   \* the committed tables: rows, user_state, the AUTOINCREMENT sequence
  lock,   \* the connection that holds SQLite's write lock
  conn,   \* open, in a transaction, and the tables that transaction sees
  op,     \* the operation running on a connection
  seen,   \* the entry its caller last read
  answer, \* how its last operation ended
  fired   \* the identity this step reported to the invalidation hooks

vars == <<file, lock, conn, op, seen, answer, fired>>

-----------------------------------------------------------------------------

Owners == Users \cup Bots
Keys == Owners \X Tags

\* rev = 0 is "no such row", and also expected_revision=None.
NoRow == [id |-> 0, rev |-> 0, status |-> NoStatus]
RowType == [id : 0..MaxId, rev : 0..MaxRev, status : Statuses \cup {NoStatus}]
Tables == [rows : [Keys -> RowType],
           state : [Users -> [enabled : BOOLEAN, epoch : 0..MaxEpoch]],
           last : 0..MaxId]

NoOp == [kind |-> "none", owner |-> NoOwner, tag |-> NoOwner, rev |-> 0,
         status |-> NoStatus, on |-> FALSE, step |-> "idle"]
Kinds == {"upsert", "remove", "switch", "clear", "clearBot"}
OpType == [kind : Kinds \cup {"none"}, owner : Owners \cup {NoOwner},
           tag : Tags \cup {NoOwner}, rev : 0..MaxRev, status : Statuses \cup {NoStatus},
           on : BOOLEAN, step : {"idle", "called", "begun", "half", "written"}]

EmptyTables == [rows |-> [k \in Keys |-> NoRow],
                state |-> [u \in Users |-> [enabled |-> FALSE, epoch |-> 0]],
                last |-> 0]
Closed == [open |-> FALSE, tx |-> FALSE, view |-> EmptyTables]
NothingSeen == [owner |-> NoOwner, tag |-> NoOwner, row |-> NoRow]

\* What a statement of c reads.
Reads(c) == IF conn[c].tx THEN conn[c].view ELSE file

Init ==
  /\ file = EmptyTables
  /\ lock = NoConn
  /\ conn = [c \in Conns |-> Closed]
  /\ op = [c \in Conns |-> NoOp]
  /\ seen = [c \in Conns |-> NothingSeen]
  /\ answer = [c \in Conns |-> "none"]
  /\ fired = NoOwner

-----------------------------------------------------------------------------
(* Connections.                                                            *)

\* The constructor: pragmas and schema.  It takes the write lock for an instant
\* and raises when it cannot have it.
Open(c) ==
  /\ ~conn[c].open
  /\ lock = NoConn
  /\ conn' = [conn EXCEPT ![c] = [open |-> TRUE, tx |-> FALSE, view |-> EmptyTables]]
  /\ UNCHANGED <<file, lock, op, seen, answer>> /\ fired' = NoOwner

\* close(), or the process dies: SQLite rolls an open transaction back.
Leave(c) ==
  /\ conn' = [conn EXCEPT ![c] = Closed]
  /\ lock' = IF lock = c THEN NoConn ELSE lock
  /\ op' = [op EXCEPT ![c] = NoOp]
  /\ seen' = [seen EXCEPT ![c] = NothingSeen]
  /\ answer' = [answer EXCEPT ![c] = "none"]
  /\ UNCHANGED file /\ fired' = NoOwner

Close(c) == conn[c].open /\ op[c].step = "idle" /\ Leave(c)
Crash(c) == conn[c].open /\ op[c].step # "idle" /\ Leave(c)

-----------------------------------------------------------------------------
(* Calls.                                                                  *)

\* get_entry, also as the first half of the commands that write an entry.
GetEntry(c, o, t) ==
  /\ conn[c].open /\ op[c].step = "idle"
  /\ seen' = [seen EXCEPT ![c] = [owner |-> o, tag |-> t, row |-> Reads(c).rows[<<o, t>>]]]
  /\ answer' = [answer EXCEPT ![c] = "none"]
  /\ UNCHANGED <<file, lock, conn, op>> /\ fired' = NoOwner

Called(c, o) ==
  /\ conn[c].open /\ op[c].step = "idle"
  /\ op' = [op EXCEPT ![c] = [o EXCEPT !.step = "called"]]
  /\ answer' = [answer EXCEPT ![c] = "none"]
  /\ UNCHANGED <<file, lock, conn, seen>> /\ fired' = NoOwner

\* upsert_entry and remove_entry with the revision that was read.
CallUpsert(c, s) ==
  /\ seen[c].owner # NoOwner
  /\ Called(c, [NoOp EXCEPT !.kind = "upsert", !.owner = seen[c].owner, !.tag = seen[c].tag,
                            !.rev = seen[c].row.rev, !.status = s])
CallRemove(c) ==
  /\ seen[c].row # NoRow
  /\ Called(c, [NoOp EXCEPT !.kind = "remove", !.owner = seen[c].owner, !.tag = seen[c].tag,
                            !.rev = seen[c].row.rev])
CallSwitch(c, u, b) == Called(c, [NoOp EXCEPT !.kind = "switch", !.owner = u, !.on = b])
CallClear(c, u) == Called(c, [NoOp EXCEPT !.kind = "clear", !.owner = u])
CallClearBot(c, b) == Called(c, [NoOp EXCEPT !.kind = "clearBot", !.owner = b])

-----------------------------------------------------------------------------
(* Statements.                                                             *)

\* The operation returns or raises; the transaction is gone.
End(c, a) ==
  /\ op' = [op EXCEPT ![c] = NoOp]
  /\ answer' = [answer EXCEPT ![c] = a]
  /\ seen' = [seen EXCEPT ![c] = NothingSeen]

NoTx(c) ==
  /\ conn' = [conn EXCEPT ![c].tx = FALSE, ![c].view = EmptyTables]
  /\ lock' = NoConn

\* As Begin would be if BEGIN were deferred: it waits for nobody.
BeginUnlocked(c) ==
  /\ op[c].step = "called"
  /\ lock' = c
  /\ conn' = [conn EXCEPT ![c].tx = TRUE, ![c].view = file]
  /\ op' = [op EXCEPT ![c].step = "begun"]
  /\ UNCHANGED <<file, seen, answer>> /\ fired' = NoOwner

\* As Begin would be if it went on in a transaction that was left open.
BeginJoining(c) ==
  /\ op[c].step = "called"
  /\ lock \in {NoConn, c}
  /\ lock' = c
  /\ conn' = [conn EXCEPT ![c].tx = TRUE, ![c].view = Reads(c)]
  /\ op' = [op EXCEPT ![c].step = "begun"]
  /\ UNCHANGED <<file, seen, answer>> /\ fired' = NoOwner

\* BEGIN IMMEDIATE takes the write lock.
Begin(c) ==
  /\ op[c].step = "called"
  /\ lock = NoConn
  /\ lock' = c
  /\ conn' = [conn EXCEPT ![c].tx = TRUE, ![c].view = file]
  /\ op' = [op EXCEPT ![c].step = "begun"]
  /\ UNCHANGED <<file, seen, answer>> /\ fired' = NoOwner

\* It raises when the lock is not had within busy_timeout, when this connection is
\* in a transaction already, or on an I/O error; the BEGIN is outside every try.
BeginFails(c) ==
  /\ op[c].step = "called"
  /\ End(c, "error")
  /\ UNCHANGED <<file, lock, conn>> /\ fired' = NoOwner

Written(c, tables, step) ==
  /\ conn' = [conn EXCEPT ![c].view = tables]
  /\ op' = [op EXCEPT ![c].step = step]
  /\ UNCHANGED <<file, lock, seen, answer>> /\ fired' = NoOwner

\* A refusal found inside the transaction: ROLLBACK, then raise or return.
Refused(c, a) ==
  /\ NoTx(c)
  /\ End(c, a)
  /\ UNCHANGED file /\ fired' = NoOwner

\* As WriteEntry would be if it did not compare revisions.
WriteEntryBlindly(c) ==
  LET o == op[c]
      v == conn[c].view
      old == v.rows[<<o.owner, o.tag>>]
  IN /\ o.kind = "upsert" /\ o.step = "begun"
     /\ \/ /\ old = NoRow
           /\ v.last < MaxId
           /\ Written(c, [v EXCEPT !.rows[<<o.owner, o.tag>>] =
                                     [id |-> v.last + 1, rev |-> 1, status |-> o.status],
                                   !.last = v.last + 1], "written")
        \/ /\ old # NoRow
           /\ old.rev < MaxRev
           /\ Written(c, [v EXCEPT !.rows[<<o.owner, o.tag>>] =
                                     [id |-> old.id, rev |-> old.rev + 1, status |-> o.status]],
                      "written")

\* upsert_entry: SELECT revision, then INSERT or UPDATE.
WriteEntry(c) ==
  LET o == op[c]
      v == conn[c].view
      old == v.rows[<<o.owner, o.tag>>]
  IN /\ o.kind = "upsert" /\ o.step = "begun"
     /\ \/ /\ old = NoRow /\ o.rev = 0
           /\ v.last < MaxId
           /\ Written(c, [v EXCEPT !.rows[<<o.owner, o.tag>>] =
                                     [id |-> v.last + 1, rev |-> 1, status |-> o.status],
                                   !.last = v.last + 1], "written")
        \/ /\ old # NoRow /\ o.rev = old.rev
           /\ old.rev < MaxRev
           /\ Written(c, [v EXCEPT !.rows[<<o.owner, o.tag>>] =
                                     [id |-> old.id, rev |-> old.rev + 1, status |-> o.status]],
                      "written")
        \/ old = NoRow /\ o.rev # 0 /\ Refused(c, "deleted")
        \/ old # NoRow /\ o.rev # old.rev /\ Refused(c, "conflict")

\* remove_entry: DELETE of the row at that revision, then what the row count says.
DeleteEntry(c) ==
  LET o == op[c]
      old == conn[c].view.rows[<<o.owner, o.tag>>]
  IN /\ o.kind = "remove" /\ o.step = "begun"
     /\ \/ /\ old # NoRow /\ old.rev = o.rev
           /\ Written(c, [conn[c].view EXCEPT !.rows[<<o.owner, o.tag>>] = NoRow], "written")
        \/ old # NoRow /\ old.rev # o.rev /\ Refused(c, "conflict")
        \/ old = NoRow /\ Refused(c, "missing")

\* clear_user and clear_bot_template: DELETE of every row of the owner.
DeleteOwner(c) ==
  LET o == op[c]
      v == conn[c].view
  IN /\ o.kind \in {"clear", "clearBot"} /\ o.step = "begun"
     /\ Written(c, [v EXCEPT !.rows = [k \in Keys |-> IF k[1] = o.owner THEN NoRow ELSE @[k]]],
                IF o.kind = "clear" THEN "half" ELSE "written")

\* As WriteState would be if the epoch went the other way.
WriteStateBack(c) ==
  LET o == op[c]
      v == conn[c].view
  IN /\ \/ o.kind = "switch" /\ o.step = "begun"
        \/ o.kind = "clear" /\ o.step = "half"
     /\ Written(c, [v EXCEPT !.state[o.owner] =
                               [enabled |-> o.on, epoch |-> v.state[o.owner].epoch - 1]],
                "written")

\* set_user_enabled and clear_user: the epoch is read and the row replaced.
WriteState(c) ==
  LET o == op[c]
      v == conn[c].view
  IN /\ \/ o.kind = "switch" /\ o.step = "begun"
        \/ o.kind = "clear" /\ o.step = "half"
     /\ v.state[o.owner].epoch < MaxEpoch
     /\ Written(c, [v EXCEPT !.state[o.owner] =
                               [enabled |-> o.on, epoch |-> v.state[o.owner].epoch + 1]],
                "written")

\* As Commit would be if a clear committed between its two statements.
CommitHalf(c) ==
  /\ op[c].step \in {"half", "written"}
  /\ file' = conn[c].view
  /\ fired' = IF op[c].kind \in {"switch", "clear"} THEN op[c].owner ELSE NoOwner
  /\ NoTx(c)
  /\ End(c, "ok")

\* COMMIT; switching and clearing then call the hooks with the identity.
Commit(c) ==
  /\ op[c].step = "written"
  /\ file' = conn[c].view
  /\ fired' = IF op[c].kind \in {"switch", "clear"} THEN op[c].owner ELSE NoOwner
  /\ NoTx(c)
  /\ End(c, "ok")

\* As StatementFails would be if writing an entry did not roll back either.
StatementFailsOpen(c) ==
  /\ op[c].step \in {"begun", "half", "written"}
  /\ End(c, "error")
  /\ UNCHANGED <<conn, lock>>
  /\ UNCHANGED file /\ fired' = NoOwner

\* A statement after BEGIN raises.  Writing one entry rolls back; the other writers
\* do not, and keep the transaction unless SQLite itself gave it up.
StatementFails(c) ==
  /\ op[c].step \in {"begun", "half", "written"}
  /\ End(c, "error")
  /\ \/ NoTx(c)
     \/ op[c].kind \notin {"upsert", "remove"} /\ UNCHANGED <<conn, lock>>
  /\ UNCHANGED file /\ fired' = NoOwner

-----------------------------------------------------------------------------

Statement(c) ==
  \/ Begin(c) \/ BeginFails(c) \/ WriteEntry(c) \/ DeleteEntry(c) \/ DeleteOwner(c)
  \/ WriteState(c) \/ Commit(c) \/ StatementFails(c)

Caller(c) ==
  \/ Open(c) \/ Close(c) \/ Crash(c)
  \/ \E o \in Owners, t \in Tags : GetEntry(c, o, t)
  \/ \E s \in Statuses : CallUpsert(c, s)
  \/ CallRemove(c)
  \/ \E u \in Users, b \in BOOLEAN : CallSwitch(c, u, b)
  \/ \E u \in Users : CallClear(c, u)
  \/ \E b \in Bots : CallClearBot(c, b)

Next == \E c \in Conns : Caller(c) \/ Statement(c)

Spec == Init /\ [][Next]_vars

-----------------------------------------------------------------------------
(* Properties.                                                             *)

\* Types of the variables.
TypeOK ==
  /\ file \in Tables
  /\ lock \in Conns \cup {NoConn}
  /\ conn \in [Conns -> [open : BOOLEAN, tx : BOOLEAN, view : Tables]]
  /\ op \in [Conns -> OpType]
  /\ seen \in [Conns -> [owner : Owners \cup {NoOwner}, tag : Tags \cup {NoOwner}, row : RowType]]
  /\ answer \in [Conns -> {"none", "ok", "conflict", "deleted", "missing", "error"}]
  /\ fired \in Users \cup {NoOwner}

\* Exactly the connection in a transaction has the write lock, and it started from
\* what is committed now: nobody commits in between.
TransactionInv ==
  /\ \A c \in Conns : conn[c].tx <=> lock = c
  /\ \A c \in Conns : op[c].step \in {"begun", "half", "written"} => conn[c].tx
  /\ \A c \in Conns : conn[c].tx => conn[c].open
  /\ \A c \in Conns : op[c].step = "begun" => conn[c].view = file
  /\ \A c \in Conns : ~conn[c].open => op[c].step = "idle"

\* A connection that is not busy may show its callers more than the committed
\* tables, the transaction of a switch or a clear that raised; but no entry that
\* nobody committed, and no consent older than the committed one.
NoPhantomEntry ==
  \A c \in Conns :
    op[c].step \in {"idle", "called"} =>
      /\ \A k \in Keys : Reads(c).rows[k] \in {NoRow, file.rows[k]}
      /\ \A u \in Users :
           \/ Reads(c).state[u] = file.state[u]
           \/ Reads(c).state[u].epoch = file.state[u].epoch + 1

\* main.py:224 answers an exception with "try again later", so an operation that
\* raised leaves its connection able to write.
NoTransactionLeftBehind ==
  \A c \in Conns : conn[c].tx => op[c].step \in {"begun", "half", "written"}

\* An update or a removal that is committed was computed from the very row the
\* caller read, as long as that row was not deleted and entered anew.
NoSilentOverwrite ==
  [][\A c \in Conns :
       LET o == op[c]
           k == <<o.owner, o.tag>>
       IN op'[c] = NoOp /\ answer'[c] = "ok" /\ o.kind \in {"upsert", "remove"}
            => file.rows[k].rev = seen[c].row.rev
               /\ (file.rows[k].id = seen[c].row.id => file.rows[k] = seen[c].row)]_vars

\* store.py:42: every write that takes something from an existing profile reports
\* the identity to the hooks.
ProfileLossIsReported ==
  [][\A u \in Users :
       (\E t \in Tags : file.rows[<<u, t>>] # NoRow /\ file'.rows[<<u, t>>] = NoRow) => fired' = u]_vars

\* What the rest of the plugin relies on: a committed change of consent, or of its
\* epoch, reaches the hooks with its identity in the step that commits it.  A change
\* left behind in an open transaction is never published by a later operation.
ConsentChangesAreReported ==
  [][\A u \in Users : file'.state[u] # file.state[u] => fired' = u]_vars

\* The store is atomic for its callers.
Promise == INSTANCE AtomicStore WITH
  NoRow <- [rev |-> 0, status |-> NoStatus],
  rows <- [k \in Keys |-> [rev |-> file.rows[k].rev, status |-> file.rows[k].status]],
  state <- file.state

ImplementsAtomicStore == Promise!Spec
=============================================================================
