--------------------------- MODULE PrefStoreProofs ---------------------------
(***************************************************************************)
(* The invariants of PrefStore, and that it implements AtomicStore, for    *)
(* every number of owners, tags, connections, and every bound.  The        *)
(* invariant says what a transaction sees at every step of every           *)
(* operation, and how what a caller read relates to what is committed.     *)
(***************************************************************************)
EXTENDS PrefStore, TLAPS

Busy == {"begun", "half", "written"}
\* The operations that compare the revision their caller read.
Guarded == {"upsert", "remove"}

\* A row that is there has an id and a revision.
Proper(r) == r = NoRow \/ (r.id > 0 /\ r.rev > 0)

Wiped(f, o) == [k \in Keys |-> IF k[1] = o THEN NoRow ELSE f.rows[k]]
Switched(f, u, on) == [f.state EXCEPT ![u] = [enabled |-> on, epoch |-> f.state[u].epoch + 1]]

\* What a finished operation o has made of the tables f.
Entered(o, f, v) ==
  LET k == <<o.owner, o.tag>>
  IN /\ v.state = f.state
     /\ \/ /\ f.rows[k] = NoRow
           /\ v.last = f.last + 1
           /\ v.rows = [f.rows EXCEPT ![k] = [id |-> f.last + 1, rev |-> 1,
                                              status |-> o.status]]
        \/ /\ f.rows[k] # NoRow
           /\ v.last = f.last
           /\ v.rows = [f.rows EXCEPT ![k] = [id |-> f.rows[k].id, rev |-> f.rows[k].rev + 1,
                                              status |-> o.status]]

Effect(o, f, v) ==
  /\ o.kind \in Guarded => f.rows[<<o.owner, o.tag>>].rev = o.rev
  /\ o.kind = "upsert" => Entered(o, f, v)
  /\ o.kind = "remove" =>
       /\ f.rows[<<o.owner, o.tag>>] # NoRow
       /\ v.rows = [f.rows EXCEPT ![<<o.owner, o.tag>>] = NoRow]
  /\ o.kind = "switch" => v.rows = f.rows /\ v.state = Switched(f, o.owner, o.on)
  /\ o.kind = "clear" => v.rows = Wiped(f, o.owner) /\ v.state = Switched(f, o.owner, FALSE)
  /\ o.kind = "clearBot" => v.rows = Wiped(f, o.owner)
  /\ o.kind \in {"remove", "clearBot"} => v.state = f.state
  /\ o.kind # "upsert" => v.last = f.last

\* What a connection that is not busy may see in a transaction left open.
Loose(f, v) ==
  /\ \A k \in Keys : v.rows[k] \in {NoRow, f.rows[k]}
  /\ \A u \in Users : v.state[u] = f.state[u] \/ v.state[u].epoch = f.state[u].epoch + 1

\* The operation of c, and what its caller read before.
OpInv(c) ==
  LET o == op[c]
  IN /\ o.step = "idle" => o = NoOp
     /\ o.step # "idle" => o.kind \in Kinds
     /\ o.step = "half" => o.kind = "clear"
     /\ o.kind \in Guarded =>
          /\ o.owner = seen[c].owner /\ o.tag = seen[c].tag /\ o.rev = seen[c].row.rev
          /\ <<o.owner, o.tag>> \in Keys
     /\ o.kind = "upsert" => o.status \in Statuses
     /\ o.kind \in {"switch", "clear"} => o.owner \in Users
     /\ o.kind = "clear" => ~o.on
     /\ o.kind = "clearBot" => o.owner \in Bots

\* What c sees in its transaction.
ViewInv(c) ==
  LET v == conn[c].view
      o == op[c]
  IN /\ o.step \in Busy => conn[c].tx
     /\ conn[c].tx => conn[c].open
     /\ ~conn[c].open => o.step = "idle"
     /\ o.step = "begun" => v = file
     /\ o.step = "half" =>
          v.rows = Wiped(file, o.owner) /\ v.state = file.state /\ v.last = file.last
     /\ o.step = "written" => Effect(o, file, v)
     /\ conn[c].tx /\ o.step \notin Busy => Loose(file, v)

\* A row that was read is the committed one, an earlier revision of it, or had
\* another id.
Dated(f, s) ==
  LET k == <<s.owner, s.tag>>
  IN /\ Proper(s.row) /\ s.row.id <= f.last
     /\ k \in Keys /\ s.row.id = f.rows[k].id =>
          /\ s.row.rev <= f.rows[k].rev
          /\ s.row.rev = f.rows[k].rev => s.row = f.rows[k]

SeenInv(c) ==
  /\ seen[c].owner # NoOwner => <<seen[c].owner, seen[c].tag>> \in Keys
  /\ seen[c].owner = NoOwner => seen[c].row = NoRow
  /\ Dated(file, seen[c])

ConnInv(c) == OpInv(c) /\ ViewInv(c) /\ SeenInv(c)

LockInv == \A c \in Conns : conn[c].tx <=> lock = c
FileInv == \A k \in Keys : Proper(file.rows[k]) /\ file.rows[k].id <= file.last

IInv ==
  /\ TypeOK
  /\ LockInv
  /\ FileInv
  /\ \A c \in Conns : ConnInv(c)

-----------------------------------------------------------------------------
(* Facts about single connections.                                         *)

\* A connection that a step leaves alone, with the tables, keeps its invariant.
LEMMA Untouched ==
  ASSUME NEW d \in Conns, ConnInv(d), file' = file,
         conn'[d] = conn[d], op'[d] = op[d], seen'[d] = seen[d]
  PROVE  ConnInv(d)'
  BY DEF ConnInv, OpInv, ViewInv, SeenInv

\* What a connection reads outside an operation is committed or gone.
LEMMA ReadsCommitted ==
  ASSUME IInv, NEW c \in Conns, op[c].step \notin Busy, NEW k \in Keys
  PROVE  Reads(c).rows[k] \in {NoRow, file.rows[k]}
  BY DEF IInv, ConnInv, ViewInv, Loose, Reads

LEMMA RowTypes ==
  ASSUME TypeOK, NEW k \in Keys
  PROVE  /\ file.rows[k] \in RowType /\ file.last \in 0..MaxId
         /\ \A c \in Conns : conn[c].view.rows[k] \in RowType
         /\ NoRow \in RowType
  BY BoundAssumption DEF TypeOK, Tables, RowType, NoRow

LEMMA EmptyType == EmptyTables \in Tables /\ NoRow \in RowType
  BY BoundAssumption DEF EmptyTables, Tables, RowType, NoRow

LEMMA NoOpType == NoOp \in OpType
  BY BoundAssumption DEF NoOp, OpType, Kinds

\* The initial state.
LEMMA InitIInv == Init => IInv
<1> SUFFICES ASSUME Init PROVE IInv
  OBVIOUS
<1>1. TypeOK
  BY EmptyType, NoOpType, BoundAssumption
     DEF Init, TypeOK, Closed, NothingSeen
<1>2. LockInv
  BY NoneAssumption DEF Init, LockInv, Closed
<1>3. FileInv
  BY BoundAssumption DEF Init, FileInv, EmptyTables, Proper, NoRow
<1>4. \A c \in Conns : ConnInv(c)
  <2> SUFFICES ASSUME NEW c \in Conns PROVE ConnInv(c)
    OBVIOUS
  <2>1. OpInv(c)
    BY DEF Init, OpInv, NoOp, Kinds, Guarded
  <2>2. ViewInv(c)
    BY DEF Init, ViewInv, NoOp, Closed, Busy
  <2>3. SeenInv(c)
    BY OwnerAssumption
       DEF Init, SeenInv, Dated, Proper, NothingSeen, EmptyTables, NoRow, Keys, Owners
  <2> QED BY <2>1, <2>2, <2>3 DEF ConnInv
<1> QED BY <1>1, <1>2, <1>3, <1>4 DEF IInv

-----------------------------------------------------------------------------
(* Connections and calls.                                                  *)

LEMMA OpenStep ==
  ASSUME IInv, NEW c \in Conns, Open(c)
  PROVE  IInv'
<1>1. TypeOK'
  BY EmptyType DEF IInv, Open, TypeOK
<1>2. LockInv'
  BY NoneAssumption DEF IInv, LockInv, Open, TypeOK
<1>3. FileInv'
  BY DEF IInv, FileInv, Open
<1>4. ASSUME NEW d \in Conns PROVE ConnInv(d)'
  <2>1. CASE d # c
    BY <2>1, Untouched DEF IInv, Open, TypeOK
  <2>2. CASE d = c
    <3>1. conn'[c] = [open |-> TRUE, tx |-> FALSE, view |-> EmptyTables]
      BY DEF Open, IInv, TypeOK
    <3>2. op[c].step = "idle"
      BY DEF Open, IInv, ConnInv, ViewInv
    <3>3. OpInv(c)' /\ SeenInv(c)'
      BY DEF IInv, ConnInv, OpInv, SeenInv, Open
    <3>4. ViewInv(c)'
      BY <3>1, <3>2 DEF ViewInv, Open, Busy
    <3> QED BY <2>2, <3>3, <3>4 DEF ConnInv
  <2> QED BY <2>1, <2>2
<1> QED BY <1>1, <1>2, <1>3, <1>4 DEF IInv

LEMMA LeaveStep ==
  ASSUME IInv, NEW c \in Conns, Leave(c)
  PROVE  IInv'
<1>1. TypeOK'
  BY EmptyType, NoOpType DEF IInv, Leave, TypeOK, Closed, NothingSeen
<1>2. LockInv'
  BY NoneAssumption DEF IInv, LockInv, Leave, TypeOK, Closed
<1>3. FileInv'
  BY DEF IInv, FileInv, Leave
<1>4. ASSUME NEW d \in Conns PROVE ConnInv(d)'
  <2>1. CASE d # c
    BY <2>1, Untouched DEF IInv, Leave, TypeOK
  <2>2. CASE d = c
    <3>1. conn'[c] = Closed /\ op'[c] = NoOp /\ seen'[c] = NothingSeen
      BY DEF Leave, IInv, TypeOK
    <3>2. OpInv(c)'
      BY <3>1 DEF OpInv, NoOp, Kinds, Guarded
    <3>3. ViewInv(c)'
      BY <3>1 DEF ViewInv, NoOp, Closed, Busy
    <3>4. SeenInv(c)'
      <4>1. file' = file /\ file.last \in 0..MaxId
        BY DEF Leave, IInv, TypeOK, Tables
      <4>2. <<NoOwner, NoOwner>> \notin Keys
        BY OwnerAssumption DEF Keys, Owners
      <4> QED BY <3>1, <4>1, <4>2, BoundAssumption DEF SeenInv, Dated, Proper, NothingSeen, NoRow
    <3> QED BY <2>2, <3>2, <3>3, <3>4 DEF ConnInv
  <2> QED BY <2>1, <2>2
<1> QED BY <1>1, <1>2, <1>3, <1>4 DEF IInv

LEMMA GetEntryStep ==
  ASSUME IInv, NEW c \in Conns, NEW o \in Owners, NEW t \in Tags, GetEntry(c, o, t)
  PROVE  IInv'
<1> DEFINE r == Reads(c).rows[<<o, t>>]
<1>0. /\ <<o, t>> \in Keys
      /\ r \in {NoRow, file.rows[<<o, t>>]}
  BY ReadsCommitted DEF GetEntry, Keys, Busy
<1>1. r \in RowType
  BY <1>0, RowTypes DEF IInv
<1>2. seen' = [seen EXCEPT ![c] = [owner |-> o, tag |-> t, row |-> r]]
  BY DEF GetEntry
<1> HIDE DEF r
<1>3. TypeOK'
  BY <1>1, <1>2 DEF IInv, GetEntry, TypeOK
<1>4. LockInv' /\ FileInv'
  BY DEF IInv, LockInv, FileInv, GetEntry
<1>5. ASSUME NEW d \in Conns PROVE ConnInv(d)'
  <2>1. CASE d # c
    BY <1>2, <2>1, Untouched DEF IInv, GetEntry, TypeOK
  <2>2. CASE d = c
    <3>1. op'[c] = op[c] /\ op[c] = NoOp
      BY DEF GetEntry, IInv, ConnInv, OpInv
    <3>2. OpInv(c)'
      BY <3>1 DEF OpInv, NoOp, Kinds, Guarded
    <3>3. ViewInv(c)'
      BY DEF IInv, ConnInv, ViewInv, GetEntry
    <3>4. seen'[c] = [owner |-> o, tag |-> t, row |-> r]
      BY <1>2 DEF IInv, TypeOK
    <3>5. Proper(r) /\ r.id <= file.last
      BY <1>0, BoundAssumption DEF IInv, FileInv, Proper, NoRow, TypeOK, Tables
    <3>6. r.id = file.rows[<<o, t>>].id => r = file.rows[<<o, t>>]
      BY <1>0, RowTypes DEF IInv, FileInv, Proper, NoRow, RowType
    <3>7. file.rows[<<o, t>>].rev \in Nat
      BY <1>0, RowTypes, BoundAssumption DEF IInv, RowType
    <3>8. SeenInv(c)'
      BY <1>0, <3>4, <3>5, <3>6, <3>7, OwnerAssumption DEF SeenInv, Dated, GetEntry, Owners
    <3> QED BY <2>2, <3>2, <3>3, <3>8 DEF ConnInv
  <2> QED BY <2>1, <2>2
<1> QED BY <1>3, <1>4, <1>5 DEF IInv

\* A call with arguments p.
LEMMA CalledStep ==
  ASSUME IInv, NEW c \in Conns, NEW p \in OpType, Called(c, p),
         p.kind \in Kinds,
         p.kind \in Guarded =>
           /\ p.owner = seen[c].owner /\ p.tag = seen[c].tag /\ p.rev = seen[c].row.rev
           /\ <<p.owner, p.tag>> \in Keys,
         p.kind = "upsert" => p.status \in Statuses,
         p.kind \in {"switch", "clear"} => p.owner \in Users,
         p.kind = "clear" => ~p.on,
         p.kind = "clearBot" => p.owner \in Bots
  PROVE  IInv'
<1>0. op' = [op EXCEPT ![c] = [p EXCEPT !.step = "called"]]
  BY DEF Called
<1>1. TypeOK'
  <2>1. [p EXCEPT !.step = "called"] \in OpType
    BY DEF OpType
  <2> QED BY <1>0, <2>1 DEF IInv, Called, TypeOK
<1>2. LockInv' /\ FileInv'
  BY DEF IInv, LockInv, FileInv, Called
<1>3. ASSUME NEW d \in Conns PROVE ConnInv(d)'
  <2>1. CASE d # c
    BY <1>0, <2>1, Untouched DEF IInv, Called, TypeOK
  <2>2. CASE d = c
    <3>1. op'[c] = [p EXCEPT !.step = "called"] /\ seen'[c] = seen[c] /\ conn'[c] = conn[c]
      BY <1>0 DEF IInv, TypeOK, Called
    <3>2. OpInv(c)'
      BY <3>1 DEF OpInv, OpType
    <3>3. ViewInv(c)'
      BY <3>1 DEF IInv, ConnInv, ViewInv, Called, OpType, Busy
    <3>4. SeenInv(c)'
      BY DEF IInv, ConnInv, SeenInv, Called
    <3> QED BY <2>2, <3>2, <3>3, <3>4 DEF ConnInv
  <2> QED BY <2>1, <2>2
<1> QED BY <1>1, <1>2, <1>3 DEF IInv

LEMMA CallSteps ==
  ASSUME IInv, NEW c \in Conns,
         \/ \E s \in Statuses : CallUpsert(c, s)
         \/ CallRemove(c)
         \/ \E u \in Users, b \in BOOLEAN : CallSwitch(c, u, b)
         \/ \E u \in Users : CallClear(c, u)
         \/ \E b \in Bots : CallClearBot(c, b)
  PROVE  IInv'
<1>0. /\ seen[c].tag \in Tags \cup {NoOwner} /\ seen[c].owner \in Owners \cup {NoOwner}
      /\ seen[c].row.rev \in 0..MaxRev
      /\ seen[c].owner # NoOwner => <<seen[c].owner, seen[c].tag>> \in Keys
      /\ seen[c].row # NoRow => seen[c].owner # NoOwner
  BY DEF IInv, TypeOK, ConnInv, SeenInv, RowType
<1>1. ASSUME NEW s \in Statuses, CallUpsert(c, s) PROVE IInv'
  <2> DEFINE p == [NoOp EXCEPT !.kind = "upsert", !.owner = seen[c].owner,
                     !.tag = seen[c].tag, !.rev = seen[c].row.rev, !.status = s]
  <2>1. p \in OpType /\ Called(c, p)
    BY <1>0, <1>1 DEF CallUpsert, NoOp, OpType, Kinds
  <2>2. seen[c].owner # NoOwner
    BY <1>1 DEF CallUpsert
  <2> QED BY <1>0, <2>1, <2>2, CalledStep DEF NoOp, Kinds, Guarded
<1>2. ASSUME CallRemove(c) PROVE IInv'
  <2> DEFINE p == [NoOp EXCEPT !.kind = "remove", !.owner = seen[c].owner,
                     !.tag = seen[c].tag, !.rev = seen[c].row.rev]
  <2>1. p \in OpType /\ Called(c, p)
    BY <1>0, <1>2 DEF CallRemove, NoOp, OpType, Kinds
  <2>2. seen[c].owner # NoOwner
    BY <1>0, <1>2 DEF CallRemove
  <2> QED BY <1>0, <2>1, <2>2, CalledStep DEF NoOp, Kinds, Guarded
<1>3. ASSUME NEW u \in Users, NEW b \in BOOLEAN, CallSwitch(c, u, b) PROVE IInv'
  <2> DEFINE p == [NoOp EXCEPT !.kind = "switch", !.owner = u, !.on = b]
  <2>1. p \in OpType
    BY NoOpType DEF OpType, Kinds, Owners
  <2>2. Called(c, p)
    BY <1>3 DEF CallSwitch
  <2> QED BY <2>1, <2>2, CalledStep DEF NoOp, Kinds, Guarded
<1>4. ASSUME NEW u \in Users, CallClear(c, u) PROVE IInv'
  <2> DEFINE p == [NoOp EXCEPT !.kind = "clear", !.owner = u]
  <2>1. p \in OpType
    BY NoOpType DEF OpType, Kinds, Owners
  <2>2. Called(c, p)
    BY <1>4 DEF CallClear
  <2> QED BY <2>1, <2>2, CalledStep DEF NoOp, Kinds, Guarded
<1>5. ASSUME NEW b \in Bots, CallClearBot(c, b) PROVE IInv'
  <2> DEFINE p == [NoOp EXCEPT !.kind = "clearBot", !.owner = b]
  <2>1. p \in OpType
    BY NoOpType DEF OpType, Kinds, Owners
  <2>2. Called(c, p)
    BY <1>5 DEF CallClearBot
  <2> QED BY <2>1, <2>2, CalledStep DEF NoOp, Kinds, Guarded
<1> QED BY <1>1, <1>2, <1>3, <1>4, <1>5

-----------------------------------------------------------------------------
(* Statements.                                                             *)

\* Whoever is in a transaction has the lock, so nobody else is.
LEMMA Alone ==
  ASSUME IInv, NEW c \in Conns, op[c].step \in Busy
  PROVE  lock = c /\ conn[c].open /\ \A d \in Conns \ {c} : ~conn[d].tx
  BY DEF IInv, LockInv, ConnInv, ViewInv

\* A statement that raised leaves what a reader may see, if it is not one of the two
\* that roll back.
LEMMA LeftLoose ==
  ASSUME IInv, NEW c \in Conns, op[c].step \in Busy, op[c].kind \notin Guarded
  PROVE  Loose(file, conn[c].view)
<1>0. op[c].kind \in {"switch", "clear", "clearBot"}
  BY DEF IInv, ConnInv, OpInv, Kinds, Guarded, Busy
<1>1. CASE op[c].step = "begun"
  BY <1>1 DEF IInv, ConnInv, ViewInv, Loose
<1>2. CASE op[c].step = "half"
  <2>1. conn[c].view.rows = Wiped(file, op[c].owner) /\ conn[c].view.state = file.state
    BY <1>2 DEF IInv, ConnInv, ViewInv
  <2>2. \A k \in Keys : conn[c].view.rows[k] \in {NoRow, file.rows[k]}
    BY <2>1 DEF Wiped
  <2> QED BY <2>1, <2>2 DEF Loose
<1>3. CASE op[c].step = "written"
  <2>1. Effect(op[c], file, conn[c].view)
    BY <1>3 DEF IInv, ConnInv, ViewInv
  <2>2. file.state \in [Users -> [enabled : BOOLEAN, epoch : 0..MaxEpoch]]
    BY DEF IInv, TypeOK, Tables
  <2>3. \A k \in Keys : conn[c].view.rows[k] \in {NoRow, file.rows[k]}
    BY <1>0, <2>1 DEF Effect, Wiped
  <2>4. \A u \in Users : \/ conn[c].view.state[u] = file.state[u]
                        \/ conn[c].view.state[u].epoch = file.state[u].epoch + 1
    BY <1>0, <2>1, <2>2 DEF Effect, Switched
  <2> QED BY <2>3, <2>4 DEF Loose
<1> QED BY <1>1, <1>2, <1>3 DEF Busy

\* An operation that ends with the tables as they were.
LEMMA EndStep ==
  ASSUME IInv, NEW c \in Conns, NEW a \in {"conflict", "deleted", "missing", "error"},
         End(c, a), file' = file, fired' = NoOwner,
         \/ op[c].step \in Busy /\ NoTx(c)
         \/ /\ conn' = conn /\ lock' = lock
            /\ conn[c].tx => Loose(file, conn[c].view)
  PROVE  IInv'
<1>0. op'[c] = NoOp /\ seen'[c] = NothingSeen /\ file' = file
  BY DEF End, IInv, TypeOK
<1>1. TypeOK'
  BY EmptyType, NoOpType DEF IInv, End, TypeOK, NoTx, NothingSeen
<1>2. LockInv'
  BY Alone, NoneAssumption DEF IInv, LockInv, NoTx, TypeOK
<1>3. FileInv'
  BY DEF IInv, FileInv
<1>4. ASSUME NEW d \in Conns PROVE ConnInv(d)'
  <2>1. CASE d # c
    BY <2>1, Untouched DEF IInv, End, NoTx, TypeOK
  <2>2. CASE d = c
    <3>1. OpInv(c)'
      BY <1>0 DEF OpInv, NoOp, Kinds, Guarded
    <3>2. ViewInv(c)'
      BY <1>0 DEF ViewInv, NoOp, Busy, NoTx, IInv, ConnInv, TypeOK
    <3>3. SeenInv(c)'
      <4>1. file.last \in 0..MaxId
        BY DEF IInv, TypeOK, Tables
      <4>2. <<NoOwner, NoOwner>> \notin Keys
        BY OwnerAssumption DEF Keys, Owners
      <4> QED BY <1>0, <4>1, <4>2, BoundAssumption DEF SeenInv, Dated, Proper, NothingSeen, NoRow
    <3> QED BY <2>2, <3>1, <3>2, <3>3 DEF ConnInv
  <2> QED BY <2>1, <2>2
<1> QED BY <1>1, <1>2, <1>3, <1>4 DEF IInv

LEMMA BeginStep ==
  ASSUME IInv, NEW c \in Conns, Begin(c)
  PROVE  IInv'
<1>0. /\ op[c].step = "called" /\ lock = NoConn /\ file' = file /\ seen' = seen
      /\ conn' = [conn EXCEPT ![c].tx = TRUE, ![c].view = file]
      /\ op' = [op EXCEPT ![c].step = "begun"] /\ lock' = c
  BY DEF Begin
<1>1. TypeOK'
  <2>1. op'[c] = [op[c] EXCEPT !.step = "begun"] /\ [op[c] EXCEPT !.step = "begun"] \in OpType
    BY <1>0 DEF IInv, TypeOK, OpType
  <2>2. op' \in [Conns -> OpType]
    BY <1>0, <2>1 DEF IInv, TypeOK
  <2>3. conn' \in [Conns -> [open : BOOLEAN, tx : BOOLEAN, view : Tables]]
    BY <1>0 DEF IInv, TypeOK
  <2> QED BY <1>0, <2>2, <2>3 DEF IInv, Begin, TypeOK
<1>2. LockInv'
  BY <1>0, NoneAssumption DEF IInv, LockInv, TypeOK
<1>3. FileInv'
  BY <1>0 DEF IInv, FileInv
<1>4. ASSUME NEW d \in Conns PROVE ConnInv(d)'
  <2>1. CASE d # c
    BY <1>0, <2>1, Untouched DEF IInv, TypeOK
  <2>2. CASE d = c
    <3>1. /\ op'[c] = [op[c] EXCEPT !.step = "begun"] /\ conn'[c].tx /\ conn'[c].view = file
          /\ conn'[c].open = conn[c].open
      BY <1>0 DEF IInv, TypeOK
    <3>2. OpInv(c)'
      <4>1. OpInv(c) /\ op[c] \in OpType
        BY DEF IInv, ConnInv, TypeOK
      <4>2. /\ op'[c].kind = op[c].kind /\ op'[c].owner = op[c].owner /\ op'[c].tag = op[c].tag
            /\ op'[c].rev = op[c].rev /\ op'[c].status = op[c].status /\ op'[c].on = op[c].on
            /\ op'[c].step = "begun"
        BY <3>1, <4>1 DEF OpType
      <4> QED BY <1>0, <4>1, <4>2 DEF OpInv
    <3>3. ViewInv(c)'
      BY <1>0, <3>1 DEF ViewInv, IInv, ConnInv, TypeOK, OpType, Busy
    <3>4. SeenInv(c)'
      BY <1>0 DEF SeenInv, IInv, ConnInv
    <3> QED BY <2>2, <3>2, <3>3, <3>4 DEF ConnInv
  <2> QED BY <2>1, <2>2
<1> QED BY <1>1, <1>2, <1>3, <1>4 DEF IInv

LEMMA BeginFailsStep ==
  ASSUME IInv, NEW c \in Conns, BeginFails(c)
  PROVE  IInv'
<1>1. conn[c].tx => Loose(file, conn[c].view)
  BY DEF BeginFails, IInv, ConnInv, ViewInv, Busy
<1> QED BY <1>1, EndStep DEF BeginFails

LEMMA StatementFailsStep ==
  ASSUME IInv, NEW c \in Conns, StatementFails(c)
  PROVE  IInv'
<1>1. op[c].step \in Busy
  BY DEF StatementFails, Busy
<1>2. CASE NoTx(c)
  BY <1>1, <1>2, EndStep DEF StatementFails
<1>3. CASE op[c].kind \notin {"upsert", "remove"} /\ UNCHANGED <<conn, lock>>
  BY <1>1, <1>3, LeftLoose, EndStep DEF StatementFails, Guarded
<1> QED BY <1>2, <1>3 DEF StatementFails

\* A statement that has made v of what its transaction saw.
LEMMA WrittenStep ==
  ASSUME IInv, NEW c \in Conns, NEW v \in Tables, NEW step \in {"half", "written"},
         op[c].step \in Busy, Written(c, v, step),
         step = "half" => /\ op[c].kind = "clear" /\ v.rows = Wiped(file, op[c].owner)
                          /\ v.state = file.state /\ v.last = file.last,
         step = "written" => Effect(op[c], file, v)
  PROVE  IInv'
<1>0. /\ file' = file /\ seen' = seen /\ lock' = lock
      /\ conn' = [conn EXCEPT ![c].view = v]
      /\ op' = [op EXCEPT ![c].step = step]
  BY DEF Written
<1>1. TypeOK'
  <2>1. op'[c] = [op[c] EXCEPT !.step = step] /\ [op[c] EXCEPT !.step = step] \in OpType
    BY <1>0 DEF IInv, TypeOK, OpType
  <2>2. op' \in [Conns -> OpType]
    BY <1>0, <2>1 DEF IInv, TypeOK
  <2>3. conn' \in [Conns -> [open : BOOLEAN, tx : BOOLEAN, view : Tables]]
    BY <1>0 DEF IInv, TypeOK
  <2> QED BY <1>0, <2>2, <2>3 DEF IInv, Written, TypeOK
<1>2. LockInv' /\ FileInv'
  BY <1>0 DEF IInv, LockInv, FileInv, TypeOK
<1>3. ASSUME NEW d \in Conns PROVE ConnInv(d)'
  <2>1. CASE d # c
    BY <1>0, <2>1, Untouched DEF IInv, TypeOK
  <2>2. CASE d = c
    <3>1. /\ op'[c].kind = op[c].kind /\ op'[c].owner = op[c].owner /\ op'[c].tag = op[c].tag
          /\ op'[c].rev = op[c].rev /\ op'[c].status = op[c].status /\ op'[c].on = op[c].on
          /\ op'[c].step = step
          /\ conn'[c].tx = conn[c].tx /\ conn'[c].open = conn[c].open /\ conn'[c].view = v
      BY <1>0 DEF IInv, TypeOK, OpType
    <3>2. OpInv(c)'
      <4>1. OpInv(c) /\ op[c].step # "idle"
        BY DEF IInv, ConnInv, Busy
      <4> QED BY <1>0, <3>1, <4>1 DEF OpInv
    <3>3. ViewInv(c)'
      <4>1. ViewInv(c)
        BY DEF IInv, ConnInv
      <4>2. step = "written" => Effect(op'[c], file, v)
        BY <3>1 DEF Effect, Entered
      <4> QED BY <1>0, <3>1, <4>1, <4>2 DEF ViewInv, Busy
    <3>4. SeenInv(c)'
      BY <1>0 DEF SeenInv, IInv, ConnInv
    <3> QED BY <2>2, <3>2, <3>3, <3>4 DEF ConnInv
  <2> QED BY <2>1, <2>2
<1> QED BY <1>1, <1>2, <1>3 DEF IInv

LEMMA WriteEntryStep ==
  ASSUME IInv, NEW c \in Conns, WriteEntry(c)
  PROVE  IInv'
<1> DEFINE o == op[c]
           k == <<op[c].owner, op[c].tag>>
           old == file.rows[k]
<1>0. /\ o.kind = "upsert" /\ o.step = "begun" /\ o.step \in Busy /\ conn[c].view = file
      /\ k \in Keys /\ o.status \in Statuses /\ file \in Tables
      /\ old \in RowType /\ file.last \in 0..MaxId /\ Proper(old)
  BY RowTypes DEF WriteEntry, IInv, ConnInv, OpInv, ViewInv, Guarded, Busy, TypeOK, FileInv
<1>1. CASE /\ old = NoRow /\ o.rev = 0 /\ file.last < MaxId
           /\ Written(c, [file EXCEPT !.rows[k] = [id |-> file.last + 1, rev |-> 1,
                                                  status |-> o.status],
                                     !.last = file.last + 1], "written")
  <2> DEFINE r == [id |-> file.last + 1, rev |-> 1, status |-> o.status]
             v == [file EXCEPT !.rows[k] = r, !.last = file.last + 1]
  <2>1. r \in RowType
    BY <1>0, <1>1, BoundAssumption DEF RowType
  <2> HIDE DEF r
  <2>a. v.rows = [file.rows EXCEPT ![k] = r] /\ v.last = file.last + 1 /\ v.state = file.state
    BY <1>0 DEF Tables
  <2>b. file.last + 1 \in 0..MaxId
    BY <1>0, <1>1, BoundAssumption
  <2>c. [file.rows EXCEPT ![k] = r] \in [Keys -> RowType]
    BY <1>0, <2>1 DEF Tables
  <2>2. /\ v.rows = [file.rows EXCEPT ![k] = r] /\ v.last = file.last + 1 /\ v.state = file.state
        /\ v \in Tables
    BY <1>0, <2>a, <2>b, <2>c DEF Tables
  <2>3. Effect(o, file, v)
    BY <1>0, <1>1, <2>2 DEF Effect, Entered, NoRow, r
  <2>4. Written(c, v, "written")
    BY <1>1 DEF r
  <2> HIDE DEF v
  <2> QED BY <1>0, <2>2, <2>3, <2>4, WrittenStep
<1>2. CASE /\ old # NoRow /\ o.rev = old.rev /\ old.rev < MaxRev
           /\ Written(c, [file EXCEPT !.rows[k] = [id |-> old.id, rev |-> old.rev + 1,
                                                  status |-> o.status]], "written")
  <2> DEFINE r == [id |-> old.id, rev |-> old.rev + 1, status |-> o.status]
             v == [file EXCEPT !.rows[k] = r]
  <2>1. r \in RowType
    BY <1>0, <1>2, BoundAssumption DEF RowType
  <2>2. /\ v.rows = [file.rows EXCEPT ![k] = r] /\ v.last = file.last /\ v.state = file.state
        /\ v \in Tables
    BY <1>0, <2>1 DEF Tables
  <2>3. Effect(o, file, v)
    BY <1>0, <1>2, <2>2 DEF Effect, Entered
  <2>4. Written(c, v, "written")
    BY <1>2
  <2> HIDE DEF v
  <2> QED BY <1>0, <2>2, <2>3, <2>4, WrittenStep
<1>3. ASSUME NEW a \in {"conflict", "deleted"}, Refused(c, a) PROVE IInv'
  BY <1>0, <1>3, EndStep DEF Refused
<1> QED BY <1>0, <1>1, <1>2, <1>3 DEF WriteEntry

LEMMA DeleteEntryStep ==
  ASSUME IInv, NEW c \in Conns, DeleteEntry(c)
  PROVE  IInv'
<1> DEFINE o == op[c]
           k == <<op[c].owner, op[c].tag>>
           v == [file EXCEPT !.rows[k] = NoRow]
<1>0. /\ o.kind = "remove" /\ o.step \in Busy /\ conn[c].view = file
      /\ k \in Keys /\ file \in Tables
  BY DEF DeleteEntry, IInv, ConnInv, OpInv, ViewInv, Guarded, Busy, TypeOK
<1>1. CASE /\ file.rows[k] # NoRow /\ file.rows[k].rev = o.rev
           /\ Written(c, v, "written")
  <2>1. /\ v.rows = [file.rows EXCEPT ![k] = NoRow] /\ v.last = file.last /\ v.state = file.state
        /\ v \in Tables
    BY <1>0, EmptyType DEF Tables
  <2> HIDE DEF v
  <2>2. Effect(o, file, v)
    BY <1>0, <1>1, <2>1 DEF Effect, Guarded
  <2> QED BY <1>0, <1>1, <2>1, <2>2, WrittenStep
<1>2. ASSUME NEW a \in {"conflict", "missing"}, Refused(c, a) PROVE IInv'
  BY <1>0, <1>2, EndStep DEF Refused
<1> QED BY <1>0, <1>1, <1>2 DEF DeleteEntry

LEMMA DeleteOwnerStep ==
  ASSUME IInv, NEW c \in Conns, DeleteOwner(c)
  PROVE  IInv'
<1> DEFINE o == op[c]
           v == [file EXCEPT !.rows = Wiped(file, o.owner)]
<1>0. /\ o.kind \in {"clear", "clearBot"} /\ o.step \in Busy /\ conn[c].view = file
      /\ file \in Tables
  BY DEF DeleteOwner, IInv, ConnInv, ViewInv, Busy, TypeOK
<1>1. Wiped(file, o.owner) \in [Keys -> RowType]
  BY <1>0, EmptyType DEF Wiped, Tables
<1>2. /\ v.rows = Wiped(file, o.owner) /\ v.last = file.last /\ v.state = file.state
      /\ v \in Tables
  BY <1>0, <1>1 DEF Tables
<1>3. Written(c, v, IF o.kind = "clear" THEN "half" ELSE "written")
  BY <1>0 DEF DeleteOwner, Wiped
<1> HIDE DEF v
<1>4. CASE o.kind = "clear"
  BY <1>0, <1>2, <1>3, <1>4, WrittenStep
<1>5. CASE o.kind = "clearBot"
  <2>1. Effect(o, file, v)
    BY <1>2, <1>5 DEF Effect, Guarded
  <2> QED BY <1>0, <1>2, <1>3, <1>5, <2>1, WrittenStep
<1> QED BY <1>0, <1>4, <1>5

LEMMA WriteStateStep ==
  ASSUME IInv, NEW c \in Conns, WriteState(c)
  PROVE  IInv'
<1> DEFINE o == op[c]
           w == conn[c].view
           new == [enabled |-> o.on, epoch |-> w.state[o.owner].epoch + 1]
           v == [w EXCEPT !.state[o.owner] = new]
<1>0. /\ o.owner \in Users /\ o \in OpType /\ o.step \in Busy /\ w \in Tables
      /\ w.state[o.owner].epoch < MaxEpoch
      /\ Written(c, v, "written")
  BY DEF WriteState, IInv, ConnInv, OpInv, Busy, TypeOK
<1>1. new \in [enabled : BOOLEAN, epoch : 0..MaxEpoch]
  BY <1>0, BoundAssumption DEF OpType, Tables
<1>2. /\ v.state = [w.state EXCEPT ![o.owner] = new] /\ v.rows = w.rows /\ v.last = w.last
      /\ v \in Tables
  BY <1>0, <1>1 DEF Tables
<1> HIDE DEF v
<1>3. Effect(o, file, v)
  <2>1. CASE o.kind = "switch" /\ o.step = "begun"
    <3>1. w = file
      BY <2>1 DEF IInv, ConnInv, ViewInv
    <3> QED BY <1>2, <2>1, <3>1 DEF Effect, Switched, Guarded
  <2>2. CASE o.kind = "clear" /\ o.step = "half"
    <3>1. w.rows = Wiped(file, o.owner) /\ w.state = file.state /\ w.last = file.last /\ o.on = FALSE
      BY <1>0, <2>2 DEF IInv, ConnInv, ViewInv, OpInv, OpType
    <3> QED BY <1>2, <2>2, <3>1 DEF Effect, Switched, Guarded
  <2> QED BY <2>1, <2>2 DEF WriteState
<1> QED BY <1>0, <1>2, <1>3, WrittenStep

-----------------------------------------------------------------------------
(* Commit.                                                                 *)

\* What a commit may do to a row: nothing, take it away, revise it, or enter a new
\* one under an id that was never used.
Later(f, v) ==
  /\ v.last >= f.last
  /\ \A k \in Keys :
       \/ v.rows[k] = f.rows[k]
       \/ v.rows[k] = NoRow
       \/ /\ f.rows[k] # NoRow
          /\ v.rows[k].id = f.rows[k].id /\ v.rows[k].rev > f.rows[k].rev
       \/ v.rows[k].id > f.last /\ v.rows[k].id <= v.last /\ v.rows[k].rev > 0

LEMMA EffectIsLater ==
  ASSUME NEW o, NEW f \in Tables, NEW v, Effect(o, f, v), o.kind \in Kinds,
         o.kind \in Guarded => <<o.owner, o.tag>> \in Keys
  PROVE  Later(f, v)
<1> DEFINE k == <<o.owner, o.tag>>
<1>0. f.last \in Nat /\ \A x \in Keys : f.rows[x].rev \in Nat /\ f.rows[x].id \in Nat
  BY BoundAssumption DEF Tables, RowType
<1>1. CASE o.kind = "upsert"
  <2>1. k \in Keys /\ Entered(o, f, v)
    BY <1>1 DEF Effect, Guarded
  <2>2. CASE f.rows[k] = NoRow /\ v.last = f.last + 1
             /\ v.rows = [f.rows EXCEPT ![k] = [id |-> f.last + 1, rev |-> 1, status |-> o.status]]
    BY <1>0, <2>1, <2>2 DEF Later, Tables
  <2>3. CASE f.rows[k] # NoRow /\ v.last = f.last
             /\ v.rows = [f.rows EXCEPT ![k] = [id |-> f.rows[k].id, rev |-> f.rows[k].rev + 1,
                                               status |-> o.status]]
    BY <1>0, <2>1, <2>3 DEF Later, Tables
  <2> QED BY <2>1, <2>2, <2>3 DEF Entered
<1>2. CASE o.kind = "remove"
  BY <1>0, <1>2 DEF Effect, Later, Tables, Guarded
<1>3. CASE o.kind = "switch"
  BY <1>0, <1>3 DEF Effect, Later
<1>4. CASE o.kind \in {"clear", "clearBot"}
  <2>1. v.rows = Wiped(f, o.owner) /\ v.last = f.last
    BY <1>4 DEF Effect
  <2>2. \A x \in Keys : v.rows[x] \in {NoRow, f.rows[x]}
    BY <2>1 DEF Wiped
  <2> QED BY <1>0, <2>1, <2>2 DEF Later
<1> QED BY <1>1, <1>2, <1>3, <1>4 DEF Kinds

\* What was read stays dated by what is committed later.
LEMMA DatedLater ==
  ASSUME NEW f \in Tables, NEW v \in Tables, Later(f, v), NEW s, Dated(f, s), s.row \in RowType,
         \A k \in Keys : Proper(f.rows[k])
  PROVE  Dated(v, s)
<1> DEFINE k == <<s.owner, s.tag>>
<1>0. /\ f.last \in Nat /\ v.last \in Nat /\ s.row.id \in Nat /\ s.row.rev \in Nat
      /\ k \in Keys => /\ f.rows[k].rev \in Nat /\ f.rows[k].id \in Nat
                       /\ v.rows[k].rev \in Nat /\ v.rows[k].id \in Nat
  BY BoundAssumption DEF Tables, RowType
<1>1. Proper(s.row) /\ s.row.id <= v.last
  BY <1>0 DEF Dated, Later
<1>2. ASSUME k \in Keys, s.row.id = v.rows[k].id
      PROVE  s.row.rev <= v.rows[k].rev /\ (s.row.rev = v.rows[k].rev => s.row = v.rows[k])
  <2>1. CASE v.rows[k] = f.rows[k]
    BY <1>2, <2>1 DEF Dated
  <2>2. CASE v.rows[k] = NoRow
    BY <1>0, <1>1, <1>2, <2>2 DEF Proper, NoRow
  <2>3. CASE v.rows[k].id = f.rows[k].id /\ v.rows[k].rev > f.rows[k].rev
    BY <1>0, <1>2, <2>3 DEF Dated
  <2>4. CASE v.rows[k].id > f.last
    BY <1>0, <1>2, <2>4 DEF Dated
  <2> QED BY <1>2, <2>1, <2>2, <2>3, <2>4 DEF Later
<1> QED BY <1>1, <1>2 DEF Dated

LEMMA CommitFacts ==
  ASSUME IInv, NEW c \in Conns, Commit(c)
  PROVE  /\ op[c].kind \in Kinds
         /\ op[c].kind \in Guarded => <<op[c].owner, op[c].tag>> \in Keys
         /\ Effect(op[c], file, file')
         /\ file \in Tables /\ file' \in Tables
         /\ Later(file, file')
<1>1. /\ op[c].step = "written" /\ op[c].step \in Busy /\ file' = conn[c].view
      /\ file \in Tables /\ conn[c].view \in Tables
  BY DEF Commit, IInv, TypeOK, Busy
<1>2. /\ op[c].kind \in Kinds
      /\ op[c].kind \in Guarded => <<op[c].owner, op[c].tag>> \in Keys
      /\ Effect(op[c], file, file')
  BY <1>1 DEF IInv, ConnInv, OpInv, ViewInv
<1> QED BY <1>1, <1>2, EffectIsLater

LEMMA CommitStep ==
  ASSUME IInv, NEW c \in Conns, Commit(c)
  PROVE  IInv'
<1>0. /\ op' = [op EXCEPT ![c] = NoOp] /\ seen' = [seen EXCEPT ![c] = NothingSeen]
      /\ answer' = [answer EXCEPT ![c] = "ok"] /\ lock' = NoConn
      /\ conn' = [conn EXCEPT ![c].tx = FALSE, ![c].view = EmptyTables]
      /\ op[c].step \in Busy
      /\ fired' = IF op[c].kind \in {"switch", "clear"} THEN op[c].owner ELSE NoOwner
  BY DEF Commit, End, NoTx, Busy
<1>1. TypeOK'
  <2>1. conn' \in [Conns -> [open : BOOLEAN, tx : BOOLEAN, view : Tables]]
    BY <1>0, EmptyType DEF IInv, TypeOK
  <2>2. fired' \in Users \cup {NoOwner}
    BY <1>0 DEF IInv, ConnInv, OpInv
  <2>3. seen' \in [Conns -> [owner : Owners \cup {NoOwner}, tag : Tags \cup {NoOwner}, row : RowType]]
    BY <1>0, EmptyType DEF IInv, TypeOK, NothingSeen
  <2> QED BY <1>0, <2>1, <2>2, <2>3, NoOpType, CommitFacts DEF IInv, TypeOK
<1>2. LockInv'
  BY <1>0, Alone, NoneAssumption DEF IInv, LockInv, TypeOK
<1>3. FileInv'
  <2> SUFFICES ASSUME NEW k \in Keys
               PROVE  Proper(file'.rows[k]) /\ file'.rows[k].id <= file'.last
    BY DEF FileInv
  <2>0. file \in Tables /\ file' \in Tables /\ Later(file, file')
    BY CommitFacts
  <2>1. /\ file.last \in Nat /\ file'.last \in Nat
        /\ file.rows[k].id \in Nat /\ file.rows[k].rev \in Nat
        /\ file'.rows[k].id \in Nat /\ file'.rows[k].rev \in Nat
    BY <2>0, BoundAssumption DEF Tables, RowType
  <2>2. Proper(file.rows[k]) /\ file.rows[k].id <= file.last
    BY DEF IInv, FileInv
  <2> QED BY <2>0, <2>1, <2>2 DEF Later, Proper, NoRow
<1>4. ASSUME NEW d \in Conns PROVE ConnInv(d)'
  <2>1. CASE d # c
    <3>1. op'[d] = op[d] /\ conn'[d] = conn[d] /\ seen'[d] = seen[d] /\ ~conn[d].tx
      BY <1>0, <2>1, Alone DEF IInv, TypeOK
    <3>2. OpInv(d)' /\ ViewInv(d)'
      BY <3>1 DEF IInv, ConnInv, OpInv, ViewInv, Busy
    <3>3. Dated(file', seen[d])
      BY CommitFacts, DatedLater DEF IInv, FileInv, ConnInv, SeenInv, TypeOK
    <3>4. SeenInv(d)'
      BY <3>1, <3>3 DEF IInv, ConnInv, SeenInv
    <3> QED BY <3>2, <3>4 DEF ConnInv
  <2>2. CASE d = c
    <3>1. op'[c] = NoOp /\ seen'[c] = NothingSeen /\ ~conn'[c].tx /\ conn'[c].open = conn[c].open
      BY <1>0 DEF IInv, TypeOK
    <3>2. OpInv(c)'
      BY <3>1 DEF OpInv, NoOp, Kinds, Guarded
    <3>3. ViewInv(c)'
      BY <3>1 DEF ViewInv, NoOp, Busy
    <3>4. SeenInv(c)'
      <4>1. file'.last \in 0..MaxId
        BY CommitFacts DEF Tables
      <4>2. <<NoOwner, NoOwner>> \notin Keys
        BY OwnerAssumption DEF Keys, Owners
      <4> QED BY <3>1, <4>1, <4>2, BoundAssumption DEF SeenInv, Dated, Proper, NothingSeen, NoRow
    <3> QED BY <2>2, <3>2, <3>3, <3>4 DEF ConnInv
  <2> QED BY <2>1, <2>2
<1> QED BY <1>1, <1>2, <1>3, <1>4 DEF IInv

-----------------------------------------------------------------------------
(* Theorems.                                                               *)

LEMMA NextIInv == IInv /\ [Next]_vars => IInv'
<1> SUFFICES ASSUME IInv, [Next]_vars PROVE IInv'
  OBVIOUS
<1>1. ASSUME NEW c \in Conns, Caller(c) PROVE IInv'
  <2>1. CASE Open(c)
    BY <2>1, OpenStep
  <2>2. CASE Close(c) \/ Crash(c)
    BY <2>2, LeaveStep DEF Close, Crash
  <2>3. CASE \E o \in Owners, t \in Tags : GetEntry(c, o, t)
    BY <2>3, GetEntryStep
  <2> QED BY <1>1, <2>1, <2>2, <2>3, CallSteps DEF Caller
<1>2. ASSUME NEW c \in Conns, Statement(c) PROVE IInv'
  BY <1>2, BeginStep, BeginFailsStep, WriteEntryStep, DeleteEntryStep, DeleteOwnerStep,
     WriteStateStep, CommitStep, StatementFailsStep DEF Statement
<1>3. CASE UNCHANGED vars
  <2>1. TypeOK'
    BY <1>3 DEF vars, IInv, TypeOK
  <2>2. LockInv' /\ FileInv'
    BY <1>3 DEF vars, IInv, LockInv, FileInv
  <2>3. \A c \in Conns : ConnInv(c)'
    BY <1>3, Untouched DEF vars, IInv
  <2> QED BY <2>1, <2>2, <2>3 DEF IInv
<1> QED BY <1>1, <1>2, <1>3 DEF Next

\* The invariant: what every transaction sees at every step of its operation, whatever
\* fails or dies, for every number of connections.
THEOREM StoreInvariance == Spec => []IInv
BY InitIInv, NextIInv, PTL DEF Spec

\* The variables keep their types.
THEOREM StoreTypes == Spec => []TypeOK
<1>1. IInv => TypeOK
  BY DEF IInv
<1> QED BY <1>1, StoreInvariance, PTL

\* Transactions exclude each other and start from what is committed.
THEOREM ExclusiveTransactions == Spec => []TransactionInv
<1>1. IInv => TransactionInv
  BY DEF IInv, LockInv, ConnInv, ViewInv, TransactionInv, Busy
<1> QED BY <1>1, StoreInvariance, PTL

\* Nobody outside an operation sees an entry that was not committed, or an older
\* consent than the committed one.
THEOREM NoPhantom == Spec => []NoPhantomEntry
<1>1. ASSUME IInv PROVE NoPhantomEntry
  <2> SUFFICES ASSUME NEW c \in Conns, op[c].step \in {"idle", "called"}
               PROVE  /\ \A k \in Keys : Reads(c).rows[k] \in {NoRow, file.rows[k]}
                      /\ \A u \in Users : \/ Reads(c).state[u] = file.state[u]
                                          \/ Reads(c).state[u].epoch = file.state[u].epoch + 1
    BY DEF NoPhantomEntry
  <2>1. \A k \in Keys : Reads(c).rows[k] \in {NoRow, file.rows[k]}
    BY <1>1, ReadsCommitted DEF Busy
  <2>2. \A u \in Users : \/ Reads(c).state[u] = file.state[u]
                        \/ Reads(c).state[u].epoch = file.state[u].epoch + 1
    BY <1>1 DEF IInv, ConnInv, ViewInv, Loose, Reads, Busy
  <2> QED BY <2>1, <2>2
<1> QED BY <1>1, StoreInvariance, PTL

\* What NoSilentOverwrite says of one connection.
Honest(c) ==
  LET o == op[c]
      k == <<o.owner, o.tag>>
  IN op'[c] = NoOp /\ answer'[c] = "ok" /\ o.kind \in {"upsert", "remove"}
       => file.rows[k].rev = seen[c].row.rev
          /\ (file.rows[k].id = seen[c].row.id => file.rows[k] = seen[c].row)

\* A step of another connection leaves the operation of c alone.
LEMMA OthersOperation ==
  ASSUME TypeOK, NEW c \in Conns, NEW d \in Conns, d # c, Caller(d) \/ Statement(d)
  PROVE  op'[c] = op[c]
<1>1. ASSUME NEW p, op' = [op EXCEPT ![d] = p] PROVE op'[c] = op[c]
  BY <1>1 DEF TypeOK
<1>2. CASE Open(d) \/ \E o \in Owners, t \in Tags : GetEntry(d, o, t)
  BY <1>2 DEF Open, GetEntry
<1>3. CASE Close(d) \/ Crash(d)
  BY <1>1, <1>3 DEF Close, Crash, Leave
<1>4. ASSUME NEW p, Called(d, p) PROVE op'[c] = op[c]
  BY <1>1, <1>4 DEF Called
<1>5. ASSUME NEW a, End(d, a) PROVE op'[c] = op[c]
  BY <1>1, <1>5 DEF End
<1>6. ASSUME NEW v, NEW step, Written(d, v, step) PROVE op'[c] = op[c]
  BY <1>6 DEF Written, TypeOK
<1>7. CASE Begin(d)
  BY <1>7 DEF Begin, TypeOK
<1>8. ASSUME NEW a, Refused(d, a) PROVE op'[c] = op[c]
  BY <1>5, <1>8 DEF Refused
<1>9. CASE WriteEntry(d) \/ DeleteEntry(d)
  BY <1>6, <1>8, <1>9 DEF WriteEntry, DeleteEntry
<1>10. CASE DeleteOwner(d) \/ WriteState(d)
  BY <1>6, <1>10 DEF DeleteOwner, WriteState
<1>11. CASE BeginFails(d) \/ Commit(d) \/ StatementFails(d)
  BY <1>5, <1>11 DEF BeginFails, Commit, StatementFails
<1>12. CASE \/ \E s \in Statuses : CallUpsert(d, s)
            \/ CallRemove(d)
            \/ \E u \in Users, b \in BOOLEAN : CallSwitch(d, u, b)
            \/ \E u \in Users : CallClear(d, u)
            \/ \E b \in Bots : CallClearBot(d, b)
  BY <1>4, <1>12 DEF CallUpsert, CallRemove, CallSwitch, CallClear, CallClearBot
<1> QED BY <1>2, <1>3, <1>7, <1>9, <1>10, <1>11, <1>12 DEF Caller, Statement

\* An update or a removal is answered "ok" by its commit and by nothing else.
LEMMA OnlyCommitSaysOk ==
  ASSUME IInv, [Next]_vars, NEW c \in Conns,
         op'[c] = NoOp, answer'[c] = "ok", op[c].kind \in Guarded
  PROVE  Commit(c)
<1>0. TypeOK /\ ConnInv(c)
  BY DEF IInv
<1>a. op[c] # NoOp /\ op[c].step # "idle"
  BY <1>0 DEF ConnInv, OpInv, NoOp, Guarded
<1>b. op'[c] # op[c]
  BY <1>a
<1>1. PICK d \in Conns : Caller(d) \/ Statement(d)
  BY <1>b DEF Next, vars
<1>2. d = c
  BY <1>0, <1>1, <1>b, OthersOperation
<1>3. ASSUME NEW a \in {"none", "conflict", "deleted", "missing", "error"},
             answer' = [answer EXCEPT ![c] = a]
      PROVE  FALSE
  BY <1>0, <1>3 DEF TypeOK
<1>4. ASSUME NEW p, op'[c] = p, p.step # "idle" PROVE FALSE
  BY <1>4 DEF NoOp
<1>5. CASE Caller(c)
  <2>1. CASE Open(c)
    BY <1>b, <2>1 DEF Open
  <2>2. CASE Close(c) \/ Crash(c)
    BY <1>3, <2>2 DEF Close, Crash, Leave
  <2>3. CASE \E o \in Owners, t \in Tags : GetEntry(c, o, t)
    BY <1>3, <2>3 DEF GetEntry
  <2>4. ASSUME NEW p, Called(c, p) PROVE FALSE
    BY <1>3, <2>4 DEF Called
  <2> QED BY <1>5, <2>1, <2>2, <2>3, <2>4
          DEF Caller, CallUpsert, CallRemove, CallSwitch, CallClear, CallClearBot
<1>6. CASE Statement(c)
  <2>1. ASSUME NEW a \in {"conflict", "deleted", "missing", "error"}, End(c, a) PROVE FALSE
    BY <1>3, <2>1 DEF End
  <2>2. ASSUME NEW step, step # "idle", op' = [op EXCEPT ![c].step = step] PROVE FALSE
    <3>1. op'[c].step = step
      BY <1>0, <2>2 DEF TypeOK, OpType
    <3> QED BY <1>4, <2>2, <3>1
  <2>3. ~Begin(c)
    BY <2>2 DEF Begin
  <2>4. ~BeginFails(c) /\ ~StatementFails(c)
    BY <2>1 DEF BeginFails, StatementFails
  <2>5. ASSUME NEW v, NEW step \in {"half", "written"}, Written(c, v, step) PROVE FALSE
    BY <2>2, <2>5 DEF Written
  <2>6. ASSUME NEW a \in {"conflict", "deleted", "missing"}, Refused(c, a) PROVE FALSE
    BY <2>1, <2>6 DEF Refused
  <2>7. ~WriteEntry(c) /\ ~DeleteEntry(c)
    BY <2>5, <2>6 DEF WriteEntry, DeleteEntry
  <2>8. ~DeleteOwner(c) /\ ~WriteState(c)
    BY <2>5 DEF DeleteOwner, WriteState
  <2> QED BY <1>6, <2>3, <2>4, <2>7, <2>8 DEF Statement
<1> QED BY <1>1, <1>2, <1>5, <1>6

\* A committed update or removal was computed from the very row its caller read, for
\* every number of connections and revisions.
THEOREM HonestWrites == Spec => NoSilentOverwrite
<1>1. ASSUME IInv, [Next]_vars, NEW c \in Conns PROVE Honest(c)
  <2> DEFINE k == <<op[c].owner, op[c].tag>>
  <2>1. SUFFICES ASSUME op'[c] = NoOp, answer'[c] = "ok", op[c].kind \in Guarded
                 PROVE  /\ file.rows[k].rev = seen[c].row.rev
                        /\ file.rows[k].id = seen[c].row.id => file.rows[k] = seen[c].row
    BY DEF Honest, Guarded
  <2>2. Commit(c)
    BY <1>1, <2>1, OnlyCommitSaysOk
  <2>3. /\ k \in Keys /\ Effect(op[c], file, file') /\ op[c].rev = seen[c].row.rev
        /\ op[c].owner = seen[c].owner /\ op[c].tag = seen[c].tag /\ Dated(file, seen[c])
    BY <1>1, <2>1, <2>2, CommitFacts DEF IInv, ConnInv, OpInv, SeenInv
  <2>4. file.rows[k].rev = seen[c].row.rev
    BY <2>1, <2>3 DEF Effect
  <2> QED BY <2>3, <2>4 DEF Dated
<1>2. IInv /\ [Next]_vars => [\A c \in Conns : Honest(c)]_vars
  BY <1>1
<1> QED BY <1>2, StoreInvariance, PTL DEF Spec, NoSilentOverwrite, Honest

\* Only a commit changes what is committed.
LEMMA OnlyCommitChanges ==
  ASSUME NEW c \in Conns, Caller(c) \/ Statement(c), file' # file
  PROVE  Commit(c)
<1>1. ~Caller(c)
  BY DEF Caller, Open, Close, Crash, Leave, GetEntry, Called,
         CallUpsert, CallRemove, CallSwitch, CallClear, CallClearBot
<1>2. ~WriteEntry(c) /\ ~DeleteEntry(c) /\ ~DeleteOwner(c) /\ ~WriteState(c)
  BY DEF WriteEntry, DeleteEntry, DeleteOwner, WriteState, Written, Refused
<1>3. ~Begin(c) /\ ~BeginFails(c) /\ ~StatementFails(c)
  BY DEF Begin, BeginFails, StatementFails
<1> QED BY <1>1, <1>2, <1>3 DEF Statement

\* A committed change of consent reaches the hooks with its identity, whatever failed
\* on that connection, or on another, before.
THEOREM ChangesReported == Spec => ConsentChangesAreReported
<1> DEFINE Reported == \A u \in Users : file'.state[u] # file.state[u] => fired' = u
<1>1. ASSUME IInv, [Next]_vars PROVE Reported
  <2> SUFFICES ASSUME NEW u \in Users, file'.state[u] # file.state[u] PROVE fired' = u
    OBVIOUS
  <2>1. PICK c \in Conns : Commit(c)
    BY <1>1, OnlyCommitChanges DEF Next, vars
  <2> DEFINE o == op[c]
  <2>2. /\ o.kind \in Kinds /\ Effect(o, file, file')
        /\ file.state \in [Users -> [enabled : BOOLEAN, epoch : 0..MaxEpoch]]
    BY <1>1, <2>1, CommitFacts DEF Tables
  <2>3. o.kind \notin {"remove", "clearBot", "upsert"}
    BY <2>2 DEF Effect, Entered
  <2>4. \E on \in {o.on, FALSE} : file'.state = Switched(file, o.owner, on)
    BY <2>2, <2>3 DEF Effect, Kinds
  <2>5. o.owner = u
    BY <2>2, <2>4 DEF Switched
  <2>6. fired' = o.owner
    BY <2>1, <2>2, <2>3 DEF Commit, Kinds
  <2> QED BY <2>5, <2>6
<1>2. IInv /\ [Next]_vars => [Reported]_vars
  BY <1>1
<1> QED BY <1>2, StoreInvariance, PTL DEF Spec, ConsentChangesAreReported

-----------------------------------------------------------------------------
(* The refinement.                                                         *)

\* The rows of f as callers are told of them.
Shown(f) == [k \in Keys |-> [rev |-> f.rows[k].rev, status |-> f.rows[k].status]]
NoShown == [rev |-> 0, status |-> NoStatus]

\* A step that leaves what is committed and the answers.
LEMMA SilentStep ==
  ASSUME file' = file, answer' = answer
  PROVE  UNCHANGED Promise!storeVars
  BY DEF Promise!storeVars

LEMMA AnsweredStep ==
  ASSUME NEW c \in Conns, file' = file,
         NEW a \in {"none", "conflict", "deleted", "missing", "error"},
         answer' = [answer EXCEPT ![c] = a]
  PROVE  Promise!Next
<1>1. CASE a = "none"
  <2>1. Promise!Forget(c)
    BY <1>1 DEF Promise!Forget
  <2> QED BY <2>1 DEF Promise!Next
<1>2. CASE a # "none"
  <2>1. Promise!Refuse(c)
    BY <1>2 DEF Promise!Refuse, Promise!Refusals
  <2> QED BY <2>1 DEF Promise!Next
<1> QED BY <1>1, <1>2

\* A commit is one step of the promise, whichever operation it ends.
LEMMA CommitIsOneStep ==
  ASSUME IInv, NEW c \in Conns, Commit(c)
  PROVE  Promise!Next
<1> DEFINE o == op[c]
           k == <<o.owner, o.tag>>
<1>0. answer' = [answer EXCEPT ![c] = "ok"]
  BY DEF Commit, End
<1>1. /\ o.kind \in Kinds /\ (o.kind \in Guarded => k \in Keys) /\ Effect(o, file, file')
      /\ file \in Tables /\ file' \in Tables
  BY CommitFacts
<1>2. /\ o.kind = "upsert" => o.status \in Statuses
      /\ o.kind \in {"switch", "clear"} => o.owner \in Users
      /\ o.kind = "clearBot" => o.owner \in Bots
      /\ \A x \in Keys : Proper(file.rows[x])
  BY DEF IInv, ConnInv, OpInv, FileInv
<1>3. \A x \in Keys : file.rows[x].rev \in Nat
  BY <1>1, BoundAssumption DEF Tables, RowType
<1>4. ASSUME k \in Keys PROVE o.owner \in Promise!Owners /\ o.tag \in Tags
  BY <1>4 DEF Keys, Owners, Promise!Owners
<1>5. CASE o.kind = "upsert"
  <2>1. k \in Keys /\ Entered(o, file, file')
    BY <1>1, <1>5 DEF Effect, Guarded
  <2>2. /\ file'.state = file.state
        /\ file'.rows[k].rev = file.rows[k].rev + 1 /\ file'.rows[k].status = o.status
        /\ \A x \in Keys \ {k} : file'.rows[x] = file.rows[x]
    BY <1>1, <1>3, <2>1 DEF Entered, NoRow, Tables
  <2>3. Shown(file') = [Shown(file) EXCEPT ![k] = [rev |-> Shown(file)[k].rev + 1,
                                                  status |-> o.status]]
    BY <2>1, <2>2 DEF Shown
  <2>4. PICK w \in Promise!Owners, t \in Tags : w = o.owner /\ t = o.tag
    BY <1>4, <2>1
  <2>5. Promise!Put(c, w, t)
    BY <1>0, <1>2, <1>5, <2>2, <2>3, <2>4 DEF Promise!Put, Shown
  <2> QED BY <2>5 DEF Promise!Next
<1>6. CASE o.kind = "remove"
  <2>1. /\ k \in Keys /\ file.rows[k] # NoRow /\ file'.state = file.state
        /\ file'.rows = [file.rows EXCEPT ![k] = NoRow]
    BY <1>1, <1>6 DEF Effect, Guarded
  <2>2. Shown(file)[k] # NoShown
    BY <1>2, <1>3, <2>1 DEF Shown, NoShown, Proper
  <2>3. Shown(file') = [Shown(file) EXCEPT ![k] = NoShown]
    <3>1. \A x \in Keys : file'.rows[x] = IF x = k THEN NoRow ELSE file.rows[x]
      BY <1>1, <2>1 DEF Tables
    <3>2. /\ file'.rows[k].rev = 0 /\ file'.rows[k].status = NoStatus
          /\ \A x \in Keys \ {k} : file'.rows[x] = file.rows[x]
      BY <2>1, <3>1 DEF NoRow
    <3> HIDE DEF k
    <3> QED BY <2>1, <3>2 DEF Shown, NoShown
  <2>4. PICK w \in Promise!Owners, t \in Tags : w = o.owner /\ t = o.tag
    BY <1>4, <2>1
  <2>5. Promise!Drop(c, w, t)
    BY <1>0, <2>1, <2>2, <2>3, <2>4 DEF Promise!Drop, Shown, NoShown
  <2> QED BY <2>5 DEF Promise!Next
<1>7. CASE o.kind = "switch"
  <2>1. /\ o.owner \in Users /\ file'.rows = file.rows
        /\ file'.state = Switched(file, o.owner, o.on)
    BY <1>1, <1>2, <1>7 DEF Effect
  <2>2. o.on \in BOOLEAN
    BY DEF IInv, TypeOK, OpType
  <2>3. Promise!Switch(c, o.owner)
    BY <1>0, <2>1, <2>2 DEF Promise!Switch, Switched
  <2> QED BY <2>1, <2>3 DEF Promise!Next
<1>8. CASE o.kind \in {"clear", "clearBot"}
  <2>1. /\ file'.rows = Wiped(file, o.owner)
        /\ o.kind = "clear" => file'.state = Switched(file, o.owner, FALSE)
        /\ o.kind = "clearBot" => file'.state = file.state
    BY <1>1, <1>8 DEF Effect
  <2>2. PICK w \in Promise!Owners : w = o.owner
    BY <1>2, <1>8 DEF Promise!Owners
  <2>3. Shown(file') = [x \in Keys |-> IF x[1] = o.owner THEN NoShown ELSE Shown(file)[x]]
    BY <2>1 DEF Shown, NoShown, NoRow, Wiped
  <2>4. file'.state = [u \in Users |->
                         IF u = o.owner THEN [enabled |-> FALSE, epoch |-> file.state[u].epoch + 1]
                                        ELSE file.state[u]]
    BY <1>1, <1>2, <1>8, <2>1, OwnerAssumption DEF Switched, Tables
  <2>5. Keys = Promise!Owners \X Tags
    BY DEF Keys, Owners, Promise!Owners
  <2>6. Promise!Wipe(c, w)
    BY <1>0, <2>2, <2>3, <2>4, <2>5 DEF Promise!Wipe, Shown, NoShown
  <2> QED BY <2>6 DEF Promise!Next
<1> QED BY <1>1, <1>5, <1>6, <1>7, <1>8 DEF Kinds

LEMMA CallerRefines ==
  ASSUME NEW c \in Conns, Caller(c)
  PROVE  [Promise!Next]_Promise!storeVars
<1>1. CASE Open(c)
  BY <1>1, SilentStep DEF Open
<1>2. CASE Close(c) \/ Crash(c)
  BY <1>2, AnsweredStep DEF Close, Crash, Leave
<1>3. CASE \E o \in Owners, t \in Tags : GetEntry(c, o, t)
  BY <1>3, AnsweredStep DEF GetEntry
<1>4. ASSUME NEW p, Called(c, p) PROVE Promise!Next
  BY <1>4, AnsweredStep DEF Called
<1> QED BY <1>1, <1>2, <1>3, <1>4
        DEF Caller, CallUpsert, CallRemove, CallSwitch, CallClear, CallClearBot

LEMMA StatementRefines ==
  ASSUME IInv, NEW c \in Conns, Statement(c)
  PROVE  [Promise!Next]_Promise!storeVars
<1>1. CASE Begin(c)
  BY <1>1, SilentStep DEF Begin
<1>2. ASSUME NEW v, NEW step, Written(c, v, step) PROVE UNCHANGED Promise!storeVars
  BY <1>2, SilentStep DEF Written
<1>3. ASSUME NEW a \in {"conflict", "deleted", "missing", "error"}, End(c, a), file' = file
      PROVE  Promise!Next
  BY <1>3, AnsweredStep DEF End
<1>4. ASSUME NEW a \in {"conflict", "deleted", "missing"}, Refused(c, a) PROVE Promise!Next
  BY <1>3, <1>4 DEF Refused
<1>5. CASE BeginFails(c) \/ StatementFails(c)
  BY <1>3, <1>5 DEF BeginFails, StatementFails
<1>6. CASE WriteEntry(c) \/ DeleteEntry(c)
  BY <1>2, <1>4, <1>6 DEF WriteEntry, DeleteEntry
<1>7. CASE DeleteOwner(c) \/ WriteState(c)
  BY <1>2, <1>7 DEF DeleteOwner, WriteState
<1>8. CASE Commit(c)
  BY <1>8, CommitIsOneStep
<1> QED BY <1>1, <1>5, <1>6, <1>7, <1>8 DEF Statement

\* The file and its connections implement the store that has no transactions, for
\* every number of connections, rows and bounds, whatever fails or dies.
THEOREM StoreIsAtomic == Spec => ImplementsAtomicStore
<1>1. Init => Promise!Init
  <2> SUFFICES ASSUME Init PROVE Promise!Init
    OBVIOUS
  <2>1. Keys = Promise!Owners \X Tags
    BY DEF Keys, Owners, Promise!Owners
  <2>2. Shown(file) = [k \in Keys |-> NoShown]
    BY DEF Init, EmptyTables, Shown, NoShown, NoRow
  <2> QED BY <2>1, <2>2 DEF Init, EmptyTables, Shown, NoShown, Promise!Init
<1>2. IInv /\ [Next]_vars => [Promise!Next]_Promise!storeVars
  <2>1. CASE UNCHANGED vars
    BY <2>1, SilentStep DEF vars
  <2> QED BY <2>1, CallerRefines, StatementRefines DEF Next
<1> QED BY <1>1, <1>2, StoreInvariance, PTL DEF Spec, ImplementsAtomicStore, Promise!Spec
=============================================================================
