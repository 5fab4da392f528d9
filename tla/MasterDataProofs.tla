-------------------------- MODULE MasterDataProofs --------------------------
(***************************************************************************)
(* Proofs about MasterData, for any names, identities, clients and forms.  *)
(* A copy that a handler or a page holds is the row as long as the         *)
(* versions agree, but for units of measure, whose codes are used again.   *)
(***************************************************************************)
EXTENDS MasterData, TLAPS

-----------------------------------------------------------------------------
(* The inductive invariant *)

DbType ==
  /\ DOMAIN db = Tables
  /\ \A t \in Tables : db[t] \in [Ids -> RowsOf(t)]

\* A row that is gone for good.
Dead(row) == row.version = 0 /\ row.status # "none"

\* was was loaded from row x of table t.
Loaded(t, x, was, rows) ==
  /\ was.version \in Nat /\ was.version >= 1
  /\ t # "uom" =>
       \/ Dead(rows[t][x])
       \/ /\ was.version <= rows[t][x].version
          /\ was.version = rows[t][x].version => was = rows[t][x]

PageHolds(c) ==
  LET p == page[c]
  IN  p # NoForm => p.t \in Tables /\ p.x \in Ids /\ Loaded(p.t, p.x, p.row, db)

TaskHolds(c) ==
  LET k == task[c]
      p == page[c]
  IN  k # Idle =>
        /\ k.op \in {"insert", "update", "set", "delete", "rekey"}
        /\ k.t \in Tables /\ k.x \in Ids /\ k.y \in Ids
        /\ k.row \in RowsOf(k.t) /\ k.was \in RowsOf(k.t)
        /\ k.op # "insert" => Loaded(k.t, k.x, k.was, db)
        /\ k.op = "update" => p # NoForm /\ p.t = k.t /\ p.x = k.x /\ p.row.version = k.was.version
        /\ k.t = "event" /\ k.op \in {"update", "set"} => k.was.status # "C"
        /\ k.op = "rekey" => k.t = "uom"

MInv ==
  /\ DbType
  /\ DOMAIN page = Clients /\ DOMAIN task = Clients
  /\ \A c \in Clients : PageHolds(c) /\ TaskHolds(c)

-----------------------------------------------------------------------------
(* The tables and their rows *)

\* What the proofs need of the schema.
LEMMA ColumnFacts ==
  /\ Tables = {"custodian", "event", "donor", "category", "uom", "warehouse", "agency", "item",
               "donation", "request", "inventory"}
  /\ DOMAIN Columns["event"] = {}
<1>1. Tables = {"custodian", "event", "donor", "category", "uom", "warehouse", "agency", "item",
                "donation", "request", "inventory"}
  BY Zenon DEF Tables, Columns
<1>2. Columns["event"] = <<>>
  BY Zenon DEF Columns
<1>3. DOMAIN <<>> = {}
  OBVIOUS
<1> QED
  BY Zenon, <1>1, <1>2, <1>3

\* A client without a task.
LEMMA IdleOp == Idle.op = "idle"
BY DEF Idle

\* A row with another version.
LEMMA VersionField ==
  ASSUME NEW t, NEW row \in RowsOf(t), NEW v \in Nat
  PROVE  LET new == [row EXCEPT !.version = v]
         IN  /\ new \in RowsOf(t) /\ new.version = v
             /\ new.status = row.status /\ new.ref = row.ref /\ new.kind = row.kind
BY Zenon DEF RowsOf

Gone(row) == [row EXCEPT !.version = 0, !.status = "deleted"]

\* A row that a delete leaves behind.
LEMMA GoneFields ==
  ASSUME NEW t, NEW row \in RowsOf(t)
  PROVE  Gone(row) \in RowsOf(t) /\ Gone(row).version = 0 /\ Gone(row).status = "deleted"
<1> DEFINE x == [row EXCEPT !.version = 0]
<1>1. x \in RowsOf(t) /\ x.version = 0
  BY VersionField
<1>2. Gone(row) = [x EXCEPT !.status = "deleted"]
  BY DEF Gone
<1> HIDE DEF x
<1>3. /\ [x EXCEPT !.status = "deleted"] \in RowsOf(t)
      /\ [x EXCEPT !.status = "deleted"].version = 0
      /\ [x EXCEPT !.status = "deleted"].status = "deleted"
  BY Zenon, <1>1 DEF RowsOf
<1> QED
  BY Zenon, <1>2, <1>3

\* A row whose references were cleared.
LEMMA ClearedFields ==
  ASSUME NEW s \in Tables, NEW row \in RowsOf(s), NEW t, NEW x
  PROVE  LET new == Cleared(s, row, t, x)
         IN  /\ new \in RowsOf(s)
             /\ new = row \/ new.version = row.version + 1
             /\ (\A k \in DOMAIN Columns[s] : ~ (Columns[s][k] = t /\ row.ref[k] = x)) => new = row
             /\ \A k \in DOMAIN Columns[s] :
                  new.ref[k] = IF Columns[s][k] = t /\ row.ref[k] = x THEN NULL ELSE row.ref[k]
<1> DEFINE hit == {k \in DOMAIN Columns[s] : Columns[s][k] = t /\ row.ref[k] = x}
           ref == [k \in DOMAIN row.ref |-> IF k \in hit THEN NULL ELSE row.ref[k]]
           new == Cleared(s, row, t, x)
<1>1. row.ref \in RefsOf(s) /\ row.version \in Nat
  BY Zenon DEF RowsOf
<1>2. /\ ref \in RefsOf(s)
      /\ \A k \in DOMAIN Columns[s] :
           ref[k] = IF Columns[s][k] = t /\ row.ref[k] = x THEN NULL ELSE row.ref[k]
  BY Zenon, <1>1 DEF RefsOf
<1>3. CASE hit = {}
  <2>1. new = row
    BY Zenon, <1>3 DEF Cleared
  <2>2. \A k \in DOMAIN Columns[s] : ~ (Columns[s][k] = t /\ row.ref[k] = x)
    BY Zenon, <1>3
  <2> HIDE DEF new, hit, ref
  <2> QED
    BY Zenon, <2>1, <2>2 DEF new
<1>4. CASE hit # {}
  <2> DEFINE a == [row EXCEPT !.ref = ref]
  <2>1. new = [a EXCEPT !.version = row.version + 1]
    <3>1. new = [row EXCEPT !.ref = ref, !.version = @ + 1]
      BY Zenon, <1>4 DEF Cleared
    <3> HIDE DEF ref, new
    <3>2. a.version = row.version
      BY Zenon DEF RowsOf
    <3> QED
      BY <3>1, <3>2
  <2>2. \E k \in DOMAIN Columns[s] : Columns[s][k] = t /\ row.ref[k] = x
    BY Zenon, <1>4
  <2> HIDE DEF ref, hit, new
  <2>3. a \in RowsOf(s) /\ a.ref = ref
    BY Zenon, <1>2 DEF RowsOf
  <2>4. row.version + 1 \in Nat
    BY <1>1
  <2> HIDE DEF a
  <2>5. new \in RowsOf(s) /\ new.version = row.version + 1 /\ new.ref = ref
    BY <2>1, <2>3, <2>4, VersionField
  <2> QED
    BY Zenon, <1>2, <2>2, <2>5 DEF new
<1> QED
  BY Zenon, <1>3, <1>4

-----------------------------------------------------------------------------
(* Copies *)

\* What a step may do to a row of table t: leave it, create it, change it
\* under a higher version, or end it.
Moves(t, row, new) ==
  \/ new = row
  \/ row.version = 0 /\ (t # "uom" => row.status = "none")
  \/ row.version > 0 /\ new.version > row.version
  \/ Dead(new)

\* A copy stays what Loaded says of it when its row moves.
LEMMA CopyStays ==
  ASSUME NEW t \in Tables, NEW x \in Ids, NEW was, NEW rows, NEW after,
         rows[t][x].version \in Nat, after[t][x].version \in Nat,
         Moves(t, rows[t][x], after[t][x]), Loaded(t, x, was, rows)
  PROVE  Loaded(t, x, was, after)
<1> DEFINE a == rows[t][x]
           b == after[t][x]
<1>1. a.version \in Nat /\ b.version \in Nat /\ Moves(t, a, b)
      /\ was.version \in Nat /\ was.version >= 1
      /\ (t # "uom" => Dead(a) \/ (was.version <= a.version /\ (was.version = a.version => was = a)))
  BY Zenon DEF Loaded
<1> HIDE DEF a, b
<1>2. t # "uom" => Dead(b) \/ (was.version <= b.version /\ (was.version = b.version => was = b))
  BY <1>1 DEF Moves, Dead
<1> QED
  BY Zenon, <1>1, <1>2 DEF Loaded, a, b

\* The versions of typed rows.
LEMMA RowFacts ==
  DbType => \A t \in Tables : \A x \in Ids :
              /\ db[t][x] \in RowsOf(t) /\ db[t][x].version \in Nat
              /\ db[t][x].ref \in RefsOf(t)
BY Zenon DEF DbType, RowsOf

\* A step in which client c alone moves, and the rows as they may.
LEMMA ClientStep ==
  ASSUME MInv, DbType', NEW c \in Clients,
         \A t \in Tables : \A x \in Ids : Moves(t, db[t][x], db'[t][x]),
         DOMAIN page' = Clients, DOMAIN task' = Clients,
         \A d \in Clients \ {c} : page'[d] = page[d] /\ task'[d] = task[d],
         PageHolds(c)', TaskHolds(c)'
  PROVE  MInv'
<1>1. ASSUME NEW t \in Tables, NEW x \in Ids, NEW was, Loaded(t, x, was, db)
      PROVE  Loaded(t, x, was, db')
  <2>1. db[t][x].version \in Nat /\ db'[t][x].version \in Nat
    BY RowFacts DEF MInv, DbType, RowsOf
  <2> QED
    BY Zenon, <1>1, <2>1, CopyStays
<1>2. ASSUME NEW d \in Clients \ {c} PROVE PageHolds(d)' /\ TaskHolds(d)'
  <2>1. PageHolds(d) /\ TaskHolds(d) /\ page'[d] = page[d] /\ task'[d] = task[d]
    BY Zenon DEF MInv
  <2>2. PageHolds(d)'
    BY Zenon, <1>1, <2>1 DEF PageHolds
  <2>3. TaskHolds(d)'
    BY Zenon, <1>1, <2>1 DEF TaskHolds
  <2> QED
    BY Zenon, <2>2, <2>3
<1> QED
  BY Zenon, <1>2 DEF MInv

\* The same for a handler that ends.
LEMMA EndStep ==
  ASSUME MInv, DbType', NEW c \in Clients,
         \A t \in Tables : \A x \in Ids : Moves(t, db[t][x], db'[t][x]),
         task' = [task EXCEPT ![c] = Idle], page' = [page EXCEPT ![c] = NoForm]
  PROVE  MInv'
<1>1. /\ DOMAIN page' = Clients /\ DOMAIN task' = Clients
      /\ page'[c] = NoForm /\ task'[c] = Idle
      /\ \A d \in Clients \ {c} : page'[d] = page[d] /\ task'[d] = task[d]
  BY Zenon DEF MInv
<1>2. PageHolds(c)' /\ TaskHolds(c)'
  BY Zenon, <1>1 DEF PageHolds, TaskHolds
<1> QED
  BY Zenon, <1>1, <1>2, ClientStep

\* A step that leaves the rows alone.
LEMMA SameRows ==
  ASSUME MInv, UNCHANGED db
  PROVE  /\ DbType'
         /\ \A t \in Tables : \A x \in Ids : Moves(t, db[t][x], db'[t][x])
<1>1. DbType'
  BY Zenon DEF MInv, DbType
<1> QED
  BY Zenon, <1>1 DEF Moves

\* A handler that has passed its checks.
LEMMA BeginStep ==
  ASSUME MInv, NEW c \in Clients, NEW t \in Tables, NEW x \in Ids, NEW y \in Ids,
         NEW row \in RowsOf(t), NEW op \in {"insert", "update", "set", "delete", "rekey"},
         BeginKey(c, op, t, x, y, row),
         op # "insert" => Exists(t, x),
         op = "update" => CurrentForm(c, t, x),
         t = "event" /\ op \in {"update", "set"} => db[t][x].status # "C",
         op = "rekey" => t = "uom"
  PROVE  MInv' /\ UNCHANGED db
<1> DEFINE k == [op |-> op, t |-> t, x |-> x, y |-> y, was |-> db[t][x], row |-> row]
<1>1. task' = [task EXCEPT ![c] = k] /\ UNCHANGED <<db, page>>
  BY Zenon DEF BeginKey
<1>2. /\ k.op = op /\ k.t = t /\ k.x = x /\ k.y = y /\ k.was = db[t][x] /\ k.row = row
  BY Zenon
<1> HIDE DEF k
<1>3. /\ DOMAIN page' = Clients /\ DOMAIN task' = Clients
      /\ page'[c] = page[c] /\ task'[c] = k
      /\ \A d \in Clients \ {c} : page'[d] = page[d] /\ task'[d] = task[d]
  BY Zenon, <1>1 DEF MInv
<1>4. db[t][x] \in RowsOf(t) /\ db[t][x].version \in Nat
  BY Zenon, RowFacts DEF MInv
<1>5. op # "insert" => Loaded(t, x, db[t][x], db)
  BY <1>4 DEF Loaded, Exists
<1>6. PageHolds(c)'
  BY Zenon, <1>1, <1>3 DEF PageHolds, MInv, Loaded, Dead
<1>7. op = "update" => /\ page[c] # NoForm /\ page[c].t = t /\ page[c].x = x
                       /\ page[c].row.version = db[t][x].version
  <2>1. t # "none"
    BY Zenon, ColumnFacts
  <2> QED
    BY <2>1 DEF CurrentForm, NoForm
<1>8. TaskHolds(c)'
  BY Zenon, <1>1, <1>2, <1>3, <1>4, <1>5, <1>7 DEF TaskHolds
<1> QED
  BY Zenon, <1>1, <1>3, <1>6, <1>8, SameRows, ClientStep

\* A form is opened or left, or a handler fails.
LEMMA PageStep ==
  ASSUME MInv, NEW c \in Clients,
         \/ leave_form(c) \/ Rollback(c)
         \/ \E t \in Tables, x \in Ids : open_form(c, t, x)
  PROVE  MInv' /\ UNCHANGED db
<1>1. CASE Rollback(c)
  BY Zenon, <1>1, SameRows, EndStep DEF Rollback
<1>2. CASE leave_form(c)
  <2>1. /\ DOMAIN page' = Clients /\ DOMAIN task' = Clients
        /\ page'[c] = NoForm /\ task'[c] = Idle /\ UNCHANGED db
        /\ \A d \in Clients \ {c} : page'[d] = page[d] /\ task'[d] = task[d]
    BY Zenon, <1>2 DEF leave_form, MInv
  <2>2. PageHolds(c)' /\ TaskHolds(c)'
    BY Zenon, <2>1 DEF PageHolds, TaskHolds
  <2> QED
    BY Zenon, <2>1, <2>2, SameRows, ClientStep
<1>3. ASSUME NEW t \in Tables, NEW x \in Ids, open_form(c, t, x)
      PROVE  MInv' /\ UNCHANGED db
  <2> DEFINE p == [t |-> t, x |-> x, row |-> db[t][x]]
  <2>1. /\ DOMAIN page' = Clients /\ DOMAIN task' = Clients
        /\ page'[c] = p /\ task'[c] = Idle /\ UNCHANGED db /\ Exists(t, x)
        /\ \A d \in Clients \ {c} : page'[d] = page[d] /\ task'[d] = task[d]
    BY Zenon, <1>3 DEF open_form, MInv
  <2>2. p.t = t /\ p.x = x /\ p.row = db[t][x]
    BY Zenon
  <2> HIDE DEF p
  <2>3. db[t][x].version \in Nat
    BY Zenon, RowFacts DEF MInv
  <2>4. PageHolds(c)' /\ TaskHolds(c)'
    BY <2>1, <2>2, <2>3 DEF PageHolds, TaskHolds, Loaded, Exists
  <2> QED
    BY Zenon, <2>1, <2>4, SameRows, ClientStep
<1> QED
  BY <1>1, <1>2, <1>3

-----------------------------------------------------------------------------
(* Rows that are written *)

EventsFinal ==
  \A x \in Live("event") :
    db["event"][x].status = "C" => db'["event"][x] = db["event"][x]
                                   \/ db'["event"][x].version = 0

EditsShown ==
  \A c \in Clients :
    Edits(c) /\ task[c].t # "uom" => db[task[c].t][task[c].x] = page[c].row

\* A step that writes nothing.
LEMMA Quiet == UNCHANGED db => EventsFinal /\ EditsShown
BY DEF EventsFinal, EditsShown, Edits

\* No edit ends in the step of another handler.
LEMMA OnlyOwnEdit ==
  ASSUME MInv, NEW c \in Clients, task' = [task EXCEPT ![c] = Idle],
         task[c].op = "update" /\ task[c].t # "uom" /\ page[c].t = task[c].t =>
           db[task[c].t][task[c].x] = page[c].row
  PROVE  EditsShown
<1> SUFFICES ASSUME NEW d \in Clients, Edits(d), task[d].t # "uom"
             PROVE  db[task[d].t][task[d].x] = page[d].row
  BY Zenon DEF EditsShown
<1>1. task[d].op = "update" /\ task'[d] = Idle /\ page[d].t = task[d].t
  BY Zenon DEF Edits
<1>2. d # c => FALSE
  BY <1>1 DEF Idle, MInv
<1> QED
  BY Zenon, <1>1, <1>2

\* No edit ends in a step that is no handler's.
LEMMA NoEdit == UNCHANGED task => EditsShown
<1> SUFFICES ASSUME UNCHANGED task, NEW d \in Clients, Edits(d)
             PROVE  FALSE
  BY Zenon DEF EditsShown
<1> QED
  BY DEF Edits, Idle

\* Row x of table t is new, and nothing else has changed.
Written(t, x, new) ==
  /\ DbType'
  /\ \A s \in Tables : \A y \in Ids : Moves(s, db[s][y], db'[s][y])
  /\ \A s \in Tables : \A y \in Ids :
       db'[s][y] = IF s = t /\ y = x THEN new ELSE db[s][y]

\* One row is written.
LEMMA OneRow ==
  ASSUME MInv, NEW t \in Tables, NEW x \in Ids, NEW new \in RowsOf(t),
         db' = [db EXCEPT ![t][x] = new], Moves(t, db[t][x], new)
  PROVE  Written(t, x, new)
<1>1. DbType
  BY Zenon DEF MInv
<1>2. \A s \in Tables : \A y \in Ids :
        db'[s][y] = IF s = t /\ y = x THEN new ELSE db[s][y]
  BY Zenon, <1>1 DEF DbType
<1>3. DbType'
  BY Zenon, <1>1 DEF DbType
<1>4. \A s \in Tables : \A y \in Ids : Moves(s, db[s][y], db'[s][y])
  BY <1>2 DEF Moves
<1> QED
  BY Zenon, <1>2, <1>3, <1>4 DEF Written

\* An INSERT that the database accepts.
LEMMA InsertStep ==
  ASSUME MInv, NEW c \in Clients, Insert(c)
  PROVE  MInv' /\ EventsFinal /\ EditsShown
<1> DEFINE k == task[c]
           new == [k.row EXCEPT !.version = 1]
<1>1. /\ k.op = "insert" /\ Fresh(k.t, k.x) /\ Accepts(k.t, k.x, k.row)
      /\ db' = [db EXCEPT ![k.t][k.x] = new]
      /\ task' = [task EXCEPT ![c] = Idle] /\ page' = [page EXCEPT ![c] = NoForm]
  BY Zenon DEF Insert, Finish
<1>2. k.t \in Tables /\ k.x \in Ids /\ k.row \in RowsOf(k.t)
  <2>1. k # Idle
    BY Zenon, <1>1, IdleOp
  <2> QED
    BY Zenon, <1>1, <2>1 DEF MInv, TaskHolds
<1> HIDE DEF k
<1>3. new \in RowsOf(k.t) /\ new.version = 1
  BY <1>2, VersionField
<1> HIDE DEF new
<1>4. Moves(k.t, db[k.t][k.x], new)
  BY Zenon, <1>1 DEF Moves, Fresh
<1>5. /\ DbType'
      /\ \A s \in Tables : \A y \in Ids : Moves(s, db[s][y], db'[s][y])
      /\ \A s \in Tables : \A y \in Ids :
           db'[s][y] = IF s = k.t /\ y = k.x THEN new ELSE db[s][y]
  <2>1. Written(k.t, k.x, new)
    BY Zenon, <1>1, <1>2, <1>3, <1>4, OneRow
  <2> QED
    BY Zenon, <2>1 DEF Written
<1>6. MInv'
  BY Zenon, <1>1, <1>5, EndStep
<1>7. EventsFinal
  <2>1. \A x \in Live("event") : x \in Ids /\ ~ ("event" = k.t /\ x = k.x)
    <3>1. ~ 0 > 0
      OBVIOUS
    <3> QED
      BY Zenon, <1>1, <3>1 DEF Live, Exists, Fresh
  <2>2. "event" \in Tables
    BY Zenon, ColumnFacts
  <2> QED
    BY Zenon, <1>5, <2>1, <2>2 DEF EventsFinal
<1>8. EditsShown
  BY Zenon, <1>1, OnlyOwnEdit DEF k
<1> QED
  BY Zenon, <1>6, <1>7, <1>8

\* An UPDATE that finds its version and that the database accepts.
LEMMA UpdateStep ==
  ASSUME MInv, NEW c \in Clients, Update(c)
  PROVE  MInv' /\ EventsFinal /\ EditsShown
<1> DEFINE k == task[c]
           new == [k.row EXCEPT !.version = k.was.version + 1]
<1>1. /\ k.op \in {"update", "set"} /\ Accepts(k.t, k.x, k.row)
      /\ db[k.t][k.x].version = k.was.version
      /\ db' = [db EXCEPT ![k.t][k.x] = new]
      /\ task' = [task EXCEPT ![c] = Idle] /\ page' = [page EXCEPT ![c] = NoForm]
  BY Zenon DEF Update, Finish, Unchanged
<1>2. /\ k.t \in Tables /\ k.x \in Ids /\ k.row \in RowsOf(k.t)
      /\ Loaded(k.t, k.x, k.was, db)
      /\ k.t = "event" => k.was.status # "C"
      /\ k.op = "update" => /\ page[c] # NoForm /\ page[c].t = k.t /\ page[c].x = k.x
                            /\ page[c].row.version = k.was.version
  <2>1. k # Idle
    BY Zenon, <1>1, IdleOp
  <2> QED
    BY Zenon, <1>1, <2>1 DEF MInv, TaskHolds
<1> HIDE DEF k
<1>3. /\ k.was.version \in Nat /\ k.was.version >= 1 /\ k.was.version + 1 \in Nat
      /\ k.was.version + 1 > k.was.version /\ k.was.version + 1 > 0
      /\ k.was.version > 0 /\ k.was.version # 0
  <2> DEFINE v == k.was.version
  <2>1. v \in Nat /\ v >= 1
    BY Zenon, <1>2 DEF Loaded
  <2> HIDE DEF v
  <2>2. v + 1 \in Nat /\ v + 1 > v /\ v + 1 > 0 /\ v > 0 /\ v # 0
    BY <2>1
  <2> QED
    BY Zenon, <2>1, <2>2 DEF v
<1>4. new \in RowsOf(k.t) /\ new.version = k.was.version + 1
  BY <1>2, <1>3, VersionField
<1> HIDE DEF new
<1>5. Moves(k.t, db[k.t][k.x], new)
  BY Zenon, <1>1, <1>3, <1>4 DEF Moves
<1>6. /\ DbType'
      /\ \A s \in Tables : \A y \in Ids : Moves(s, db[s][y], db'[s][y])
      /\ \A s \in Tables : \A y \in Ids :
           db'[s][y] = IF s = k.t /\ y = k.x THEN new ELSE db[s][y]
  <2>1. Written(k.t, k.x, new)
    BY Zenon, <1>1, <1>2, <1>4, <1>5, OneRow
  <2> QED
    BY Zenon, <2>1 DEF Written
<1>7. MInv'
  BY Zenon, <1>1, <1>6, EndStep
<1>8. EventsFinal
  <2>1. k.t = "event" => db[k.t][k.x].status # "C"
    <3>1. ~ Dead(db[k.t][k.x])
      BY Zenon, <1>1, <1>3 DEF Dead
    <3> QED
      BY Zenon, <1>1, <1>2, <3>1 DEF Loaded
  <2>2. "event" \in Tables /\ Live("event") \subseteq Ids
    BY Zenon, ColumnFacts DEF Live
  <2> QED
    BY Zenon, <1>6, <2>1, <2>2 DEF EventsFinal
<1>9. EditsShown
  <2>1. ASSUME k.op = "update", k.t # "uom"
        PROVE  db[k.t][k.x] = page[c].row
    <3>1. Loaded(k.t, k.x, page[c].row, db)
      BY Zenon, <1>2, <2>1 DEF MInv, PageHolds
    <3>2. ~ Dead(db[k.t][k.x])
      BY Zenon, <1>1, <1>3 DEF Dead
    <3> QED
      BY Zenon, <1>1, <1>2, <2>1, <3>1, <3>2 DEF Loaded
  <2> QED
    BY Zenon, <1>1, <2>1, OnlyOwnEdit DEF k
<1> QED
  BY Zenon, <1>7, <1>8, <1>9

\* A DELETE: the references to the row are cleared first.
LEMMA DeleteStep ==
  ASSUME MInv, NEW c \in Clients, Delete(c)
  PROVE  MInv' /\ EventsFinal /\ EditsShown
<1> DEFINE t == task[c].t
           x == task[c].x
<1>1. /\ task[c].op = "delete"
      /\ db' = [s \in Tables |-> [y \in Ids |->
                  IF s = t /\ y = x THEN Gone(db[s][y])
                  ELSE IF Exists(s, y) THEN Cleared(s, db[s][y], t, x) ELSE db[s][y]]]
      /\ task' = [task EXCEPT ![c] = Idle] /\ page' = [page EXCEPT ![c] = NoForm]
  BY Zenon DEF Delete, Finish, Gone
<1>2. t \in Tables /\ x \in Ids
  BY <1>1 DEF MInv, TaskHolds, Idle
<1> HIDE DEF t, x
<1>3. DbType /\ DOMAIN db' = Tables
  BY Zenon, <1>1 DEF MInv
<1>4. ASSUME NEW s \in Tables, NEW y \in Ids
      PROVE  /\ db[s][y] \in RowsOf(s) /\ db[s][y].version \in Nat
             /\ db'[s][y] = IF s = t /\ y = x THEN Gone(db[s][y])
                            ELSE IF db[s][y].version > 0 THEN Cleared(s, db[s][y], t, x)
                            ELSE db[s][y]
  BY Zenon, <1>1, <1>3, RowFacts DEF Exists
<1>5. ASSUME NEW s \in Tables, NEW y \in Ids
      PROVE  db'[s][y] \in RowsOf(s) /\ Moves(s, db[s][y], db'[s][y])
  <2> DEFINE a == db[s][y]
             b == db'[s][y]
  <2>1. /\ a \in RowsOf(s) /\ a.version \in Nat
        /\ b = IF s = t /\ y = x THEN Gone(a)
               ELSE IF a.version > 0 THEN Cleared(s, a, t, x) ELSE a
    BY Zenon, <1>4
  <2> HIDE DEF a, b
  <2>2. CASE s = t /\ y = x
    <3>1. b \in RowsOf(s) /\ b.version = 0 /\ b.status = "deleted"
      BY Zenon, <2>1, <2>2, GoneFields
    <3> QED
      BY Zenon, <2>2, <3>1 DEF Moves, Dead, a, b
  <2>3. CASE ~ (s = t /\ y = x) /\ a.version > 0
    <3>1. b \in RowsOf(s) /\ (b = a \/ b.version = a.version + 1)
      BY <2>1, <2>3, ClearedFields
    <3>2. Moves(s, a, b)
      BY <2>1, <2>3, <3>1 DEF Moves
    <3> QED
      BY Zenon, <3>1, <3>2 DEF a, b
  <2>4. CASE ~ (s = t /\ y = x) /\ ~ a.version > 0
    BY Zenon, <2>1, <2>4 DEF Moves, a, b
  <2> QED
    BY Zenon, <2>2, <2>3, <2>4
<1>6. DbType'
  <2>1. ASSUME NEW s \in Tables PROVE db'[s] \in [Ids -> RowsOf(s)]
    <3>1. \A y \in Ids : db'[s][y] \in RowsOf(s)
      BY Zenon, <1>5
    <3>2. db'[s] = [y \in Ids |-> db'[s][y]]
      BY Zenon, <1>1
    <3> QED
      BY Zenon, <3>1, <3>2
  <2> QED
    BY <1>3, <2>1 DEF DbType
<1>7. MInv'
  BY Zenon, <1>1, <1>5, <1>6, EndStep
<1>8. EventsFinal
  <2> SUFFICES ASSUME NEW y \in Live("event")
               PROVE  db'["event"][y] = db["event"][y] \/ db'["event"][y].version = 0
    BY Zenon DEF EventsFinal
  <2>1. "event" \in Tables /\ y \in Ids /\ db["event"][y].version > 0
        /\ DOMAIN Columns["event"] = {}
    BY Zenon, ColumnFacts DEF Live, Exists
  <2>2. CASE "event" = t /\ y = x
    BY <1>4, <2>1, <2>2, GoneFields
  <2>3. CASE ~ ("event" = t /\ y = x)
    BY <1>4, <2>1, <2>3, ClearedFields
  <2> QED
    BY Zenon, <2>2, <2>3
<1>9. EditsShown
  BY Zenon, <1>1, OnlyOwnEdit
<1> QED
  BY <1>7, <1>8, <1>9

\* A unit of measure gets another code.
LEMMA ChangeCodeStep ==
  ASSUME MInv, NEW c \in Clients, ChangeCode(c)
  PROVE  MInv' /\ EventsFinal /\ EditsShown
<1> DEFINE k == task[c]
           x == k.x
           y == k.y
           v == k.was.version
           new == [k.row EXCEPT !.version = v + 1]
<1>1. /\ k.op = "rekey" /\ db[k.t][x].version = v
      /\ Fresh("uom", y)
      /\ db' = [db EXCEPT !["uom"][x].version = 0, !["uom"][x].status = "deleted",
                          !["uom"][y] = new]
      /\ task' = [task EXCEPT ![c] = Idle] /\ page' = [page EXCEPT ![c] = NoForm]
  BY Zenon DEF ChangeCode, Finish, Unchanged, CodeFree
<1>2. /\ k.t = "uom" /\ x \in Ids /\ y \in Ids /\ k.row \in RowsOf("uom")
      /\ v \in Nat /\ v >= 1 /\ "uom" \in Tables
  <2>1. k # Idle
    BY Zenon, <1>1, IdleOp
  <2>2. k.t = "uom" /\ x \in Ids /\ y \in Ids /\ k.row \in RowsOf(k.t) /\ Loaded(k.t, x, k.was, db)
    BY Zenon, <1>1, <2>1 DEF MInv, TaskHolds
  <2> QED
    BY Zenon, <2>2, ColumnFacts DEF Loaded
<1>3. new \in RowsOf("uom") /\ new.version = v + 1
  <2>1. v + 1 \in Nat
    BY <1>2
  <2> HIDE DEF v
  <2> QED
    BY <1>2, <2>1, VersionField
<1>4. x # y
  <2>1. db["uom"][x].version = v /\ db["uom"][y].version = 0
    BY Zenon, <1>1, <1>2 DEF Fresh
  <2>2. v \in Nat /\ v >= 1
    BY Zenon, <1>2
  <2> HIDE DEF v
  <2>3. v # 0
    BY <2>2
  <2> QED
    BY Zenon, <2>1, <2>3
<1> HIDE DEF k, x, y, v, new
<1>5. /\ DOMAIN db' = Tables
      /\ \A s \in Tables \ {"uom"} : db'[s] = db[s]
      /\ db'["uom"] = [db["uom"] EXCEPT ![x] = Gone(db["uom"][x]), ![y] = new]
  <2> DEFINE d1 == [db EXCEPT !["uom"][x].version = 0]
             d2 == [d1 EXCEPT !["uom"][x].status = "deleted"]
  <2>1. DOMAIN db = Tables /\ db["uom"] \in [Ids -> RowsOf("uom")]
    BY Zenon, <1>2 DEF MInv, DbType
  <2>2. /\ DOMAIN d1 = Tables /\ \A s \in Tables \ {"uom"} : d1[s] = db[s]
        /\ d1["uom"] = [db["uom"] EXCEPT ![x].version = 0]
    BY Zenon, <1>2, <2>1
  <2>3. db' = [d2 EXCEPT !["uom"][y] = new]
    BY Zenon, <1>1
  <2> HIDE DEF d1
  <2>4. /\ DOMAIN d2 = Tables /\ \A s \in Tables \ {"uom"} : d2[s] = db[s]
        /\ d2["uom"] = [d1["uom"] EXCEPT ![x].status = "deleted"]
    BY Zenon, <1>2, <2>2
  <2> HIDE DEF d2
  <2>5. d2["uom"] = [db["uom"] EXCEPT ![x] = Gone(db["uom"][x])]
    BY Zenon, <1>2, <2>1, <2>2, <2>4 DEF Gone
  <2> QED
    BY Zenon, <1>2, <2>3, <2>4, <2>5
<1>6. DbType
  BY DEF MInv
<1>7. ASSUME NEW z \in Ids
      PROVE  db'["uom"][z] = IF z = y THEN new ELSE IF z = x THEN Gone(db["uom"][x])
                             ELSE db["uom"][z]
  BY Zenon, <1>2, <1>4, <1>5, <1>6 DEF DbType
<1>8. Gone(db["uom"][x]) \in RowsOf("uom") /\ Dead(Gone(db["uom"][x]))
  BY Zenon, <1>2, <1>6, RowFacts, GoneFields DEF Dead
<1>9. DbType'
  BY <1>2, <1>3, <1>5, <1>6, <1>8 DEF DbType
<1>10. ASSUME NEW s \in Tables, NEW z \in Ids
       PROVE  Moves(s, db[s][z], db'[s][z])
  <2>1. CASE s # "uom"
    BY Zenon, <1>5, <2>1 DEF Moves
  <2>2. CASE s = "uom" /\ z = y
    <3>1. db[s][z].version = 0 /\ db'[s][z] = new
      BY Zenon, <1>1, <1>7, <2>2 DEF Fresh
    <3> QED
      BY <1>2, <1>3, <2>2, <3>1 DEF Moves
  <2>3. CASE s = "uom" /\ z = x
    BY Zenon, <1>4, <1>7, <1>8, <2>3 DEF Moves
  <2>4. CASE s = "uom" /\ z # x /\ z # y
    BY Zenon, <1>7, <2>4 DEF Moves
  <2> QED
    BY Zenon, <2>1, <2>2, <2>3, <2>4
<1>11. MInv'
  BY Zenon, <1>1, <1>9, <1>10, EndStep
<1>12. EventsFinal
  <2>1. "event" \in Tables \ {"uom"}
    BY Zenon, ColumnFacts
  <2> QED
    BY Zenon, <1>5, <2>1 DEF EventsFinal
<1>13. EditsShown
  <2>1. task[c].op # "update"
    BY Zenon, <1>1 DEF k
  <2> QED
    BY Zenon, <1>1, <2>1, OnlyOwnEdit
<1> QED
  BY <1>11, <1>12, <1>13

-----------------------------------------------------------------------------
(* Rows of other modules *)

\* A row with another status under the next version.
LEMMA StatusField ==
  ASSUME NEW t, NEW row \in RowsOf(t), NEW st \in {"A", "I"}
  PROVE  LET new == [row EXCEPT !.status = st, !.version = @ + 1]
         IN  /\ new \in RowsOf(t) /\ new.version = row.version + 1
             /\ new.ref = row.ref /\ new.kind = row.kind
<1> DEFINE a == [row EXCEPT !.status = st]
           new == [row EXCEPT !.status = st, !.version = @ + 1]
<1>1. a \in RowsOf(t) /\ a.version = row.version /\ a.ref = row.ref /\ a.kind = row.kind
  BY Zenon DEF RowsOf
<1>2. new = [a EXCEPT !.version = a.version + 1]
  OBVIOUS
<1> HIDE DEF a, new
<1>3. a.version + 1 \in Nat
  BY <1>1 DEF RowsOf
<1>4. new \in RowsOf(t) /\ new.version = a.version + 1 /\ new.ref = a.ref /\ new.kind = a.kind
  BY <1>1, <1>2, <1>3, VersionField
<1> QED
  BY Zenon, <1>1, <1>4 DEF new

\* Another handler inserts or changes a row that refers to master data.
LEMMA DependentStep ==
  ASSUME MInv, NEW t \in Dependents, NEW x \in Ids, OtherHandlers(t, x)
  PROVE  MInv' /\ EventsFinal /\ EditsShown
<1>1. t \in Tables /\ t # "agency" /\ t # "event"
  BY Zenon, ColumnFacts DEF Dependents
<1>2. db[t][x] \in RowsOf(t) /\ db[t][x].version \in Nat
  BY Zenon, <1>1, RowFacts DEF MInv
<1>3. ASSUME NEW new \in RowsOf(t),
             Moves(t, db[t][x], new), db' = [db EXCEPT ![t][x] = new], UNCHANGED <<page, task>>
      PROVE  MInv' /\ EventsFinal /\ EditsShown
  <2>1. /\ DbType'
        /\ \A s \in Tables : \A y \in Ids : Moves(s, db[s][y], db'[s][y])
        /\ \A s \in Tables : \A y \in Ids :
             db'[s][y] = IF s = t /\ y = x THEN new ELSE db[s][y]
    <3>1. Written(t, x, new)
      BY Zenon, <1>1, <1>3, OneRow
    <3> QED
      BY Zenon, <3>1 DEF Written
  <2>2. ASSUME NEW c \in Clients PROVE MInv'
    <3>1. MInv /\ PageHolds(c) /\ TaskHolds(c)
      BY DEF MInv
    <3>2. ASSUME NEW s \in Tables, NEW y \in Ids, NEW was, Loaded(s, y, was, db)
          PROVE  Loaded(s, y, was, db')
      <4>1. db[s][y].version \in Nat /\ db'[s][y].version \in Nat
        BY <2>1, RowFacts DEF MInv, DbType, RowsOf
      <4> QED
        BY Zenon, <2>1, <3>2, <4>1, CopyStays
    <3>3. PageHolds(c)'
      BY Zenon, <1>3, <3>1, <3>2 DEF PageHolds
    <3>4. TaskHolds(c)'
      BY Zenon, <1>3, <3>1, <3>2 DEF TaskHolds
    <3> QED
      BY Zenon, <1>3, <2>1, <3>3, <3>4, ClientStep DEF MInv
  <2>3. Clients = {} => MInv'
    BY Zenon, <1>3, <2>1 DEF MInv
  <2>4. EventsFinal
    <3>1. "event" \in Tables /\ Live("event") \subseteq Ids
      BY Zenon, ColumnFacts DEF Live
    <3> QED
      BY Zenon, <1>1, <2>1, <3>1 DEF EventsFinal
  <2> QED
    BY Zenon, <1>3, <2>2, <2>3, <2>4, NoEdit
<1>4. ASSUME NEW row \in FormsOf(t), insert_dependent(t, x, row)
      PROVE  MInv' /\ EventsFinal /\ EditsShown
  <2> DEFINE new == [row EXCEPT !.version = 1]
  <2>1. /\ Fresh(t, x) /\ UNCHANGED <<page, task>>
        /\ db' = [db EXCEPT ![t][x] = new]
    BY Zenon, <1>4 DEF insert_dependent
  <2>2. row \in RowsOf(t)
    BY Zenon, <1>1, FormsAssumption DEF FormsOf
  <2>3. new \in RowsOf(t) /\ new.version = 1 /\ new.ref = row.ref
    BY <2>2, VersionField
  <2> HIDE DEF new
  <2>4. Moves(t, db[t][x], new)
    BY <2>1, <2>3 DEF Moves, Fresh
  <2> QED
    BY Zenon, <1>3, <2>1, <2>3, <2>4
<1>5. ASSUME NEW st \in {"A", "I"}, update_dependent(t, x, st)
      PROVE  MInv' /\ EventsFinal /\ EditsShown
  <2> DEFINE new == [db[t][x] EXCEPT !.status = st, !.version = @ + 1]
  <2>1. Exists(t, x) /\ UNCHANGED <<page, task>>
    BY Zenon, <1>5 DEF update_dependent
  <2>2. db' = [db EXCEPT ![t][x] = new]
    <3> DEFINE r1 == [db[t][x] EXCEPT !.status = st]
               r2 == [r1 EXCEPT !.version = @ + 1]
               f1 == [db[t] EXCEPT ![x] = r1]
               d1 == [db EXCEPT ![t] = f1]
    <3>1. db' = [d1 EXCEPT ![t] = [d1[t] EXCEPT ![x] = [d1[t][x] EXCEPT !.version = @ + 1]]]
      BY Zenon, <1>5 DEF update_dependent
    <3>2. DOMAIN db = Tables /\ db[t] \in [Ids -> RowsOf(t)] /\ new = r2
      BY Zenon, <1>1 DEF MInv, DbType
    <3> HIDE DEF r1, r2, new
    <3>3. d1[t] = f1 /\ f1[x] = r1 /\ [f1 EXCEPT ![x] = r2] = [db[t] EXCEPT ![x] = r2]
      BY Zenon, <1>1, <3>2
    <3>4. db' = [d1 EXCEPT ![t] = [f1 EXCEPT ![x] = r2]]
      BY Zenon, <3>1, <3>3 DEF r2
    <3> DEFINE g == [db[t] EXCEPT ![x] = r2]
    <3>5. db' = [d1 EXCEPT ![t] = g]
      BY Zenon, <3>3, <3>4
    <3> HIDE DEF f1, g
    <3>6. db' = [db EXCEPT ![t] = g]
      BY Zenon, <3>5
    <3> QED
      BY Zenon, <3>2, <3>6 DEF g
  <2>3. /\ new \in RowsOf(t) /\ new.version = db[t][x].version + 1
        /\ new.ref = db[t][x].ref
    BY Zenon, <1>2, StatusField
  <2> HIDE DEF new
  <2>4. Moves(t, db[t][x], new)
    BY <1>2, <2>1, <2>3 DEF Moves, Exists
  <2> QED
    BY Zenon, <1>3, <2>1, <2>2, <2>3, <2>4
<1> QED
  BY <1>4, <1>5 DEF OtherHandlers

-----------------------------------------------------------------------------
(* Handlers up to their flush *)

\* The row that a form asks for.
LEMMA FormRow == \A t \in Tables : \A row \in FormsOf(t) : row \in RowsOf(t)
BY FormsAssumption DEF FormsOf

\* A handler of Directory passes its checks.
LEMMA DirectoryStep ==
  ASSUME MInv, NEW c \in Clients, NEW x \in Ids, DirectoryHandlers(c, x)
  PROVE  MInv' /\ UNCHANGED db
<1>1. /\ "custodian" \in Tables /\ "warehouse" \in Tables /\ "agency" \in Tables
      /\ "event" \in Tables /\ "donor" \in Tables
  BY Zenon, ColumnFacts
<1>2. ASSUME NEW t \in {"custodian", "warehouse", "agency", "event", "donor"},
             NEW row \in FormsOf(t), Begin(c, "insert", t, x, row)
      PROVE  MInv' /\ UNCHANGED db
  BY Zenon, <1>1, <1>2, FormRow, BeginStep DEF Begin
<1>3. ASSUME NEW t \in {"custodian", "warehouse", "agency", "event", "donor"},
             NEW row \in FormsOf(t), Begin(c, "update", t, x, row), CurrentForm(c, t, x),
             t = "event" => db[t][x].status = "A"
      PROVE  MInv' /\ UNCHANGED db
  <2>1. Exists(t, x)
    BY Zenon, <1>3 DEF CurrentForm
  <2>2. t \in Tables /\ row \in RowsOf(t)
    BY <1>1, FormRow
  <2> QED
    BY Zenon, <1>3, <2>1, <2>2, BeginStep DEF Begin
<1>4. ASSUME NEW t \in {"custodian", "warehouse", "event", "donor"},
             Begin(c, "delete", t, x, db[t][x]), Exists(t, x)
      PROVE  MInv' /\ UNCHANGED db
  <2>1. t \in Tables /\ db[t][x] \in RowsOf(t)
    BY Zenon, <1>1, RowFacts DEF MInv
  <2> QED
    BY Zenon, <1>4, <2>1, BeginStep DEF Begin
<1>5. ASSUME NEW t \in {"agency", "event"}, NEW st \in {"I", "C"},
             Begin(c, "set", t, x, [db[t][x] EXCEPT !.status = st]), Exists(t, x),
             t = "event" => db[t][x].status # "C"
      PROVE  MInv' /\ UNCHANGED db
  <2>1. t \in Tables /\ db[t][x] \in RowsOf(t)
    BY Zenon, <1>1, RowFacts DEF MInv
  <2>2. [db[t][x] EXCEPT !.status = st] \in RowsOf(t)
    BY Zenon, <2>1 DEF RowsOf
  <2> QED
    BY Zenon, <1>5, <2>1, <2>2, BeginStep DEF Begin
<1>6. CASE \/ \E row \in FormsOf("custodian") :
                create_custodian(c, x, row) \/ edit_custodian(c, x, row)
           \/ delete_custodian(c, x)
  BY Zenon, <1>2, <1>3, <1>4, <1>6 DEF create_custodian, edit_custodian, delete_custodian
<1>7. CASE \/ \E row \in FormsOf("warehouse") :
                create_warehouse(c, x, row) \/ edit_warehouse(c, x, row)
           \/ delete_warehouse(c, x)
  BY Zenon, <1>2, <1>3, <1>4, <1>7 DEF create_warehouse, edit_warehouse, delete_warehouse
<1>8. CASE \/ \E row \in FormsOf("agency") : create_agency(c, x, row) \/ edit_agency(c, x, row)
           \/ deactivate_agency(c, x)
  BY Zenon, <1>2, <1>3, <1>5, <1>8 DEF create_agency, edit_agency, deactivate_agency
<1>9. CASE \/ \E row \in FormsOf("event") : create_event(c, x, row) \/ edit_event(c, x, row)
           \/ close_event(c, x)
           \/ delete_event(c, x)
  BY Zenon, <1>2, <1>3, <1>4, <1>5, <1>9 DEF create_event, edit_event, close_event, delete_event
<1>10. CASE \/ \E row \in FormsOf("donor") : create_donor(c, x, row) \/ edit_donor(c, x, row)
            \/ delete_donor(c, x)
  BY Zenon, <1>2, <1>3, <1>4, <1>10 DEF create_donor, edit_donor, delete_donor
<1> QED
  BY Zenon, <1>6, <1>7, <1>8, <1>9, <1>10 DEF DirectoryHandlers

\* A handler of Catalogue passes its checks.
LEMMA CatalogueStep ==
  ASSUME MInv, NEW c \in Clients, NEW x \in Ids, CatalogueHandlers(c, x)
  PROVE  MInv' /\ UNCHANGED db
<1>1. "category" \in Tables /\ "uom" \in Tables /\ "item" \in Tables
  BY Zenon, ColumnFacts
<1>2. ASSUME NEW t \in {"category", "uom", "item"},
             NEW row \in FormsOf(t), Begin(c, "insert", t, x, row)
      PROVE  MInv' /\ UNCHANGED db
  BY Zenon, <1>1, <1>2, FormRow, BeginStep DEF Begin
<1>3. ASSUME NEW t \in {"category", "uom", "item"},
             NEW row \in FormsOf(t), Begin(c, "update", t, x, row), CurrentForm(c, t, x)
      PROVE  MInv' /\ UNCHANGED db
  <2>1. Exists(t, x)
    BY Zenon, <1>3 DEF CurrentForm
  <2>2. t \in Tables /\ row \in RowsOf(t)
    BY <1>1, FormRow
  <2> QED
    BY Zenon, <1>3, <2>1, <2>2, BeginStep DEF Begin
<1>4. ASSUME NEW t \in {"category", "uom"},
             Begin(c, "delete", t, x, db[t][x]), Exists(t, x)
      PROVE  MInv' /\ UNCHANGED db
  <2>1. t \in Tables /\ db[t][x] \in RowsOf(t)
    BY Zenon, <1>1, RowFacts DEF MInv
  <2> QED
    BY Zenon, <1>4, <2>1, BeginStep DEF Begin
<1>5. ASSUME NEW st \in {"I", "A"}, Exists("item", x),
             Begin(c, "set", "item", x, [db["item"][x] EXCEPT !.status = st])
      PROVE  MInv' /\ UNCHANGED db
  <2>1. db["item"][x] \in RowsOf("item")
    BY Zenon, <1>1, RowFacts DEF MInv
  <2>2. [db["item"][x] EXCEPT !.status = st] \in RowsOf("item")
    BY Zenon, <2>1 DEF RowsOf
  <2> QED
    BY Zenon, <1>1, <1>5, <2>2, BeginStep DEF Begin
<1>6. CASE \/ \E row \in FormsOf("category") :
                create_category(c, x, row) \/ edit_category(c, x, row)
           \/ delete_category(c, x)
  BY Zenon, <1>2, <1>3, <1>4, <1>6 DEF create_category, edit_category, delete_category
<1>7. CASE \/ \E row \in FormsOf("uom") : create_uom(c, x, row) \/ edit_uom(c, x, row)
           \/ delete_uom(c, x)
  BY Zenon, <1>2, <1>3, <1>4, <1>7 DEF create_uom, edit_uom, delete_uom
<1>8. ASSUME NEW row \in FormsOf("uom"), NEW y \in Ids, edit_uom_code(c, x, y, row)
      PROVE  MInv' /\ UNCHANGED db
  <2>1. BeginKey(c, "rekey", "uom", x, y, row) /\ Exists("uom", x)
    BY Zenon, <1>8 DEF edit_uom_code, CurrentForm
  <2>2. row \in RowsOf("uom")
    BY <1>1, FormRow
  <2> QED
    BY Zenon, <1>1, <2>1, <2>2, BeginStep
<1>9. CASE \/ \E row \in FormsOf("item") : create_item(c, x, row) \/ edit_item(c, x, row)
           \/ inactivate_item(c, x)
           \/ activate_item(c, x)
  BY Zenon, <1>2, <1>3, <1>5, <1>9 DEF create_item, edit_item, inactivate_item, activate_item
<1> QED
  BY Zenon, <1>6, <1>7, <1>8, <1>9 DEF CatalogueHandlers

-----------------------------------------------------------------------------
(* Theorems *)

\* The invariant holds at the start: this is InitialAssumption.
LEMMA MInvInit == Init => MInv
<1> SUFFICES ASSUME Init PROVE MInv
  OBVIOUS
<1>1. /\ area \in Areas /\ db \in Initial[area]
      /\ page = [c \in Clients |-> NoForm] /\ task = [c \in Clients |-> Idle]
  BY DEF Init
<1>2. DbType
  BY Zenon, <1>1, InitialAssumption DEF DbType
<1>3. \A c \in Clients : PageHolds(c) /\ TaskHolds(c)
  BY Zenon, <1>1 DEF PageHolds, TaskHolds
<1> QED
  BY <1>1, <1>2, <1>3 DEF MInv

\* Every step preserves it, leaves closed events alone and edits what was shown.
LEMMA MInvNext == MInv /\ [Next]_vars => MInv' /\ EventsFinal /\ EditsShown
<1> SUFFICES ASSUME MInv, [Next]_vars PROVE MInv' /\ EventsFinal /\ EditsShown
  OBVIOUS
<1>1. CASE UNCHANGED vars
  <2>1. UNCHANGED <<db, page, task>>
    BY <1>1 DEF vars
  <2>2. MInv'
    <3>1. DbType'
      BY Zenon, <2>1 DEF MInv, DbType
    <3>2. ASSUME NEW c \in Clients PROVE PageHolds(c)' /\ TaskHolds(c)'
      BY Zenon, <2>1 DEF MInv, PageHolds, TaskHolds
    <3> QED
      BY Zenon, <2>1, <3>1, <3>2 DEF MInv
  <2> QED
    BY <2>1, <2>2, Quiet
<1>2. ASSUME NEW c \in Clients, Flush(c) \/ ChangeCode(c) \/ leave_form(c)
      PROVE  MInv' /\ EventsFinal /\ EditsShown
  BY Zenon, <1>2, InsertStep, UpdateStep, DeleteStep, ChangeCodeStep, PageStep, Quiet DEF Flush
<1>3. ASSUME NEW c \in Clients, NEW t \in Tables \ Dependents, NEW x \in Ids, open_form(c, t, x)
      PROVE  MInv' /\ EventsFinal /\ EditsShown
  BY <1>3, PageStep, Quiet
<1>4. ASSUME NEW c \in Clients, NEW x \in Ids, DirectoryHandlers(c, x) \/ CatalogueHandlers(c, x)
      PROVE  MInv' /\ EventsFinal /\ EditsShown
  BY <1>4, DirectoryStep, CatalogueStep, Quiet
<1>5. ASSUME NEW t \in Dependents, NEW x \in Ids, OtherHandlers(t, x)
      PROVE  MInv' /\ EventsFinal /\ EditsShown
  BY <1>5, DependentStep
<1> QED
  BY Zenon, <1>1, <1>2, <1>3, <1>4, <1>5 DEF Next

\* An event that close_event has closed stays as it was closed until
\* delete_event: the version turns away an edit that loaded it before.
THEOREM ClosedStaysClosed == Spec => ClosedEventFinal
<1>1. MInv /\ [Next]_vars => [EventsFinal]_vars
  BY MInvNext
<1>2. Spec => [][EventsFinal]_vars
  BY <1>1, MInvInit, MInvNext, PTL DEF Spec
<1> QED
  BY <1>2 DEF ClosedEventFinal, EventsFinal

\* An edit form overwrites the row that it showed, in every table but the
\* units of measure: the form's version and the version the handler loaded
\* cover the time from the page to the flush together.
THEOREM EditsReplaceShown == Spec => EditOverwritesShown
<1>1. MInv /\ [Next]_vars => [EditsShown]_vars
  BY MInvNext
<1>2. Spec => [][EditsShown]_vars
  BY <1>1, MInvInit, MInvNext, PTL DEF Spec
<1> QED
  BY <1>2 DEF EditOverwritesShown, EditsShown

=============================================================================
