-------------------------- MODULE MigrationsProofs --------------------------
(***************************************************************************)
(* What holds of any revision, whatever its statements: the dashboards     *)
(* keep their access, and statements that delete nothing keep all data.    *)
(* The three revisions are lists of such statements.                       *)
(***************************************************************************)
EXTENDS Migrations, TLAPS

-----------------------------------------------------------------------------
(* Statements and databases.                                               *)

Pair(r) == r = <<r[1], r[2]>>

Shaped(x) == x = Table(x.key, x.required, x.optional, x.index, x.refs)

Operations ==
    {"create extension", "create schema", "drop schema", "create table", "drop table",
     "rename table", "rename key", "add column", "drop column", "rename column",
     "create index", "drop index", "create view", "drop view", "grant"}

\* A statement Effect knows.  A relation is renamed within its schema.
Known(s) ==
    /\ s.op \in Operations
    /\ s.op = "create table" => Pair(s.rel) /\ Shaped(s.shape)
    /\ s.op = "rename table" => Pair(s.rel) /\ Pair(s.to) /\ s.rel[1] = s.to[1]

\* A statement that deletes nothing, but for tables of the public schema.
Sparing(s) ==
    /\ Known(s)
    /\ s.op \notin {"drop schema", "drop column"}
    /\ s.op = "drop table" => Pair(s.rel) /\ s.rel[1] = "public"

\* Lists of such statements.
AllKnown(list) == \E S : list \in Seq(S) /\ \A s \in S : Known(s)
AllSparing(list) == \E S : list \in Seq(S) /\ \A s \in S : Sparing(s)

\* A relation is a table or a view, and a table is a table.
Formed(d) ==
    /\ d = [vector |-> d.vector, role |-> d.role, schemas |-> d.schemas, tables |-> d.tables,
            pkeys |-> d.pkeys, views |-> d.views, usage |-> d.usage, readable |-> d.readable,
            defaults |-> d.defaults]
    /\ \A r \in DOMAIN d.tables : Pair(r) /\ Shaped(d.tables[r]) /\ r \notin DOMAIN d.views

\* What the dashboards need of a database on which the grants have run.
Granted(d) ==
    d.usage = TRUE => d.defaults = TRUE /\ Reporters(d) \subseteq d.readable

-----------------------------------------------------------------------------
(* What a statement does to relations and their readers.                   *)

LEMMA DropKeeps ==
    ASSUME NEW d, Formed(d), Granted(d), NEW rels
    PROVE  LET after == DropRelations(d, rels)
           IN  /\ Formed(after) /\ Granted(after)
               /\ after.usage = d.usage /\ after.defaults = d.defaults
<1> DEFINE views == {v \in DOMAIN d.views :
                        v \in rels \/ \E a \in d.views[v] : <<a[1], a[2]>> \in rels}
           tables == [r \in DOMAIN d.tables \ rels |-> Unreferring(d.tables[r], rels)]
           after == DropRelations(d, rels)
<1>1. after = [vector |-> d.vector, role |-> d.role, schemas |-> d.schemas, tables |-> tables,
               pkeys |-> Without(d.pkeys, rels), views |-> Without(d.views, views),
               usage |-> d.usage, readable |-> d.readable \ (rels \cup views),
               defaults |-> d.defaults]
  <2>1. PICK vector, role, schemas, held, pkeys, shown, usage, readable, defaults :
            d = [vector |-> vector, role |-> role, schemas |-> schemas, tables |-> held,
                 pkeys |-> pkeys, views |-> shown, usage |-> usage, readable |-> readable,
                 defaults |-> defaults]
    BY DEF Formed
  <2>2. after = [d EXCEPT !.tables = tables, !.pkeys = Without(@, rels),
                          !.views = Without(@, views), !.readable = @ \ (rels \cup views)]
    BY <2>1 DEF DropRelations
  <2> HIDE DEF tables, views
  <2>3. QED
    BY <2>1, <2>2
<1>2. DOMAIN Without(d.views, views) = DOMAIN d.views \ views
  BY DEF Without, Restrict
<1>3. \A r \in DOMAIN tables : Shaped(tables[r])
  BY DEF Formed, Shaped, Table, Unreferring
<1>4. DOMAIN tables = DOMAIN d.tables \ rels
  OBVIOUS
<1>5. rels \cap DOMAIN d.views \subseteq views
  OBVIOUS
<1>6. views \subseteq DOMAIN d.views
  OBVIOUS
<1> HIDE DEF tables, views
<1>7. Formed(after)
  BY <1>1, <1>2, <1>3, <1>4 DEF Formed
<1>8. Granted(after)
  BY <1>1, <1>2, <1>4, <1>5, <1>6 DEF Formed, Granted, Reporters, Relations
<1>9. QED
  BY <1>1, <1>7, <1>8


\* The form of a record with the fields of a database.
IsRecord(d) ==
    d = [vector |-> d.vector, role |-> d.role, schemas |-> d.schemas, tables |-> d.tables,
         pkeys |-> d.pkeys, views |-> d.views, usage |-> d.usage, readable |-> d.readable,
         defaults |-> d.defaults]

\* A statement that leaves relations and grants alone.
LEMMA SameRelations ==
    ASSUME NEW d, Formed(d), Granted(d), NEW e, IsRecord(e),
           DOMAIN e.tables = DOMAIN d.tables, DOMAIN e.views = DOMAIN d.views,
           \A r \in DOMAIN e.tables : Shaped(e.tables[r]),
           e.usage = d.usage, e.readable = d.readable, e.defaults = d.defaults
    PROVE  Formed(e) /\ Granted(e)
BY DEF Formed, Granted, Reporters, Relations, IsRecord

Plain == {"create extension", "create schema", "rename key"}

LEMMA PlainStatement ==
    ASSUME NEW d, Formed(d), Granted(d), NEW s, s.op \in Plain
    PROVE  Formed(Effect(d, s)) /\ Granted(Effect(d, s))
<1> DEFINE e == Effect(d, s)
<1>1. PICK vector, role, schemas, tables, pkeys, views, usage, readable, defaults :
          d = [vector |-> vector, role |-> role, schemas |-> schemas, tables |-> tables,
               pkeys |-> pkeys, views |-> views, usage |-> usage, readable |-> readable,
               defaults |-> defaults]
  BY DEF Formed
<1>2. /\ IsRecord(e) /\ e.tables = d.tables /\ e.views = d.views
      /\ e.usage = d.usage /\ e.readable = d.readable /\ e.defaults = d.defaults
  <2>1. CASE s.op = "create extension"
    BY <1>1, <2>1 DEF Effect, IsRecord
  <2>2. CASE s.op = "create schema"
    BY <1>1, <2>2 DEF Effect, IsRecord
  <2>3. CASE s.op = "rename key"
    BY <1>1, <2>3 DEF Effect, IsRecord
  <2>4. QED
    BY <2>1, <2>2, <2>3 DEF Plain
<1> HIDE DEF e
<1>3. \A r \in DOMAIN e.tables : Shaped(e.tables[r])
  BY <1>2 DEF Formed
<1>4. QED
  BY <1>2, <1>3, SameRelations DEF e


\* What a statement about a column or an index makes of its table.
Altered(shape, s) ==
    CASE s.op = "add column" -> [shape EXCEPT !.optional = @ \cup {s.column}]
      [] s.op = "drop column" -> [shape EXCEPT !.optional = @ \ {s.column},
                                               !.index = {i \in @ : s.column \notin i}]
      [] s.op = "rename column" -> Renamed(shape, s.column, s.to)
      [] s.op = "create index" -> [shape EXCEPT !.index = @ \cup {s.columns}]
      [] s.op = "drop index" -> [shape EXCEPT !.index = @ \ {s.columns}]

Alterations == {"add column", "drop column", "rename column", "create index", "drop index"}

LEMMA AlteredShaped ==
    ASSUME NEW shape, Shaped(shape), NEW s, s.op \in Alterations
    PROVE  Shaped(Altered(shape, s))
<1>1. PICK key, required, optional, index, refs :
          shape = Table(key, required, optional, index, refs)
  BY DEF Shaped
<1>2. CASE s.op = "rename column"
  BY <1>2 DEF Altered, Shaped, Renamed, Table
<1>3. CASE s.op = "add column"
  BY <1>1, <1>3 DEF Altered, Shaped, Table
<1>4. CASE s.op = "drop column"
  BY <1>1, <1>4 DEF Altered, Shaped, Table
<1>5. CASE s.op \in {"create index", "drop index"}
  BY <1>1, <1>5 DEF Altered, Shaped, Table
<1>6. QED
  BY <1>2, <1>3, <1>4, <1>5 DEF Alterations

LEMMA ReferringShaped ==
    ASSUME NEW shape, Shaped(shape), NEW refs
    PROVE  /\ Shaped([shape EXCEPT !.refs = refs])
           /\ Columns([shape EXCEPT !.refs = refs]) = Columns(shape)
<1>1. PICK key, required, optional, index, old :
          shape = [key |-> key, required |-> required, optional |-> optional,
                   index |-> index, refs |-> old]
  BY DEF Shaped, Table
<1>2. [shape EXCEPT !.refs = refs] =
          [key |-> key, required |-> required, optional |-> optional,
           index |-> index, refs |-> refs]
  BY <1>1
<1>3. QED
  BY <1>1, <1>2 DEF Shaped, Table, Columns

\* Such a statement changes one table, and nothing about relations.
LEMMA AlterEffect ==
    ASSUME NEW d, Formed(d), NEW s, s.op \in Alterations
    PROVE  LET e == Effect(d, s)
           IN  /\ IsRecord(e)
               /\ e.tables = [d.tables EXCEPT ![s.rel] = Altered(d.tables[s.rel], s)]
               /\ DOMAIN e.views = DOMAIN d.views
               /\ e.usage = d.usage /\ e.readable = d.readable /\ e.defaults = d.defaults
<1>1. PICK vector, role, schemas, tables, pkeys, views, usage, readable, defaults :
          d = [vector |-> vector, role |-> role, schemas |-> schemas, tables |-> tables,
               pkeys |-> pkeys, views |-> views, usage |-> usage, readable |-> readable,
               defaults |-> defaults]
  BY DEF Formed
<1>2. CASE s.op = "add column"
  BY <1>1, <1>2 DEF Effect, Altered, IsRecord
<1>3. CASE s.op = "drop column"
  BY <1>1, <1>3 DEF Effect, Altered, IsRecord
<1>4. CASE s.op = "rename column"
  BY <1>1, <1>4 DEF Effect, Altered, IsRecord, Reading
<1>5. CASE s.op = "create index"
  BY <1>1, <1>5 DEF Effect, Altered, IsRecord
<1>6. CASE s.op = "drop index"
  BY <1>1, <1>6 DEF Effect, Altered, IsRecord
<1>7. QED
  BY <1>2, <1>3, <1>4, <1>5, <1>6 DEF Alterations

LEMMA AlterStatement ==
    ASSUME NEW d, Formed(d), Granted(d), NEW s, s.op \in Alterations
    PROVE  Formed(Effect(d, s)) /\ Granted(Effect(d, s))
<1> DEFINE e == Effect(d, s)
<1>1. /\ IsRecord(e)
      /\ e.tables = [d.tables EXCEPT ![s.rel] = Altered(d.tables[s.rel], s)]
      /\ DOMAIN e.views = DOMAIN d.views
      /\ e.usage = d.usage /\ e.readable = d.readable /\ e.defaults = d.defaults
  BY AlterEffect
<1> HIDE DEF e
<1>2. \A r \in DOMAIN d.tables : Shaped(Altered(d.tables[r], s))
  BY AlteredShaped DEF Formed
<1>3. \A r \in DOMAIN e.tables : Shaped(e.tables[r])
  BY <1>1, <1>2 DEF Formed
<1>4. QED
  BY <1>1, <1>3, SameRelations DEF e


LEMMA CreateTableStatement ==
    ASSUME NEW d, Formed(d), Granted(d), NEW s, s.op = "create table", Known(s), Legal(d, s)
    PROVE  Formed(Effect(d, s)) /\ Granted(Effect(d, s))
<1> DEFINE e == Effect(d, s)
<1>1. PICK vector, role, schemas, tables, pkeys, views, usage, readable, defaults :
          d = [vector |-> vector, role |-> role, schemas |-> schemas, tables |-> tables,
               pkeys |-> pkeys, views |-> views, usage |-> usage, readable |-> readable,
               defaults |-> defaults]
  BY DEF Formed
<1>2. /\ IsRecord(e) /\ e.tables = With(d.tables, s.rel, s.shape) /\ e.views = d.views
      /\ e.usage = d.usage /\ e.defaults = d.defaults
      /\ e.readable = IF s.rel[1] = "reporting" /\ d.defaults
                        THEN d.readable \cup {s.rel} ELSE d.readable
  BY <1>1 DEF Effect, Published, IsRecord
<1>3. Pair(s.rel) /\ Shaped(s.shape) /\ s.rel \notin DOMAIN d.tables \cup DOMAIN d.views
  BY DEF Known, Legal, Relations
<1>4. /\ DOMAIN e.tables = DOMAIN d.tables \cup {s.rel}
      /\ \A r \in DOMAIN d.tables : e.tables[r] = d.tables[r]
      /\ e.tables[s.rel] = s.shape
  BY <1>2, <1>3 DEF With
<1> HIDE DEF e
<1>5. Formed(e)
  BY <1>2, <1>3, <1>4 DEF Formed, IsRecord
<1>6. Granted(e)
  BY <1>2, <1>4 DEF Granted, Reporters, Relations
<1>7. QED
  BY <1>5, <1>6 DEF e

LEMMA CreateViewStatement ==
    ASSUME NEW d, Formed(d), Granted(d), NEW s, s.op = "create view", Legal(d, s)
    PROVE  Formed(Effect(d, s)) /\ Granted(Effect(d, s))
<1> DEFINE e == Effect(d, s)
<1>1. PICK vector, role, schemas, tables, pkeys, views, usage, readable, defaults :
          d = [vector |-> vector, role |-> role, schemas |-> schemas, tables |-> tables,
               pkeys |-> pkeys, views |-> views, usage |-> usage, readable |-> readable,
               defaults |-> defaults]
  BY DEF Formed
<1>2. /\ IsRecord(e) /\ e.tables = d.tables /\ e.views = With(d.views, s.rel, s.reads)
      /\ e.usage = d.usage /\ e.defaults = d.defaults
      /\ e.readable = IF s.rel[1] = "reporting" /\ d.defaults
                        THEN d.readable \cup {s.rel} ELSE d.readable
  BY <1>1 DEF Effect, Published, IsRecord
<1>3. s.rel \notin DOMAIN d.tables \cup DOMAIN d.views
  BY DEF Legal, Relations
<1>4. DOMAIN e.views = DOMAIN d.views \cup {s.rel}
  BY <1>2 DEF With
<1> HIDE DEF e
<1>5. Formed(e)
  BY <1>2, <1>3, <1>4 DEF Formed, IsRecord
<1>6. Granted(e)
  BY <1>2, <1>4 DEF Granted, Reporters, Relations
<1>7. QED
  BY <1>5, <1>6 DEF e

LEMMA DropViewStatement ==
    ASSUME NEW d, Formed(d), Granted(d), NEW s, s.op = "drop view", Legal(d, s)
    PROVE  Formed(Effect(d, s)) /\ Granted(Effect(d, s))
<1> DEFINE e == Effect(d, s)
<1>1. PICK vector, role, schemas, tables, pkeys, views, usage, readable, defaults :
          d = [vector |-> vector, role |-> role, schemas |-> schemas, tables |-> tables,
               pkeys |-> pkeys, views |-> views, usage |-> usage, readable |-> readable,
               defaults |-> defaults]
  BY DEF Formed
<1>2. /\ IsRecord(e) /\ e.tables = d.tables /\ e.views = Without(d.views, {s.rel})
      /\ e.usage = d.usage /\ e.defaults = d.defaults
      /\ e.readable = d.readable \ {s.rel}
  BY <1>1 DEF Effect, IsRecord
<1>3. s.rel \in DOMAIN d.views
  BY DEF Legal
<1>4. DOMAIN e.views = DOMAIN d.views \ {s.rel}
  BY <1>2 DEF Without, Restrict
<1> HIDE DEF e
<1>5. Formed(e)
  BY <1>2, <1>4 DEF Formed, IsRecord
<1>6. Granted(e)
  BY <1>2, <1>3, <1>4 DEF Granted, Reporters, Relations, Formed
<1>7. QED
  BY <1>5, <1>6 DEF e

LEMMA GrantStatement ==
    ASSUME NEW d, Formed(d), Granted(d), NEW s, s.op = "grant"
    PROVE  Formed(Effect(d, s)) /\ Granted(Effect(d, s))
<1> DEFINE e == Grant(d)
<1>1. PICK vector, role, schemas, tables, pkeys, views, usage, readable, defaults :
          d = [vector |-> vector, role |-> role, schemas |-> schemas, tables |-> tables,
               pkeys |-> pkeys, views |-> views, usage |-> usage, readable |-> readable,
               defaults |-> defaults]
  BY DEF Formed
<1>2. /\ IsRecord(e) /\ e.tables = d.tables /\ e.views = d.views
      /\ e.defaults = TRUE /\ e.readable = Reporters(d)
  <2>1. PICK all : all = Reporters(d)
    OBVIOUS
  <2>2. e = [d EXCEPT !.usage = TRUE, !.readable = all, !.defaults = TRUE]
    BY <2>1 DEF Grant
  <2> HIDE DEF e
  <2>3. e = [vector |-> vector, role |-> role, schemas |-> schemas, tables |-> tables,
             pkeys |-> pkeys, views |-> views, usage |-> TRUE, readable |-> all,
             defaults |-> TRUE]
    BY <1>1, <2>2
  <2>4. QED
    BY <1>1, <2>1, <2>3 DEF IsRecord
<1>3. Effect(d, s) = IF d.role THEN e ELSE d
  BY DEF Effect
<1> HIDE DEF e
<1>4. Formed(e)
  BY <1>2 DEF Formed, IsRecord
<1>5. Granted(e)
  BY <1>2 DEF Granted, Reporters, Relations
<1>6. QED
  BY <1>3, <1>4, <1>5


LEMMA DropTableStatement ==
    ASSUME NEW d, Formed(d), Granted(d), NEW s, s.op = "drop table"
    PROVE  Formed(Effect(d, s)) /\ Granted(Effect(d, s))
<1>1. Effect(d, s) = DropRelations(d, {s.rel})
  BY DEF Effect
<1>2. QED
  BY <1>1, DropKeeps

LEMMA DropSchemaStatement ==
    ASSUME NEW d, Formed(d), Granted(d), NEW s, s.op = "drop schema"
    PROVE  Formed(Effect(d, s)) /\ Granted(Effect(d, s))
<1>1. PICK rels : rels = {r \in Relations(d) : r[1] = s.schema}
  OBVIOUS
<1>2. PICK dropped : dropped = DropRelations(d, rels)
  OBVIOUS
<1>3. Formed(dropped) /\ Granted(dropped)
  BY <1>2, DropKeeps
<1> DEFINE e == Effect(d, s)
<1>4. e = [dropped EXCEPT !.schemas = @ \ {s.schema},
                          !.usage = @ /\ s.schema # "reporting",
                          !.defaults = @ /\ s.schema # "reporting"]
  BY <1>1, <1>2 DEF Effect
<1>5. PICK vector, role, schemas, tables, pkeys, views, usage, readable, defaults :
          dropped = [vector |-> vector, role |-> role, schemas |-> schemas, tables |-> tables,
                     pkeys |-> pkeys, views |-> views, usage |-> usage, readable |-> readable,
                     defaults |-> defaults]
  BY <1>3 DEF Formed
<1> HIDE DEF e
<1>6. e = [vector |-> vector, role |-> role, schemas |-> schemas \ {s.schema},
           tables |-> tables, pkeys |-> pkeys, views |-> views,
           usage |-> (usage /\ s.schema # "reporting"), readable |-> readable,
           defaults |-> (defaults /\ s.schema # "reporting")]
  BY <1>4, <1>5
<1>7. /\ IsRecord(e) /\ e.tables = tables /\ e.views = views /\ e.readable = readable
      /\ e.usage = (usage /\ s.schema # "reporting")
      /\ e.defaults = (defaults /\ s.schema # "reporting")
  BY <1>6 DEF IsRecord
<1>8. Formed(e)
  BY <1>3, <1>5, <1>7 DEF Formed, IsRecord
<1>9. Granted(e)
  BY <1>3, <1>5, <1>7 DEF Granted, Reporters, Relations
<1>10. QED
  BY <1>8, <1>9 DEF e

LEMMA RenameTableStatement ==
    ASSUME NEW d, Formed(d), Granted(d), NEW s, s.op = "rename table", Known(s), Legal(d, s)
    PROVE  Formed(Effect(d, s)) /\ Granted(Effect(d, s))
<1> DEFINE e == Effect(d, s)
           moved == Moved(d.tables, s.rel, s.to)
<1>1. PICK vector, role, schemas, tables, pkeys, views, usage, readable, defaults :
          d = [vector |-> vector, role |-> role, schemas |-> schemas, tables |-> tables,
               pkeys |-> pkeys, views |-> views, usage |-> usage, readable |-> readable,
               defaults |-> defaults]
  BY DEF Formed
<1>2. /\ IsRecord(e) /\ e.tables = Referring(moved, s.rel, s.to)
      /\ e.views = Reading(d.views, s)
      /\ e.usage = d.usage /\ e.defaults = d.defaults
      /\ e.readable = Subst(d.readable, s.rel, s.to)
  BY <1>1 DEF Effect, IsRecord
<1>3. /\ s.rel \in DOMAIN d.tables /\ s.to \notin DOMAIN d.tables \cup DOMAIN d.views
      /\ Pair(s.to) /\ s.rel[1] = s.to[1]
  BY DEF Legal, Relations, Known
<1>4. /\ DOMAIN moved = (DOMAIN d.tables \ {s.rel}) \cup {s.to}
      /\ \A r \in DOMAIN d.tables \ {s.rel} : moved[r] = d.tables[r]
      /\ moved[s.to] = d.tables[s.rel]
  BY <1>3 DEF Moved, With, Without, Restrict
<1> HIDE DEF e, moved
<1>5. \A r \in DOMAIN moved : Shaped(moved[r])
  BY <1>3, <1>4 DEF Formed
<1>6. /\ DOMAIN e.tables = DOMAIN moved
      /\ \A r \in DOMAIN e.tables : Shaped(e.tables[r])
  <2>1. ASSUME NEW shape, Shaped(shape), NEW x, NEW y
        PROVE  Shaped([shape EXCEPT !.refs = Subst(@, x, y)])
    BY <2>1, ReferringShaped
  <2>2. \A r \in DOMAIN moved : Shaped([moved[r] EXCEPT !.refs = Subst(@, s.rel, s.to)])
    BY <1>5, <2>1
  <2>3. e.tables = [r \in DOMAIN moved |-> [moved[r] EXCEPT !.refs = Subst(@, s.rel, s.to)]]
    BY <1>2 DEF Referring
  <2>4. QED
    BY <2>2, <2>3
<1>7. DOMAIN e.views = DOMAIN d.views
  BY <1>2 DEF Reading
<1>8. Formed(e)
  BY <1>2, <1>3, <1>4, <1>6, <1>7 DEF Formed, IsRecord
<1>9. Granted(e)
  <2>1. Relations(e) = (Relations(d) \ {s.rel}) \cup {s.to}
    BY <1>3, <1>4, <1>6, <1>7 DEF Relations, Formed
  <2>2. s.to \in Reporters(e) => s.rel \in Reporters(d)
    BY <1>3 DEF Reporters, Relations
  <2>3. \A r \in Reporters(e) : r = s.to \/ (r \in Reporters(d) /\ r # s.rel)
    BY <2>1 DEF Reporters
  <2>4. \A r \in d.readable : r # s.rel => r \in e.readable
    BY <1>2 DEF Subst
  <2>5. s.rel \in d.readable => s.to \in e.readable
    BY <1>2 DEF Subst
  <2>6. QED
    BY <1>2, <2>2, <2>3, <2>4, <2>5 DEF Granted
<1>10. QED
  BY <1>8, <1>9 DEF e

\* Whatever a revision executes, a table or a view of the reporting schema can be
\* read by the dashboards afterwards, if all could before (revision 0002, the grants
\* and the default privileges).
THEOREM StatementKeepsReaders ==
    ASSUME NEW d, Formed(d), Granted(d), NEW s, Known(s), Legal(d, s)
    PROVE  Formed(Effect(d, s)) /\ Granted(Effect(d, s))
<1>1. CASE s.op \in Plain
  BY <1>1, PlainStatement
<1>2. CASE s.op \in Alterations
  BY <1>2, AlterStatement
<1>3. CASE s.op = "create table"
  BY <1>3, CreateTableStatement
<1>4. CASE s.op = "rename table"
  BY <1>4, RenameTableStatement
<1>5. CASE s.op = "create view"
  BY <1>5, CreateViewStatement
<1>6. CASE s.op = "drop view"
  BY <1>6, DropViewStatement
<1>7. CASE s.op = "drop table"
  BY <1>7, DropTableStatement
<1>8. CASE s.op = "drop schema"
  BY <1>8, DropSchemaStatement
<1>9. CASE s.op = "grant"
  BY <1>9, GrantStatement
<1>10. QED
  BY <1>1, <1>2, <1>3, <1>4, <1>5, <1>6, <1>7, <1>8, <1>9 DEF Known, Operations, Alterations, Plain


-----------------------------------------------------------------------------
(* The statements of the revisions.                                        *)

LEMMA SparingKnown ==
    ASSUME NEW list, AllSparing(list)
    PROVE  AllKnown(list)
BY DEF AllSparing, AllKnown, Sparing

LEMMA ListKnown ==
    ASSUME NEW n \in Nat, NEW list, list = [i \in 1..n |-> list[i]],
           \A i \in 1..n : Known(list[i])
    PROVE  AllKnown(list)
<1> DEFINE S == {list[i] : i \in 1..n}
<1>1. list \in [1..n -> S]
  OBVIOUS
<1>2. list \in Seq(S)
  BY <1>1
<1>3. \A s \in S : Known(s)
  OBVIOUS
<1> HIDE DEF S
<1>4. QED
  BY <1>2, <1>3 DEF AllKnown

LEMMA ListSparing ==
    ASSUME NEW n \in Nat, NEW list, list = [i \in 1..n |-> list[i]],
           \A i \in 1..n : Sparing(list[i])
    PROVE  AllSparing(list)
<1> DEFINE S == {list[i] : i \in 1..n}
<1>1. list \in [1..n -> S]
  OBVIOUS
<1>2. list \in Seq(S)
  BY <1>1
<1>3. \A s \in S : Sparing(s)
  OBVIOUS
<1> HIDE DEF S
<1>4. QED
  BY <1>2, <1>3 DEF AllSparing

LEMMA ConcatKnown ==
    ASSUME NEW a, NEW b, AllKnown(a), AllKnown(b)
    PROVE  AllKnown(a \o b)
<1>1. PICK S : a \in Seq(S) /\ \A s \in S : Known(s)
  BY DEF AllKnown
<1>2. PICK T : b \in Seq(T) /\ \A s \in T : Known(s)
  BY DEF AllKnown
<1>3. a \in Seq(S \cup T) /\ b \in Seq(S \cup T)
  BY <1>1, <1>2
<1>4. a \o b \in Seq(S \cup T)
  BY <1>3
<1>5. QED
  BY <1>1, <1>2, <1>4 DEF AllKnown

LEMMA ConcatSparing ==
    ASSUME NEW a, NEW b, AllSparing(a), AllSparing(b)
    PROVE  AllSparing(a \o b)
<1>1. PICK S : a \in Seq(S) /\ \A s \in S : Sparing(s)
  BY DEF AllSparing
<1>2. PICK T : b \in Seq(T) /\ \A s \in T : Sparing(s)
  BY DEF AllSparing
<1>3. a \in Seq(S \cup T) /\ b \in Seq(S \cup T)
  BY <1>1, <1>2
<1>4. a \o b \in Seq(S \cup T)
  BY <1>3
<1>5. QED
  BY <1>1, <1>2, <1>4 DEF AllSparing

LEMMA CreateTableSparing ==
    ASSUME NEW s, NEW t, NEW key, NEW required, NEW optional, NEW index, NEW refs
    PROVE  Sparing(CreateTable(s, t, Table(key, required, optional, index, refs)))
BY DEF Sparing, Known, Operations, CreateTable, Pair, Shaped, Table

LEMMA OtherSparing ==
    ASSUME NEW s, NEW t, NEW u, NEW c, NEW reads
    PROVE  /\ Sparing(CreateSchema(s))
           /\ Sparing(RenameTable(s, t, u))
           /\ Sparing(RenameKey(s, t, u))
           /\ Sparing(AddColumn(s, t, c))
           /\ Sparing(RenameColumn(s, t, c, u))
           /\ Sparing(CreateIndex(s, t, c))
           /\ Sparing(CreateView(t, reads))
           /\ Sparing(DropView(t))
           /\ Sparing(DropTable("public", t))
BY DEF Sparing, Known, Operations, Pair, CreateSchema, RenameTable, RenameKey, AddColumn,
       RenameColumn, CreateIndex, CreateView, DropView, DropTable

LEMMA OpsTables3Sparing == AllSparing(OpsTables3)
<1>1. \A i \in 1..3 : Sparing(OpsTables3[i])
  BY CreateTableSparing DEF OpsTables3
<1>2. OpsTables3 = [i \in 1..3 |-> OpsTables3[i]]
  BY DEF OpsTables3
<1>3. QED
  BY <1>1, <1>2, ListSparing

LEMMA Renames3Sparing == AllSparing(Renames3)
<1>1. \A i \in 1..8 : Sparing(Renames3[i])
  BY OtherSparing DEF Renames3, KbStatus
<1>2. Renames3 = [i \in 1..8 |-> Renames3[i]]
  BY DEF Renames3
<1>3. QED
  BY <1>1, <1>2, ListSparing

LEMMA OpsTables1Sparing == AllSparing(OpsTables1)
<1>1. \A i \in 1..5 : Sparing(OpsTables1[i])
  BY CreateTableSparing DEF OpsTables1
<1>2. OpsTables1 = [i \in 1..5 |-> OpsTables1[i]]
  BY DEF OpsTables1
<1>3. QED
  BY <1>1, <1>2, ListSparing

LEMMA RegistryTables1Sparing == AllSparing(RegistryTables1)
<1>1. \A i \in 1..4 : Sparing(RegistryTables1[i])
  BY CreateTableSparing DEF RegistryTables1
<1>2. RegistryTables1 = [i \in 1..4 |-> RegistryTables1[i]]
  BY DEF RegistryTables1
<1>3. QED
  BY <1>1, <1>2, ListSparing

LEMMA ReferencingTables1Sparing == AllSparing(ReferencingTables1)
<1>1. \A i \in 1..3 : Sparing(ReferencingTables1[i])
  BY CreateTableSparing DEF ReferencingTables1
<1>2. ReferencingTables1 = [i \in 1..3 |-> ReferencingTables1[i]]
  BY DEF ReferencingTables1
<1>3. QED
  BY <1>1, <1>2, ListSparing

LEMMA ServingTables1Sparing == AllSparing(ServingTables1)
<1>1. \A i \in 1..2 : Sparing(ServingTables1[i])
  BY CreateTableSparing DEF ServingTables1
<1>2. ServingTables1 = [i \in 1..2 |-> ServingTables1[i]]
  BY DEF ServingTables1
<1>3. QED
  BY <1>1, <1>2, ListSparing

LEMMA IngestTables3Sparing == AllSparing(IngestTables3)
<1>1. \A i \in 1..4 : Sparing(IngestTables3[i])
  BY CreateTableSparing DEF IngestTables3
<1>2. IngestTables3 = [i \in 1..4 |-> IngestTables3[i]]
  BY DEF IngestTables3
<1>3. QED
  BY <1>1, <1>2, ListSparing

LEMMA EvalTables3Sparing == AllSparing(EvalTables3)
<1>1. \A i \in 1..3 : Sparing(EvalTables3[i])
  BY CreateTableSparing DEF EvalTables3
<1>2. EvalTables3 = [i \in 1..3 |-> EvalTables3[i]]
  BY DEF EvalTables3
<1>3. QED
  BY <1>1, <1>2, ListSparing

LEMMA FtTables3Sparing == AllSparing(FtTables3)
<1>1. \A i \in 1..2 : Sparing(FtTables3[i])
  BY CreateTableSparing DEF FtTables3
<1>2. FtTables3 = [i \in 1..2 |-> FtTables3[i]]
  BY DEF FtTables3
<1>3. QED
  BY <1>1, <1>2, ListSparing

LEMMA DailyViews2Sparing == AllSparing(DailyViews2)
<1>1. \A i \in 1..3 : Sparing(DailyViews2[i])
  BY OtherSparing DEF DailyViews2
<1>2. DailyViews2 = [i \in 1..3 |-> DailyViews2[i]]
  BY DEF DailyViews2
<1>3. QED
  BY <1>1, <1>2, ListSparing

LEMMA ConversationColumnSparing == AllSparing(ConversationColumn)
<1>1. \A i \in 1..2 : Sparing(ConversationColumn[i])
  BY OtherSparing DEF ConversationColumn
<1>2. ConversationColumn = [i \in 1..2 |-> ConversationColumn[i]]
  BY DEF ConversationColumn
<1>3. QED
  BY <1>1, <1>2, ListSparing

LEMMA DropIcebergSparing == AllSparing(DropIceberg)
<1>1. \A i \in 1..2 : Sparing(DropIceberg[i])
  BY OtherSparing DEF DropIceberg
<1>2. DropIceberg = [i \in 1..2 |-> DropIceberg[i]]
  BY DEF DropIceberg
<1>3. QED
  BY <1>1, <1>2, ListSparing


LEMMA SchemasSparing ==
    /\ AllSparing(Each(CreateSchema, Schemas1))
    /\ AllSparing(Each(CreateSchema, Schemas3))
<1>1. ASSUME NEW list, DOMAIN list = 1..3
      PROVE  AllSparing(Each(CreateSchema, list))
  <2>1. PICK each : each = Each(CreateSchema, list)
    OBVIOUS
  <2>2. each = [i \in 1..3 |-> CreateSchema(list[i])]
    BY <1>1, <2>1 DEF Each
  <2>3. \A i \in 1..3 : Sparing(each[i])
    BY <2>2, OtherSparing
  <2>4. each = [i \in 1..3 |-> each[i]]
    BY <2>2
  <2>5. QED
    BY <2>1, <2>3, <2>4, ListSparing
<1>2. DOMAIN Schemas1 = 1..3 /\ DOMAIN Schemas3 = 1..3
  BY DEF Schemas1, Schemas3
<1>3. QED
  BY <1>1, <1>2

LEMMA SchemasKnown ==
    /\ AllKnown(Each(DropSchema, Schemas1))
    /\ AllKnown(Each(DropSchema, Schemas3))
<1>1. ASSUME NEW list, DOMAIN list = 1..3
      PROVE  AllKnown(Each(DropSchema, list))
  <2>1. PICK each : each = Each(DropSchema, list)
    OBVIOUS
  <2>2. each = [i \in 1..3 |-> DropSchema(list[i])]
    BY <1>1, <2>1 DEF Each
  <2>3. \A i \in 1..3 : Known(each[i])
    BY <2>2 DEF Known, Operations, DropSchema
  <2>4. each = [i \in 1..3 |-> each[i]]
    BY <2>2
  <2>5. QED
    BY <2>1, <2>3, <2>4, ListKnown
<1>2. DOMAIN Schemas1 = 1..3 /\ DOMAIN Schemas3 = 1..3
  BY DEF Schemas1, Schemas3
<1>3. QED
  BY <1>1, <1>2

LEMMA FewSparing ==
    /\ AllSparing(<<[op |-> "create extension"]>>)
    /\ AllSparing(<<CreateSchema("reporting"), RagasSummary2>>)
    /\ AllSparing(<<CorpusStatus, [op |-> "grant"]>>)
<1>1. ASSUME NEW s, Sparing(s) PROVE AllSparing(<<s>>)
  <2>1. PICK S : S = {s}
    OBVIOUS
  <2>2. <<s>> \in Seq(S) /\ \A r \in S : Sparing(r)
    BY <1>1, <2>1
  <2>3. QED
    BY <2>2 DEF AllSparing
<1>2. ASSUME NEW s, NEW t, Sparing(s), Sparing(t) PROVE AllSparing(<<s, t>>)
  <2>1. PICK S : S = {s, t}
    OBVIOUS
  <2>2. <<s, t>> \in Seq(S) /\ \A r \in S : Sparing(r)
    BY <1>2, <2>1
  <2>3. QED
    BY <2>2 DEF AllSparing
<1>3. Sparing([op |-> "create extension"]) /\ Sparing([op |-> "grant"])
  BY DEF Sparing, Known, Operations
<1>4. Sparing(CreateSchema("reporting")) /\ Sparing(CorpusStatus)
  BY OtherSparing DEF CorpusStatus
<1>5. Sparing(RagasSummary2)
  BY CreateTableSparing DEF RagasSummary2
<1>6. QED
  BY <1>1, <1>2, <1>3, <1>4, <1>5

LEMMA UpgradesSparing == AllSparing(Upgrade1) /\ AllSparing(Upgrade2) /\ AllSparing(Upgrade3)
<1>1. AllSparing(Upgrade1)
  BY FewSparing, SchemasSparing, OpsTables1Sparing, RegistryTables1Sparing,
     ReferencingTables1Sparing, ServingTables1Sparing, ConcatSparing DEF Upgrade1
<1>2. AllSparing(Upgrade2)
  BY FewSparing, DailyViews2Sparing, ConcatSparing DEF Upgrade2
<1>3. AllSparing(Upgrade3)
  BY Renames3Sparing, SchemasSparing, ConversationColumnSparing, OpsTables3Sparing,
     IngestTables3Sparing, EvalTables3Sparing, FtTables3Sparing, DropIcebergSparing,
     ConcatSparing DEF Upgrade3
<1>4. QED
  BY <1>1, <1>2, <1>3

LEMMA DropKnown ==
    ASSUME NEW s, NEW t, NEW c
    PROVE  /\ Known(DropSchema(s)) /\ Known(DropTable(s, t))
           /\ Known(DropColumn(s, t, c)) /\ Known(DropIndex(s, t, c))
BY DEF Known, Operations, DropSchema, DropTable, DropColumn, DropIndex

LEMMA DowngradesKnown == AllKnown(Downgrade1) /\ AllKnown(Downgrade2) /\ AllKnown(Downgrade3)
<1>1. AllKnown(DropOpsTables3)
  <2>1. \A i \in 1..5 : Known(DropOpsTables3[i])
    BY DropKnown DEF DropOpsTables3
  <2>2. DropOpsTables3 = [i \in 1..5 |-> DropOpsTables3[i]]
    BY DEF DropOpsTables3
  <2>3. QED
    BY <2>1, <2>2, ListKnown
<1>2. AllKnown(RestoreNames)
  <2>1. \A i \in 1..8 : Sparing(RestoreNames[i])
    BY OtherSparing DEF RestoreNames, CorpusStatus
  <2>2. RestoreNames = [i \in 1..8 |-> RestoreNames[i]]
    BY DEF RestoreNames
  <2>3. QED
    BY <2>1, <2>2, ListSparing, SparingKnown
<1>3. AllKnown(Downgrade2)
  <2>1. \A i \in 1..1 : Known(Downgrade2[i])
    BY DropKnown DEF Downgrade2
  <2>2. Downgrade2 = [i \in 1..1 |-> Downgrade2[i]]
    BY DEF Downgrade2
  <2>3. QED
    BY <2>1, <2>2, ListKnown
<1>4. QED
  BY <1>1, <1>2, <1>3, SchemasKnown, ConcatKnown DEF Downgrade1, Downgrade3

\* One transaction runs the statements of up to three revisions.
LEMMA FlattenThree ==
    ASSUME NEW n \in 1..3, NEW lists, lists = [i \in 1..n |-> lists[i]]
    PROVE  /\ n = 1 => FlattenSeq(lists) = lists[1]
           /\ n = 2 => FlattenSeq(lists) = lists[1] \o lists[2]
           /\ n = 3 => FlattenSeq(lists) = (lists[1] \o lists[2]) \o lists[3]
<1> DEFINE Step(f) == [i \in 1..Len(lists) |->
                          IF i = 1 THEN lists[i] ELSE f[i - 1] \o lists[i]]
           joined == [i \in 1..Len(lists) |->
                          IF i = 1 THEN lists[1]
                          ELSE IF i = 2 THEN lists[1] \o lists[2]
                          ELSE (lists[1] \o lists[2]) \o lists[3]]
           flat == CHOOSE f : f = Step(f)
<1>1. Len(lists) = n
  OBVIOUS
<1>2. joined = Step(joined)
  <2>1. \A i \in 1..n : i = 1 \/ i = 2 \/ i = 3
    OBVIOUS
  <2>2. \A i \in 1..n : joined[i] = Step(joined)[i]
    BY <1>1, <2>1
  <2> DEFINE again == Step(joined)
  <2>3. joined = [i \in 1..Len(lists) |-> joined[i]]
    OBVIOUS
  <2>4. again = [i \in 1..Len(lists) |-> again[i]]
    <3> HIDE DEF joined
    <3>1. QED
      OBVIOUS
  <2>5. \A i \in 1..Len(lists) : joined[i] = again[i]
    BY <1>1, <2>2
  <2> HIDE DEF joined, again
  <2>6. QED
    BY <2>3, <2>4, <2>5 DEF again
<1>3. flat = Step(flat)
  <2> HIDE DEF joined
  <2>1. \E f : f = Step(f)
    BY <1>2
  <2>2. QED
    BY <2>1
<1>4. FlattenSeq(lists) = flat[n]
  <2>1. FlattenSeq(lists) = IF Len(lists) = 0 THEN lists ELSE flat[Len(lists)]
    BY Zenon DEF FlattenSeq
  <2> HIDE DEF flat
  <2>2. QED
    BY <1>1, <2>1
<1> HIDE DEF flat
<1>5. \A i \in 1..n : flat[i] = IF i = 1 THEN lists[i] ELSE flat[i - 1] \o lists[i]
  <2>1. PICK again : again = Step(flat)
    OBVIOUS
  <2>2. \A i \in 1..n : again[i] = IF i = 1 THEN lists[i] ELSE flat[i - 1] \o lists[i]
    BY <1>1, <2>1
  <2>3. QED
    BY <1>3, <2>1, <2>2
<1>6. flat[1] = lists[1]
  BY <1>5
<1>7. ASSUME n > 1 PROVE flat[2] = lists[1] \o lists[2]
  <2>1. 2 \in 1..n /\ 2 - 1 = 1 /\ ~ 2 = 1
    BY <1>7
  <2>2. flat[2] = IF 2 = 1 THEN lists[2] ELSE flat[2 - 1] \o lists[2]
    BY <1>5, <2>1, Zenon
  <2>3. QED
    BY <1>6, <2>1, <2>2, Zenon
<1>8. ASSUME n > 2 PROVE flat[3] = (lists[1] \o lists[2]) \o lists[3]
  <2>1. 3 \in 1..n /\ 3 - 1 = 2 /\ ~ 3 = 1 /\ n > 1
    BY <1>8
  <2>2. flat[3] = IF 3 = 1 THEN lists[3] ELSE flat[3 - 1] \o lists[3]
    BY <1>5, <2>1, Zenon
  <2>3. QED
    BY <1>7, <2>1, <2>2, Zenon
<1>9. ASSUME n = 1 PROVE FlattenSeq(lists) = lists[1]
  BY <1>4, <1>6, <1>9, Zenon
<1>10. ASSUME n = 2 PROVE FlattenSeq(lists) = lists[1] \o lists[2]
  <2>1. n > 1
    BY <1>10
  <2>2. QED
    BY <1>4, <1>7, <1>10, <2>1, Zenon
<1>11. ASSUME n = 3 PROVE FlattenSeq(lists) = (lists[1] \o lists[2]) \o lists[3]
  <2>1. n > 2
    BY <1>11
  <2>2. QED
    BY <1>4, <1>8, <1>11, <2>1, Zenon
<1> HIDE DEF Step, joined
<1>12. QED
  BY <1>9, <1>10, <1>11, Zenon

LEMMA UpgradeStatements ==
    ASSUME NEW r \in 0..2
    PROVE  AllSparing(FlattenSeq(SubSeq(Upgrades, r + 1, Newest)))
<1>1. PICK n : n = 3 - r
  OBVIOUS
<1>2. n \in 1..3
  BY <1>1
<1>3. PICK lists : lists = SubSeq(Upgrades, r + 1, Newest)
  OBVIOUS
<1>4. Newest = 3
  BY DEF Newest, Upgrades
<1>5. lists = [i \in 1..n |-> Upgrades[r + i]]
  BY <1>1, <1>3, <1>4 DEF Upgrades
<1>6. lists = [i \in 1..n |-> lists[i]] /\ \A i \in 1..n : lists[i] = Upgrades[r + i]
  BY <1>5
<1>7. \A i \in 1..3 : AllSparing(Upgrades[i])
  BY UpgradesSparing DEF Upgrades
<1>8. \A i \in 1..n : r + i \in 1..3
  BY <1>1
<1>9. \A i \in 1..n : AllSparing(lists[i])
  BY <1>6, <1>7, <1>8
<1>10. AllSparing(FlattenSeq(lists))
  <2>1. CASE n = 1
    BY <1>6, <1>9, <2>1, FlattenThree
  <2>2. CASE n = 2
    <3>1. FlattenSeq(lists) = lists[1] \o lists[2]
      BY <1>2, <1>6, <2>2, FlattenThree, Zenon
    <3>2. AllSparing(lists[1]) /\ AllSparing(lists[2])
      BY <1>9, <2>2
    <3>3. QED
      BY <3>1, <3>2, ConcatSparing
  <2>3. CASE n = 3
    <3>1. FlattenSeq(lists) = (lists[1] \o lists[2]) \o lists[3]
      BY <1>2, <1>6, <2>3, FlattenThree, Zenon
    <3>2. AllSparing(lists[1]) /\ AllSparing(lists[2]) /\ AllSparing(lists[3])
      BY <1>9, <2>3
    <3>3. AllSparing(lists[1] \o lists[2])
      BY <3>2, ConcatSparing
    <3>4. QED
      BY <3>1, <3>2, <3>3, ConcatSparing
  <2>4. QED
    BY <1>2, <2>1, <2>2, <2>3
<1>11. QED
  BY <1>3, <1>10

LEMMA DowngradeStatements ==
    ASSUME NEW r \in 1..3, NEW to \in 0..r - 1
    PROVE  AllKnown(FlattenSeq(Reverse(SubSeq(Downgrades, to + 1, r))))
<1>1. PICK n : n = r - to
  OBVIOUS
<1>2. n \in 1..3
  BY <1>1
<1>3. PICK part : part = SubSeq(Downgrades, to + 1, r)
  OBVIOUS
<1>4. part = [i \in 1..n |-> Downgrades[to + i]]
  BY <1>1, <1>3 DEF Downgrades
<1>5. PICK lists : lists = Reverse(part)
  OBVIOUS
<1>6. lists = [i \in 1..n |-> part[n - i + 1]]
  BY <1>2, <1>4, <1>5 DEF Reverse
<1>7. lists = [i \in 1..n |-> lists[i]]
  BY <1>6
<1>8. \A i \in 1..3 : AllKnown(Downgrades[i])
  BY DowngradesKnown DEF Downgrades
<1>9. \A i \in 1..n : n - i + 1 \in 1..n /\ to + (n - i + 1) \in 1..3
  BY <1>1
<1>10. \A i \in 1..n : lists[i] = Downgrades[to + (n - i + 1)]
  BY <1>4, <1>6, <1>9
<1>11. \A i \in 1..n : AllKnown(lists[i])
  BY <1>8, <1>9, <1>10
<1>12. AllKnown(FlattenSeq(lists))
  <2>1. CASE n = 1
    BY <1>7, <1>11, <2>1, FlattenThree
  <2>2. CASE n = 2
    <3>1. FlattenSeq(lists) = lists[1] \o lists[2]
      BY <1>2, <1>7, <2>2, FlattenThree, Zenon
    <3>2. AllKnown(lists[1]) /\ AllKnown(lists[2])
      BY <1>11, <2>2
    <3>3. QED
      BY <3>1, <3>2, ConcatKnown
  <2>3. CASE n = 3
    <3>1. FlattenSeq(lists) = (lists[1] \o lists[2]) \o lists[3]
      BY <1>2, <1>7, <2>3, FlattenThree, Zenon
    <3>2. AllKnown(lists[1]) /\ AllKnown(lists[2]) /\ AllKnown(lists[3])
      BY <1>11, <2>3
    <3>3. AllKnown(lists[1] \o lists[2])
      BY <3>2, ConcatKnown
    <3>4. QED
      BY <3>1, <3>2, <3>3, ConcatKnown
  <2>4. QED
    BY <1>2, <2>1, <2>2, <2>3
<1>13. QED
  BY <1>3, <1>5, <1>12

-----------------------------------------------------------------------------
(* What a statement does to the data.                                      *)

\* Where each column outside of the public schema is after the statement.
Keeps(d, s, e) ==
    \A a \in Addresses(d) :
        a[1] # "public" => After(s, a) \in Addresses(e) /\ After(s, a)[1] = a[1]

LEMMA AddressOf ==
    ASSUME NEW d, NEW r \in DOMAIN d.tables, NEW c \in Columns(d.tables[r])
    PROVE  <<r[1], r[2], c>> \in Addresses(d)
BY DEF Addresses

LEMMA AddressTable ==
    ASSUME NEW d, NEW a \in Addresses(d)
    PROVE  \E r \in DOMAIN d.tables : \E c \in Columns(d.tables[r]) : a = <<r[1], r[2], c>>
BY DEF Addresses

LEMMA SameTables ==
    ASSUME NEW d, Formed(d), NEW s,
           s.op \in Plain \cup {"create view", "drop view", "grant"}
    PROVE  Keeps(d, s, Effect(d, s))
<1> DEFINE e == Effect(d, s)
<1>1. PICK vector, role, schemas, tables, pkeys, views, usage, readable, defaults :
          d = [vector |-> vector, role |-> role, schemas |-> schemas, tables |-> tables,
               pkeys |-> pkeys, views |-> views, usage |-> usage, readable |-> readable,
               defaults |-> defaults]
  BY DEF Formed
<1>2. e.tables = d.tables
  <2>1. CASE s.op = "create extension"
    BY <1>1, <2>1 DEF Effect
  <2>2. CASE s.op = "create schema"
    BY <1>1, <2>2 DEF Effect
  <2>3. CASE s.op = "rename key"
    BY <1>1, <2>3 DEF Effect
  <2>4. CASE s.op = "create view"
    BY <1>1, <2>4 DEF Effect, Published
  <2>5. CASE s.op = "drop view"
    BY <1>1, <2>5 DEF Effect
  <2>6. CASE s.op = "grant"
    <3>1. PICK all : all = Reporters(d)
      OBVIOUS
    <3>2. Grant(d) = [d EXCEPT !.usage = TRUE, !.readable = all, !.defaults = TRUE]
      BY <3>1 DEF Grant
    <3>3. Grant(d).tables = d.tables
      BY <1>1, <3>2
    <3>4. QED
      BY <2>6, <3>3 DEF Effect
  <2>7. QED
    BY <2>1, <2>2, <2>3, <2>4, <2>5, <2>6 DEF Plain
<1>3. \A a : After(s, a) = a
  BY DEF After, Plain
<1> HIDE DEF e
<1>4. \A a \in Addresses(d) : a \in Addresses(e)
  <2> TAKE a \in Addresses(d)
  <2>1. PICK r \in DOMAIN d.tables : \E c \in Columns(d.tables[r]) : a = <<r[1], r[2], c>>
    BY AddressTable
  <2>2. PICK c \in Columns(d.tables[r]) : a = <<r[1], r[2], c>>
    BY <2>1
  <2>3. r \in DOMAIN e.tables /\ c \in Columns(e.tables[r])
    BY <1>2
  <2>4. <<r[1], r[2], c>> \in Addresses(e)
    BY <2>3, AddressOf
  <2>5. QED
    BY <2>2, <2>4
<1>5. QED
  BY <1>3, <1>4 DEF Keeps, e

LEMMA CreateTableKeeps ==
    ASSUME NEW d, Formed(d), NEW s, s.op = "create table", Legal(d, s)
    PROVE  Keeps(d, s, Effect(d, s))
<1> DEFINE e == Effect(d, s)
<1>1. PICK vector, role, schemas, tables, pkeys, views, usage, readable, defaults :
          d = [vector |-> vector, role |-> role, schemas |-> schemas, tables |-> tables,
               pkeys |-> pkeys, views |-> views, usage |-> usage, readable |-> readable,
               defaults |-> defaults]
  BY DEF Formed
<1>2. e.tables = With(d.tables, s.rel, s.shape)
  BY <1>1 DEF Effect, Published
<1>3. s.rel \notin DOMAIN d.tables
  BY DEF Legal, Relations
<1>4. \A r \in DOMAIN d.tables : r \in DOMAIN e.tables /\ e.tables[r] = d.tables[r]
  BY <1>2, <1>3 DEF With
<1>5. \A a : After(s, a) = a
  BY DEF After
<1> HIDE DEF e
<1>6. \A a \in Addresses(d) : a \in Addresses(e)
  <2> TAKE a \in Addresses(d)
  <2>1. PICK r \in DOMAIN d.tables : \E c \in Columns(d.tables[r]) : a = <<r[1], r[2], c>>
    BY AddressTable
  <2>2. PICK c \in Columns(d.tables[r]) : a = <<r[1], r[2], c>>
    BY <2>1
  <2>3. r \in DOMAIN e.tables /\ c \in Columns(e.tables[r])
    BY <1>4
  <2>4. <<r[1], r[2], c>> \in Addresses(e)
    BY <2>3, AddressOf
  <2>5. QED
    BY <2>2, <2>4
<1>7. QED
  BY <1>5, <1>6 DEF Keeps, e

LEMMA RenamedColumns ==
    ASSUME NEW shape, NEW c, NEW e
    PROVE  Columns(Renamed(shape, c, e)) = Subst(Columns(shape), c, e)
<1>1. PICK renamed : renamed = Renamed(shape, c, e)
  OBVIOUS
<1>2. /\ renamed.key = Subst(shape.key, c, e)
      /\ renamed.required = Subst(shape.required, c, e)
      /\ renamed.optional = Subst(shape.optional, c, e)
  BY <1>1 DEF Renamed, Table
<1>3. QED
  BY <1>1, <1>2 DEF Columns, Subst

LEMMA AlteredColumns ==
    ASSUME NEW shape, Shaped(shape), NEW s,
           s.op \in Alterations, s.op # "drop column", s.op # "rename column"
    PROVE  Columns(shape) \subseteq Columns(Altered(shape, s))
<1>1. PICK key, required, optional, index, refs :
          shape = Table(key, required, optional, index, refs)
  BY DEF Shaped
<1>2. CASE s.op = "add column"
  BY <1>1, <1>2 DEF Altered, Columns, Table
<1>3. CASE s.op = "create index"
  BY <1>1, <1>3 DEF Altered, Columns, Table
<1>4. CASE s.op = "drop index"
  BY <1>1, <1>4 DEF Altered, Columns, Table
<1>5. QED
  BY <1>2, <1>3, <1>4 DEF Alterations

LEMMA AlterKeeps ==
    ASSUME NEW d, Formed(d), NEW s, s.op \in Alterations \ {"drop column"}, Legal(d, s)
    PROVE  Keeps(d, s, Effect(d, s))
<1> DEFINE e == Effect(d, s)
<1>1. e.tables = [d.tables EXCEPT ![s.rel] = Altered(d.tables[s.rel], s)]
  BY AlterEffect
<1>2. ASSUME NEW r \in DOMAIN d.tables, NEW c \in Columns(d.tables[r])
      PROVE  \E f \in Columns(e.tables[r]) : After(s, <<r[1], r[2], c>>) = <<r[1], r[2], f>>
  <2>1. Shaped(d.tables[r])
    BY DEF Formed
  <2>2. Pair(r)
    BY DEF Formed
  <2>3. CASE r # s.rel
    <3>1. e.tables[r] = d.tables[r]
      BY <1>1, <2>3
    <3>2. <<r[1], r[2]>> # s.rel
      BY <2>2, <2>3 DEF Pair
    <3>3. s.op = "rename column" => Pair(s.rel)
      <4>1. s.op = "rename column" => s.rel \in DOMAIN d.tables
        BY DEF Legal
      <4>2. QED
        BY <4>1 DEF Formed
    <3>4. s.op = "rename column" => <<r[1], r[2], c>> # <<s.rel[1], s.rel[2], s.column>>
      BY <3>2, <3>3 DEF Pair
    <3>5. After(s, <<r[1], r[2], c>>) = <<r[1], r[2], c>>
      BY <3>4 DEF After, Alterations
    <3>6. QED
      BY <3>1, <3>5
  <2>4. CASE r = s.rel /\ s.op = "rename column"
    <3>1. e.tables[r] = Renamed(d.tables[r], s.column, s.to)
      BY <1>1, <2>4 DEF Altered
    <3>2. Columns(e.tables[r]) = Subst(Columns(d.tables[r]), s.column, s.to)
      BY <3>1, RenamedColumns
    <3>3. CASE c = s.column
      BY <2>4, <3>2, <3>3 DEF After, Subst
    <3>4. CASE c # s.column
      BY <2>4, <3>2, <3>4 DEF After, Subst
    <3>5. QED
      BY <3>3, <3>4
  <2>5. CASE r = s.rel /\ s.op # "rename column"
    <3>1. e.tables[r] = Altered(d.tables[r], s)
      BY <1>1, <2>5
    <3>2. Columns(d.tables[r]) \subseteq Columns(Altered(d.tables[r], s))
      BY <2>1, <2>5, AlteredColumns
    <3>3. After(s, <<r[1], r[2], c>>) = <<r[1], r[2], c>>
      BY <2>5 DEF After, Alterations
    <3>4. QED
      BY <3>1, <3>2, <3>3
  <2>6. QED
    BY <2>3, <2>4, <2>5
<1>3. DOMAIN e.tables = DOMAIN d.tables
  BY <1>1
<1> HIDE DEF e
<1>4. QED
  <2> SUFFICES ASSUME NEW a \in Addresses(d)
               PROVE  After(s, a) \in Addresses(e) /\ After(s, a)[1] = a[1]
    BY DEF Keeps, e
  <2>1. PICK r \in DOMAIN d.tables : \E c \in Columns(d.tables[r]) : a = <<r[1], r[2], c>>
    BY AddressTable
  <2>2. PICK c \in Columns(d.tables[r]) : a = <<r[1], r[2], c>>
    BY <2>1
  <2>3. PICK f \in Columns(e.tables[r]) : After(s, a) = <<r[1], r[2], f>>
    BY <1>2, <2>2
  <2>4. <<r[1], r[2], f>> \in Addresses(e)
    BY <1>3, AddressOf
  <2>5. a[1] = r[1]
    BY <2>2
  <2>6. PICK b : b = <<r[1], r[2], f>>
    OBVIOUS
  <2>7. b[1] = r[1]
    BY <2>6
  <2>8. QED
    BY <2>3, <2>4, <2>5, <2>6, <2>7

LEMMA DropTableKeeps ==
    ASSUME NEW d, Formed(d), NEW s, s.op = "drop table", Sparing(s)
    PROVE  Keeps(d, s, Effect(d, s))
<1>1. PICK rels : rels = {s.rel}
  OBVIOUS
<1> DEFINE e == DropRelations(d, rels)
           tables == [r \in DOMAIN d.tables \ rels |-> Unreferring(d.tables[r], rels)]
           views == {v \in DOMAIN d.views :
                        v \in rels \/ \E a \in d.views[v] : <<a[1], a[2]>> \in rels}
<1>2. e.tables = tables
  <2>1. PICK vector, role, schemas, held, pkeys, shown, usage, readable, defaults :
            d = [vector |-> vector, role |-> role, schemas |-> schemas, tables |-> held,
                 pkeys |-> pkeys, views |-> shown, usage |-> usage, readable |-> readable,
                 defaults |-> defaults]
    BY DEF Formed
  <2>2. e = [d EXCEPT !.tables = tables, !.pkeys = Without(@, rels),
                      !.views = Without(@, views), !.readable = @ \ (rels \cup views)]
    BY <2>1 DEF DropRelations
  <2> HIDE DEF tables, views, e
  <2>3. QED
    BY <2>1, <2>2
<1>3. \A r \in DOMAIN d.tables \ rels :
          r \in DOMAIN tables /\ Columns(tables[r]) = Columns(d.tables[r])
  <2> TAKE r \in DOMAIN d.tables \ rels
  <2>1. Shaped(d.tables[r])
    BY DEF Formed
  <2>2. tables[r] = [d.tables[r] EXCEPT !.refs = @ \ rels]
    BY DEF Unreferring
  <2> HIDE DEF tables
  <2>3. Columns(tables[r]) = Columns(d.tables[r])
    BY <2>1, <2>2, ReferringShaped
  <2>4. QED
    BY <2>3 DEF tables
<1>4. Effect(d, s) = e
  BY <1>1 DEF Effect
<1>5. \A a : After(s, a) = a
  BY DEF After
<1>6. s.rel[1] = "public"
  BY DEF Sparing
<1> HIDE DEF e, tables
<1>7. QED
  <2> SUFFICES ASSUME NEW a \in Addresses(d), a[1] # "public"
               PROVE  a \in Addresses(e)
    BY <1>4, <1>5 DEF Keeps
  <2>1. PICK r \in DOMAIN d.tables : \E c \in Columns(d.tables[r]) : a = <<r[1], r[2], c>>
    BY AddressTable
  <2>2. PICK c \in Columns(d.tables[r]) : a = <<r[1], r[2], c>>
    BY <2>1
  <2>3. r \notin rels
    BY <1>1, <1>6, <2>2
  <2>4. r \in DOMAIN e.tables /\ c \in Columns(e.tables[r])
    BY <1>2, <1>3, <2>3
  <2>5. QED
    BY <2>2, <2>4, AddressOf

LEMMA RenameTableKeeps ==
    ASSUME NEW d, Formed(d), NEW s, s.op = "rename table", Known(s), Legal(d, s)
    PROVE  Keeps(d, s, Effect(d, s))
<1> DEFINE e == Effect(d, s)
           moved == Moved(d.tables, s.rel, s.to)
<1>1. PICK vector, role, schemas, tables, pkeys, views, usage, readable, defaults :
          d = [vector |-> vector, role |-> role, schemas |-> schemas, tables |-> tables,
               pkeys |-> pkeys, views |-> views, usage |-> usage, readable |-> readable,
               defaults |-> defaults]
  BY DEF Formed
<1>2. e.tables = [r \in DOMAIN moved |-> [moved[r] EXCEPT !.refs = Subst(@, s.rel, s.to)]]
  BY <1>1 DEF Effect, Referring
<1>3. /\ s.rel \in DOMAIN d.tables /\ s.to \notin DOMAIN d.tables
      /\ Pair(s.rel) /\ Pair(s.to) /\ s.rel[1] = s.to[1]
  BY DEF Legal, Relations, Known
<1>4. /\ DOMAIN moved = (DOMAIN d.tables \ {s.rel}) \cup {s.to}
      /\ \A r \in DOMAIN d.tables \ {s.rel} : moved[r] = d.tables[r]
      /\ moved[s.to] = d.tables[s.rel]
  BY <1>3 DEF Moved, With, Without, Restrict
<1> HIDE DEF e, moved
<1>5. \A r \in DOMAIN moved : Shaped(moved[r])
  BY <1>3, <1>4 DEF Formed
<1>6. ASSUME NEW r \in DOMAIN moved
      PROVE  r \in DOMAIN e.tables /\ Columns(e.tables[r]) = Columns(moved[r])
  <2>1. e.tables[r] = [moved[r] EXCEPT !.refs = Subst(@, s.rel, s.to)]
    BY <1>2
  <2>2. Columns(e.tables[r]) = Columns(moved[r])
    BY <1>5, <2>1, ReferringShaped
  <2>3. QED
    BY <1>2, <2>2
<1>7. QED
  <2> SUFFICES ASSUME NEW a \in Addresses(d)
               PROVE  After(s, a) \in Addresses(e) /\ After(s, a)[1] = a[1]
    BY DEF Keeps, e
  <2>1. PICK r \in DOMAIN d.tables : \E c \in Columns(d.tables[r]) : a = <<r[1], r[2], c>>
    BY AddressTable
  <2>2. PICK c \in Columns(d.tables[r]) : a = <<r[1], r[2], c>>
    BY <2>1
  <2>3. Pair(r) /\ a[1] = r[1] /\ a[2] = r[2] /\ a[3] = c
    BY <2>2 DEF Formed
  <2>4. CASE r = s.rel
    <3>1. After(s, a) = <<s.to[1], s.to[2], c>>
      BY <1>3, <2>3, <2>4 DEF After, Pair
    <3>2. s.to \in DOMAIN e.tables /\ c \in Columns(e.tables[s.to])
      BY <1>4, <1>6, <2>4
    <3>3. <<s.to[1], s.to[2], c>> \in Addresses(e)
      BY <3>2, AddressOf
    <3>4. PICK b : b = <<s.to[1], s.to[2], c>>
      OBVIOUS
    <3>5. b[1] = s.to[1]
      BY <3>4
    <3>6. QED
      BY <1>3, <2>3, <2>4, <3>1, <3>3, <3>4, <3>5
  <2>5. CASE r # s.rel
    <3>1. After(s, a) = a
      BY <1>3, <2>3, <2>5 DEF After, Pair
    <3>2. r \in DOMAIN e.tables /\ c \in Columns(e.tables[r])
      BY <1>4, <1>6, <2>5
    <3>3. <<r[1], r[2], c>> \in Addresses(e)
      BY <3>2, AddressOf
    <3>4. QED
      BY <2>2, <3>1, <3>3
  <2>6. QED
    BY <2>4, <2>5

\* Statements that drop no schema, no column and no table outside of the public
\* schema lose no column: each is still there, perhaps under another name.
THEOREM SparingStatementKeepsData ==
    ASSUME NEW d, Formed(d), NEW s, Sparing(s), Legal(d, s)
    PROVE  Keeps(d, s, Effect(d, s))
<1>1. Known(s) /\ s.op \notin {"drop schema", "drop column"}
  BY DEF Sparing
<1>2. CASE s.op \in Plain \cup {"create view", "drop view", "grant"}
  BY <1>2, SameTables
<1>3. CASE s.op = "create table"
  BY <1>3, CreateTableKeeps
<1>4. CASE s.op = "drop table"
  BY <1>4, DropTableKeeps
<1>5. CASE s.op = "rename table"
  BY <1>1, <1>5, RenameTableKeeps
<1>6. CASE s.op \in Alterations
  BY <1>1, <1>6, AlterKeeps
<1>7. QED
  BY <1>1, <1>2, <1>3, <1>4, <1>5, <1>6 DEF Known, Operations, Alterations, Plain

-----------------------------------------------------------------------------
(* The invariant of the runs of alembic.                                    *)

\* All columns of the committed database are still in the one of the transaction.
AllKept ==
    \A a \in Addresses(db) :
        a[1] # "public" => /\ a \in DOMAIN run.kept
                           /\ run.kept[a] \in Addresses(run.db)
                           /\ run.kept[a][1] # "public"

Running ==
    /\ run = [db |-> run.db, todo |-> run.todo, to |-> run.to, kept |-> run.kept]
    /\ run.to \in 0..3
    /\ Formed(run.db) /\ Granted(run.db) /\ AllKnown(run.todo)
    /\ run.to > rev => AllSparing(run.todo) /\ AllKept

MigrationInv ==
    /\ rev \in 0..3 /\ Formed(db) /\ Granted(db)
    /\ run # Idle => Running

LEMMA InitialMigration == Init => MigrationInv
<1> SUFFICES ASSUME Init PROVE MigrationInv
  OBVIOUS
<1>1. PICK role \in BOOLEAN, iceberg \in SUBSET IcebergTables : db = Fresh(role, iceberg)
  BY DEF Init
<1>2. \A r \in iceberg : Pair(r)
  BY DEF IcebergTables, Pair
<1>3. PICK tables, pkeys, views :
          /\ tables = [r \in iceberg |-> IcebergTable]
          /\ pkeys = [r \in iceberg |-> r[2]]
          /\ views = [r \in {} |-> {}]
  OBVIOUS
<1>4. db = [vector |-> FALSE, role |-> role, schemas |-> {"public"}, tables |-> tables,
            pkeys |-> pkeys, views |-> views, usage |-> FALSE, readable |-> {},
            defaults |-> FALSE]
  BY <1>1, <1>3 DEF Fresh
<1>5. Shaped(IcebergTable)
  BY DEF Shaped, IcebergTable, Table
<1>6. Formed(db)
  BY <1>2, <1>3, <1>4, <1>5 DEF Formed
<1>7. Granted(db)
  BY <1>4 DEF Granted
<1>8. QED
  BY <1>6, <1>7 DEF Init, MigrationInv

\* A run begins with the committed database, all of it kept.
LEMMA BeginRuns ==
    ASSUME MigrationInv, NEW statements, NEW to \in 0..3, Begin(statements, to),
           AllKnown(statements), to > rev => AllSparing(statements)
    PROVE  MigrationInv'
<1>1. PICK kept : kept = [a \in Addresses(db) |-> a]
  OBVIOUS
<1>2. /\ run' = [db |-> db, todo |-> statements, to |-> to, kept |-> kept]
      /\ db' = db /\ rev' = rev
  BY <1>1 DEF Begin
<1>3. \A a \in Addresses(db) : a \in DOMAIN kept /\ kept[a] = a
  BY <1>1
<1>4. Running'
  BY <1>2, <1>3 DEF Running, AllKept, MigrationInv
<1>5. QED
  BY <1>2, <1>4 DEF MigrationInv

LEMMA UpgradeRuns == MigrationInv /\ Upgrade => MigrationInv'
<1> SUFFICES ASSUME MigrationInv, Upgrade PROVE MigrationInv'
  OBVIOUS
<1>1. Newest = 3
  BY DEF Newest, Upgrades
<1>2. PICK statements : statements = FlattenSeq(SubSeq(Upgrades, rev + 1, Newest))
  OBVIOUS
<1>3. rev \in 0..2 /\ Begin(statements, 3)
  BY <1>1, <1>2 DEF Upgrade, MigrationInv
<1>4. AllSparing(statements)
  BY <1>2, <1>3, UpgradeStatements
<1>5. AllKnown(statements)
  BY <1>4, SparingKnown
<1>6. QED
  BY <1>3, <1>4, <1>5, BeginRuns

LEMMA DowngradeRuns ==
    ASSUME MigrationInv, NEW to \in 0..rev - 1, Downgrade(to)
    PROVE  MigrationInv'
<1>1. PICK statements : statements = FlattenSeq(Reverse(SubSeq(Downgrades, to + 1, rev)))
  OBVIOUS
<1>2. rev \in 1..3 /\ to \in 0..3 /\ ~ to > rev
  BY DEF MigrationInv
<1>3. AllKnown(statements)
  BY <1>1, <1>2, DowngradeStatements
<1>4. Begin(statements, to)
  BY <1>1 DEF Downgrade
<1>5. QED
  BY <1>2, <1>3, <1>4, BeginRuns

LEMMA HeadTail ==
    ASSUME NEW list, list # <<>>
    PROVE  /\ AllKnown(list) => Known(Head(list)) /\ AllKnown(Tail(list))
           /\ AllSparing(list) => Sparing(Head(list)) /\ AllSparing(Tail(list))
<1>1. ASSUME AllKnown(list) PROVE Known(Head(list)) /\ AllKnown(Tail(list))
  <2>1. PICK S : list \in Seq(S) /\ \A s \in S : Known(s)
    BY <1>1 DEF AllKnown
  <2>2. Head(list) \in S /\ Tail(list) \in Seq(S)
    BY <2>1
  <2>3. QED
    BY <2>1, <2>2 DEF AllKnown
<1>2. ASSUME AllSparing(list) PROVE Sparing(Head(list)) /\ AllSparing(Tail(list))
  <2>1. PICK S : list \in Seq(S) /\ \A s \in S : Sparing(s)
    BY <1>2 DEF AllSparing
  <2>2. Head(list) \in S /\ Tail(list) \in Seq(S)
    BY <2>1
  <2>3. QED
    BY <2>1, <2>2 DEF AllSparing
<1>3. QED
  BY <1>1, <1>2

LEMMA ExecuteRuns == MigrationInv /\ Execute => MigrationInv'
<1> SUFFICES ASSUME MigrationInv, Execute PROVE MigrationInv'
  OBVIOUS
<1>1. PICK s : s = Head(run.todo)
  OBVIOUS
<1>2. PICK d, e : d = run.db /\ e = Effect(d, s)
  OBVIOUS
<1>3. PICK rest, kept, still :
          rest = Tail(run.todo) /\ kept = run.kept /\ still = Surviving(kept, s, e)
  OBVIOUS
<1>4. Running /\ Legal(d, s) /\ db' = db /\ rev' = rev /\ run.todo # <<>>
  BY <1>1, <1>2 DEF Execute, MigrationInv
<1>5. run' = [db |-> e, todo |-> rest, to |-> run.to, kept |-> still]
  <2>1. run' = [run EXCEPT !.db = e, !.todo = rest, !.kept = still]
    BY <1>1, <1>2, <1>3 DEF Execute
  <2>2. PICK a, b, c, k : run = [db |-> a, todo |-> b, to |-> c, kept |-> k]
    BY <1>4 DEF Running
  <2>3. QED
    BY <2>1, <2>2
<1>6. Known(s) /\ AllKnown(rest)
  BY <1>1, <1>3, <1>4, HeadTail DEF Running
<1>7. Formed(d) /\ Granted(d)
  BY <1>2, <1>4 DEF Running
<1>8. Formed(e) /\ Granted(e)
  BY <1>2, <1>4, <1>6, <1>7, StatementKeepsReaders
<1>9. ASSUME run.to > rev
      PROVE  /\ AllSparing(rest)
             /\ \A a \in Addresses(db) :
                    a[1] # "public" => a \in DOMAIN still /\ still[a] \in Addresses(e)
                                           /\ still[a][1] # "public"
  <2>1. AllSparing(run.todo) /\ AllKept
    BY <1>4, <1>9 DEF Running
  <2>2. Sparing(s) /\ AllSparing(rest)
    BY <1>1, <1>3, <1>4, <2>1, HeadTail
  <2>3. Keeps(d, s, e)
    BY <1>2, <1>4, <1>7, <2>2, SparingStatementKeepsData
  <2>4. ASSUME NEW a \in Addresses(db), a[1] # "public"
        PROVE  a \in DOMAIN still /\ still[a] \in Addresses(e) /\ still[a][1] # "public"
    <3>1. a \in DOMAIN kept /\ kept[a] \in Addresses(d) /\ kept[a][1] # "public"
      BY <1>2, <1>3, <2>1, <2>4 DEF AllKept
    <3>2. PICK after : after = After(s, kept[a])
      OBVIOUS
    <3>3. after \in Addresses(e) /\ after[1] = kept[a][1]
      BY <2>3, <3>1, <3>2 DEF Keeps
    <3>4. a \in DOMAIN still /\ still[a] = after
      BY <1>3, <3>1, <3>2, <3>3 DEF Surviving
    <3>5. QED
      BY <3>1, <3>3, <3>4
  <2>5. QED
    BY <2>2, <2>4
<1>10. Running'
  BY <1>4, <1>5, <1>6, <1>8, <1>9 DEF Running, AllKept
<1>11. QED
  BY <1>4, <1>10 DEF MigrationInv

LEMMA ReaderCreated ==
    ASSUME NEW d, Formed(d), Granted(d)
    PROVE  Formed([d EXCEPT !.role = TRUE]) /\ Granted([d EXCEPT !.role = TRUE])
<1>1. PICK vector, role, schemas, tables, pkeys, views, usage, readable, defaults :
          d = [vector |-> vector, role |-> role, schemas |-> schemas, tables |-> tables,
               pkeys |-> pkeys, views |-> views, usage |-> usage, readable |-> readable,
               defaults |-> defaults]
  BY DEF Formed
<1> DEFINE e == [d EXCEPT !.role = TRUE]
<1>2. /\ IsRecord(e) /\ e.tables = d.tables /\ e.views = d.views
      /\ e.usage = d.usage /\ e.readable = d.readable /\ e.defaults = d.defaults
  <2>1. PICK yes : yes = TRUE
    OBVIOUS
  <2>2. e = [d EXCEPT !.role = yes]
    BY <2>1
  <2> HIDE DEF e
  <2>3. e = [vector |-> vector, role |-> yes, schemas |-> schemas, tables |-> tables,
             pkeys |-> pkeys, views |-> views, usage |-> usage, readable |-> readable,
             defaults |-> defaults]
    BY <1>1, <2>2
  <2>4. QED
    BY <1>1, <2>3 DEF IsRecord
<1> HIDE DEF e
<1>3. Formed(e)
  BY <1>2 DEF Formed, IsRecord
<1>4. Granted(e)
  BY <1>2 DEF Granted, Reporters, Relations
<1>5. QED
  BY <1>3, <1>4 DEF e

LEMMA MigrationStep == MigrationInv /\ [Next]_vars => MigrationInv'
<1> SUFFICES ASSUME MigrationInv, [Next]_vars PROVE MigrationInv'
  OBVIOUS
<1>1. CASE Upgrade
  BY <1>1, UpgradeRuns
<1>2. ASSUME NEW to \in 0..rev - 1, Downgrade(to)
      PROVE  MigrationInv'
  BY <1>2, DowngradeRuns
<1>3. CASE Execute
  BY <1>3, ExecuteRuns
<1>4. CASE Commit
  <2>1. Running /\ db' = run.db /\ rev' = run.to /\ run' = Idle
    BY <1>4 DEF Commit, MigrationInv
  <2>2. QED
    BY <2>1 DEF Running, MigrationInv
<1>5. CASE Abort
  BY <1>5 DEF Abort, MigrationInv
<1>6. CASE CreateReader
  <2>1. db' = [db EXCEPT !.role = TRUE] /\ rev' = rev /\ run' = Idle
    BY <1>6 DEF CreateReader
  <2>2. Formed(db') /\ Granted(db')
    BY <2>1, ReaderCreated DEF MigrationInv
  <2>3. QED
    BY <2>1, <2>2 DEF MigrationInv
<1>7. CASE UNCHANGED vars
  BY <1>7 DEF vars, MigrationInv, Running, AllKept
<1>8. QED
  BY <1>1, <1>2, <1>3, <1>4, <1>5, <1>6, <1>7 DEF Next

LEMMA MigrationAlways == Spec => []MigrationInv
BY InitialMigration, MigrationStep, PTL DEF Spec

\* Once the grants of revision 0002 have run, the dashboards read every table and view
\* of the reporting schema: whatever runs of alembic, whole or aborted, up or down, came
\* since, and whatever they created, renamed or dropped (0002, 0003).
THEOREM ReadersSeeReporting == Spec => []ReaderSeesReporting
<1>1. MigrationInv => ReaderSeesReporting
  BY DEF MigrationInv, Granted, ReaderSeesReporting
<1>2. QED
  BY <1>1, MigrationAlways, PTL

\* No upgrade loses a column outside of the public schema: those renamed are found
\* under their new name, and an aborted run leaves the old ones (0003, the renames).
THEOREM UpgradesKeepData == Spec => UpgradeKeepsData
<1> DEFINE Ours == {a \in Addresses(db) : a[1] # "public"}
<1>1. ASSUME MigrationInv, [Next]_vars
      PROVE  [rev' > rev => Ours \subseteq DOMAIN run.kept]_vars
  <2>1. CASE Commit
    <3>1. Running /\ rev' = run.to
      BY <1>1, <2>1 DEF Commit, MigrationInv
    <3>2. QED
      BY <3>1 DEF Running, AllKept
  <2>2. CASE ~Commit
    <3>1. rev' = rev
      BY <1>1, <2>2 DEF Next, vars, Upgrade, Downgrade, Begin, Execute, Abort, CreateReader
    <3>2. rev \in Nat
      BY <1>1 DEF MigrationInv
    <3>3. QED
      BY <3>1, <3>2
  <2>3. QED
    BY <2>1, <2>2
<1>2. QED
  BY <1>1, MigrationAlways, PTL DEF Spec, UpgradeKeepsData
=============================================================================
