----------------------------- MODULE DataTables -----------------------------
(***************************************************************************)
(* A company's tables: `SchemaService` (kyoube-apps/src/data/              *)
(* schema-service.ts), which keeps the catalog (kyoube_meta.tables and     *)
(* fields) beside the company's own Postgres schema.                       *)
(*                                                                         *)
(* Every operation reads the catalog first, on other connections, and then *)
(* changes tables by name and catalog rows by id, in one transaction with  *)
(* its audit row (withCompany).  A transaction that changes a table holds  *)
(* its lock from the first statement on, so it is one step here; only the  *)
(* reference check of dropTable runs before any lock, at READ COMMITTED.   *)
(* A failed statement rolls everything back.  Rows, indexes, display names *)
(* and a field's other options are left out.                               *)
(***************************************************************************)
EXTENDS Integers, FiniteSets

CONSTANTS
    Clients,        \* calls in flight
    Names,          \* bound: table names
    Fields,         \* bound: field names
    Choices,        \* bound: the lists of choices a field is given
    MaxTables,      \* bound: tables ever made
    MaxCalls,       \* bound: calls ever begun
    Retention,      \* TRASH_RETENTION_MS, in days
    LastDay         \* bound: the clock

ASSUME TablesAssumption ==
    MaxTables \in Nat /\ MaxCalls \in Nat /\ Retention \in Nat /\ LastDay \in Nat /\ Fields # {}

VARIABLES
    catalog,        \* kyoube_meta.tables with their fields, by id
    table,          \* the tables of the company's schema; each keeps its number
    work,           \* per client: the locals of its method
    day,
    upset           \* history, see Upset

tablesVars == <<catalog, table, work, day, upset>>

-----------------------------------------------------------------------------
TableIds == 1..MaxTables
NoTable  == 0
NoName   == "none"

\* A field: plain, with choices, or a relation to the table of a name.
Field   == {<<"plain">>} \cup ({"choices"} \X Choices) \cup ({"relation"} \X Names)
NoField == <<"none">>
HasChoices(f)  == f[1] = "choices"
RelatesTo(f, n) == f = <<"relation", n>>

CatalogRow == [status: {"none", "active", "trashed", "deleted"}, name: Names \cup {NoName},
               fields: [Fields -> Field \cup {NoField}]]

\* `checks`: CHECK constraints, each named after a table and a field.  `trash`:
\* renamed columns, with their stamp.  `stamp`: that of a renamed table.
Table == [life: {"none", "live", "trash", "gone"}, name: Names \cup {NoName},
          columns: SUBSET Fields, checks: SUBSET (Names \X Fields \X Choices),
          trash: SUBSET (Fields \X (0..LastDay)), stamp: 0..LastDay]

Operations == {"create", "addField", "updateField", "removeField", "drop", "rename"}
Work == [pc: {"idle", "info", "row", "hydrate", "check", "commit"},
         op: Operations \cup {"none"}, name: Names \cup {NoName}, to: Names \cup {NoName},
         field: Fields, spec: Field \cup {NoField}, hard: BOOLEAN,
         id: TableIds \cup {NoTable}, seen: [Fields -> Field \cup {NoField}]]

\* `crossed`: tables reached under a name that meant another table when it was
\* looked up.  `raced`: tables changed by a call that had read fields since
\* changed.  `lost`: a purge dropped something too early.
Upset == [crossed: SUBSET TableIds, raced: SUBSET TableIds, lost: BOOLEAN, calls: 0..MaxCalls]

NoFields == [f \in Fields |-> NoField]
Unoccupied  == [pc |-> "idle", op |-> "none", name |-> NoName, to |-> NoName,
             field |-> CHOOSE f \in Fields : TRUE, spec |-> NoField, hard |-> FALSE,
             id |-> NoTable, seen |-> NoFields]

Active(n)  == {t \in TableIds : catalog[t].status = "active" /\ catalog[t].name = n}
Stored(n)  == {t \in TableIds : table[t].life = "live" /\ table[t].name = n}
Doing(c, step)  == work[c].pc = step
Proceed(c, step) == work' = [work EXCEPT ![c].pc = step]
Finished(c)      == work' = [work EXCEPT ![c] = Unoccupied]

-----------------------------------------------------------------------------
(* Reading the catalog                                                     *)

\* `hard` is the company's setting, which is read for each call.
BeginWork(c) ==
    \E op \in Operations, n \in Names, to \in Names, f \in Fields,
       spec \in Field \cup {NoField}, hard \in BOOLEAN :
        /\ Doing(c, "idle") /\ upset.calls < MaxCalls
        /\ CASE op = "addField"    -> spec # NoField /\ to = n /\ ~hard
             [] op = "updateField" -> HasChoices(spec) /\ to = n /\ ~hard
             [] op = "removeField" -> spec = NoField /\ to = n
             [] op = "drop"        -> spec = NoField /\ to = n /\ f = Unoccupied.field
             [] op = "rename"      -> spec = NoField /\ to # n /\ f = Unoccupied.field /\ ~hard
             [] op = "create"      -> spec = NoField /\ to = n /\ f = Unoccupied.field /\ ~hard
        /\ IF op = "create" THEN Active(n) = {} ELSE Active(n) # {}
        /\ work' = [work EXCEPT ![c] = [Unoccupied EXCEPT
                !.op = op, !.name = n, !.to = to, !.field = f, !.spec = spec, !.hard = hard,
                !.pc = CASE op = "create" -> "commit"
                         [] op \in {"drop", "rename"} -> "row"
                         [] OTHER -> "info"]]
        /\ upset' = [upset EXCEPT !.calls = @ + 1]
        /\ UNCHANGED <<catalog, table, day>>

\* getTable: the checks of what it finds are those of the operation.
ReadInfo(c) ==
    \E t \in Active(work[c].name) :
        LET w == work[c]  found == catalog[t].fields[w.field] IN
        /\ Doing(c, "info")
        /\ CASE w.op = "addField"    -> found = NoField /\ \A n \in Names :
                                            RelatesTo(w.spec, n) => Active(n) # {}
             [] w.op = "updateField" -> HasChoices(found)
             [] OTHER                -> found # NoField
        /\ work' = [work EXCEPT ![c].pc = "row", ![c].seen = catalog[t].fields]
        /\ UNCHANGED <<catalog, table, day, upset>>

ReadRow(c) ==
    \E t \in Active(work[c].name) :
        /\ Doing(c, "row")
        /\ work' = [work EXCEPT ![c].id = t, ![c].pc =
                      CASE work[c].op = "rename" -> "hydrate"
                        [] work[c].op = "drop" -> "check" [] OTHER -> "commit"]
        /\ UNCHANGED <<catalog, table, day, upset>>

\* renameTable: the new name is free; the fields whose constraints will follow.
Hydrate(c) ==
    /\ Doing(c, "hydrate")
    /\ Active(work[c].to) = {}
    /\ work' = [work EXCEPT ![c].pc = "commit", ![c].seen = catalog[work[c].id].fields]
    /\ UNCHANGED <<catalog, table, day, upset>>

-----------------------------------------------------------------------------
(* The transactions                                                        *)

Crossing(c, t) == {work[c].id, t} \ {x \in {t} : work[c].id = t}
Racing(c) ==
    {t \in {work[c].id} : work[c].op # "drop" /\ catalog[t].fields # work[c].seen}
Notes(c, t) == upset' = [upset EXCEPT !.crossed = @ \cup Crossing(c, t), !.raced = @ \cup Racing(c)]

CreateTable(c) ==
    \E t \in TableIds :
        LET n == work[c].name IN
        /\ Doing(c, "commit") /\ work[c].op = "create"
        /\ catalog[t].status = "none" /\ \A x \in TableIds : catalog[x].status = "none" => t <= x
        /\ Stored(n) = {} /\ Active(n) = {}
        /\ table' = [table EXCEPT ![t].life = "live", ![t].name = n]
        /\ catalog' = [catalog EXCEPT ![t].status = "active", ![t].name = n]
        /\ Finished(c)
        /\ UNCHANGED <<day, upset>>

ChecksOf(n, f, spec) == IF HasChoices(spec) THEN {<<n, f, spec[2]>>} ELSE {}

\* A relation's column refers to the table of that name, which must exist.
AddField(c) ==
    \E t \in Stored(work[c].name) :
        LET w == work[c] IN
        /\ Doing(c, "commit") /\ w.op = "addField"
        /\ w.field \notin table[t].columns /\ catalog[w.id].fields[w.field] = NoField
        /\ \A n \in Names : RelatesTo(w.spec, n) => Stored(n) # {}
        /\ table' = [table EXCEPT ![t].columns = @ \cup {w.field},
                                  ![t].checks = @ \cup ChecksOf(w.name, w.field, w.spec)]
        /\ catalog' = IF catalog[w.id].status = "deleted" THEN catalog
                      ELSE [catalog EXCEPT ![w.id].fields[w.field] = w.spec]
        /\ Notes(c, t) /\ Finished(c)
        /\ UNCHANGED day

Rewritten(w) == IF catalog[w.id].fields[w.field] = NoField THEN catalog
                ELSE [catalog EXCEPT ![w.id].fields[w.field] = w.spec]

\* The constraint of that name goes, and the new one comes.
UpdateField(c) ==
    \E t \in Stored(work[c].name) :
        LET w == work[c]
            others == {k \in table[t].checks : ~(k[1] = w.name /\ k[2] = w.field)} IN
        /\ Doing(c, "commit") /\ w.op = "updateField"
        /\ w.spec # w.seen[w.field] /\ w.field \in table[t].columns
        /\ table' = [table EXCEPT ![t].checks = others \cup ChecksOf(w.name, w.field, w.spec)]
        /\ catalog' = Rewritten(w)
        /\ Notes(c, t) /\ Finished(c)
        /\ UNCHANGED day

\* The choices are those the call has read: only the catalog is written.
UpdateOptions(c) ==
    LET w == work[c] IN
    /\ Doing(c, "commit") /\ w.op = "updateField" /\ w.spec = w.seen[w.field]
    /\ catalog' = Rewritten(w)
    /\ Notes(c, w.id) /\ Finished(c)
    /\ UNCHANGED <<table, day>>

RemoveField(c) ==
    \E t \in Stored(work[c].name) :
        LET w == work[c] IN
        /\ Doing(c, "commit") /\ w.op = "removeField"
        /\ w.field \in table[t].columns
        /\ ~w.hard => <<w.field, day>> \notin table[t].trash
        /\ table' = [table EXCEPT ![t].columns = @ \ {w.field},
                                  ![t].checks = {k \in @ : k[2] # w.field},
                                  ![t].trash = IF w.hard THEN @ ELSE @ \cup {<<w.field, day>>}]
        /\ catalog' = [catalog EXCEPT ![w.id].fields[w.field] = NoField]
        /\ Notes(c, t) /\ Finished(c)
        /\ UNCHANGED day

\* assertNotReferenced, in the transaction, before the table is touched.
Referenced(n) ==
    \E t \in TableIds : /\ catalog[t].status = "active" /\ catalog[t].name # n
                        /\ \E f \in Fields : RelatesTo(catalog[t].fields[f], n)

CheckReferences(c) ==
    /\ Doing(c, "check")
    /\ ~Referenced(work[c].name)
    /\ Proceed(c, "commit")
    /\ UNCHANGED <<catalog, table, day, upset>>

DropTable(c) ==
    \E t \in Stored(work[c].name) :
        LET w == work[c] IN
        /\ Doing(c, "commit") /\ w.op = "drop"
        /\ table' = [table EXCEPT ![t].life = IF w.hard THEN "gone" ELSE "trash", ![t].stamp = day]
        /\ catalog' = [catalog EXCEPT ![w.id].status = IF w.hard THEN "deleted" ELSE "trashed"]
        /\ Notes(c, t) /\ Finished(c)
        /\ UNCHANGED day

\* Constraints do not follow their table: each one that was read is renamed too
\* (it must be there), and other tables' relations are pointed at the new name.
FollowsName(w, k) == k[1] = w.name /\ HasChoices(w.seen[k[2]])

RenameTable(c) ==
    \E t \in Stored(work[c].name) :
        LET w == work[c] IN
        /\ Doing(c, "commit") /\ w.op = "rename"
        /\ Stored(w.to) = {}
        /\ \A f \in Fields : HasChoices(w.seen[f]) =>
              \E x \in Choices : <<w.name, f, x>> \in table[t].checks
        /\ table' = [table EXCEPT ![t].name = w.to, ![t].checks =
              {IF FollowsName(w, k) THEN <<w.to, k[2], k[3]>> ELSE k : k \in @}]
        /\ catalog' = [x \in TableIds |-> [catalog[x] EXCEPT
              !.name = IF x = w.id THEN w.to ELSE @,
              !.fields = IF catalog[x].status # "active" THEN @
                         ELSE [f \in Fields |-> IF RelatesTo(@[f], w.name)
                                                THEN <<"relation", w.to>> ELSE @[f]]]]
        /\ Notes(c, t) /\ Finished(c)
        /\ UNCHANGED day

Expired(stamp) == stamp <= day - Retention

\* purgeTrash: by the stamps in the names, whatever the catalog says.
PurgeTrash ==
    LET goes(t) == table[t].life = "trash" /\ Expired(table[t].stamp)
        columns(t) == {x \in table[t].trash : table[t].life = "live" /\ Expired(x[2])} IN
    /\ \E t \in TableIds : goes(t) \/ columns(t) # {}
    /\ table' = [t \in TableIds |-> [table[t] EXCEPT
                    !.life = IF goes(t) THEN "gone" ELSE @, !.trash = @ \ columns(t)]]
    /\ catalog' = [t \in TableIds |-> [catalog[t] EXCEPT
                    !.status = IF goes(t) /\ @ = "trashed" THEN "deleted" ELSE @]]
    /\ upset' = [upset EXCEPT !.lost = @ \/ \E t \in TableIds :
                    \/ goes(t) /\ day - table[t].stamp < Retention
                    \/ \E x \in columns(t) : day - x[2] < Retention]
    /\ UNCHANGED <<work, day>>

FailsHalfway(c) ==  \* mutant: the table has moved to the trash, the catalog has not heard
    /\ ~Doing(c, "idle") /\ Finished(c)
    /\ table' = [t \in TableIds |-> IF Doing(c, "commit") /\ work[c].op = "drop" /\ t \in Stored(work[c].name)
                                    THEN [table[t] EXCEPT !.life = "trash", !.stamp = day] ELSE table[t]]
    /\ UNCHANGED <<catalog, day, upset>>

\* A check refuses, a statement fails, or the worker dies: nothing was done.
WorkFails(c) == ~Doing(c, "idle") /\ Finished(c) /\ UNCHANGED <<catalog, table, day, upset>>

NextDay == day < LastDay /\ day' = day + 1 /\ UNCHANGED <<catalog, table, work, upset>>

-----------------------------------------------------------------------------
TablesInit ==
    /\ catalog = [t \in TableIds |-> [status |-> "none", name |-> NoName, fields |-> NoFields]]
    /\ table = [t \in TableIds |-> [life |-> "none", name |-> NoName, columns |-> {},
                                    checks |-> {}, trash |-> {}, stamp |-> 0]]
    /\ work = [c \in Clients |-> Unoccupied]
    /\ day = 0
    /\ upset = [crossed |-> {}, raced |-> {}, lost |-> FALSE, calls |-> 0]

TablesNext ==
    \/ \E c \in Clients :
          \/ BeginWork(c) \/ ReadInfo(c) \/ ReadRow(c) \/ Hydrate(c) \/ CheckReferences(c)
          \/ CreateTable(c) \/ AddField(c) \/ UpdateField(c) \/ UpdateOptions(c)
          \/ RemoveField(c) \/ DropTable(c) \/ RenameTable(c) \/ WorkFails(c)
    \/ PurgeTrash \/ NextDay

TablesSpec == TablesInit /\ [][TablesNext]_tablesVars

-----------------------------------------------------------------------------
TablesTypeOK ==
    /\ catalog \in [TableIds -> CatalogRow]
    /\ table \in [TableIds -> Table]
    /\ work \in [Clients -> Work]
    /\ day \in 0..LastDay
    /\ upset \in Upset

Columns(t) == {f \in Fields : catalog[t].fields[f] # NoField}

\* The catalog tells of the tables there are, whatever calls race: an active
\* table is stored under its name with the columns of its fields; except where
\* a name meant another table by the time it was used.
CatalogTellsOfTables ==
    \A t \in TableIds \ upset.crossed :
        catalog[t].status = "active" =>
            table[t].life = "live" /\ table[t].name = catalog[t].name /\ table[t].columns = Columns(t)

\* A field with choices is held to exactly these by one constraint, through
\* renames, removals and edits that did not overlap (renameTable's comment on
\* two checks whose intersection would apply).
ChoicesAreChecked ==
    \A t \in TableIds \ (upset.crossed \cup upset.raced) :
        catalog[t].status = "active" =>
            table[t].checks = UNION {ChecksOf(catalog[t].name, f, catalog[t].fields[f]) : f \in Fields}

\* What was removed softly stays for the retention time (purgeTrash).
TrashIsKept == ~upset.lost

=============================================================================
