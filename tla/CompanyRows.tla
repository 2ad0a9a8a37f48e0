----------------------------- MODULE CompanyRows -----------------------------
(***************************************************************************)
(* Calls on a company's rows over a small pool of database connections:    *)
(* the company is provisioned on first use (db/company-scope.ts,           *)
(* ensureCompany), each call runs in a transaction under the company's own *)
(* role with its audit row in it (withCompany; data/audit.ts, withMeta),   *)
(* and the statements are those of data/records-service.ts.                *)
(*                                                                         *)
(* The database and the driver are external: a statement may fail, a       *)
(* connection may break at any point, taking its transaction, its role and *)
(* its locks with it, and the answer to a COMMIT may be lost.              *)
(***************************************************************************)
EXTENDS Integers, FiniteSets

CONSTANTS Callers,      \* requests being served at once
          Companies,
          RowIds,         \* row ids of a company's table
          PoolSizes,    \* how many connections the pool may have (8 in the code)
          MaxAffected,  \* rows one call may change
          MaxCalls, MaxFaults

ASSUME CompanyRowsAssumption ==
    /\ MaxAffected \in Nat /\ MaxCalls \in Nat /\ MaxFaults \in Nat /\ PoolSizes \subseteq Nat \ {0}
    /\ IsFiniteSet(RowIds) /\ "none" \notin Companies /\ "nobody" \notin Callers

VARIABLES connection,   \* the pool's connections, by number
          known,        \* companies this process knows to be provisioned
          made,         \* what the database has of each company
          stored,       \* the rows, by who wrote them last
          call,         \* each caller's call
          begun,        \* how many calls have begun
          changed,      \* what committed calls changed, by call
          audited,      \* calls that have an audit row
          answer,       \* what each call's caller was told
          faults        \* statements and connections that have failed

rowsVars == <<connection, known, made, stored, call, begun, changed, audited, answer, faults>>

Absent == -1
NoCompany == "none"
Login == "login"
Nobody == "nobody"
Ops == {"read", "insert", "update", "delete", "grant"}
Parts == {"role", "schema", "grants", "entry"}
Provisioning == Parts \cup {"locking", "assume", "unlocking"}
InTransaction == {"begin", "statement", "record", "commit", "rollback"}
Change == [row : RowIds, was : -1 .. MaxCalls, is : -1 .. MaxCalls]

Fresh == [user |-> Nobody, open |-> FALSE, session |-> Login, local |-> NoCompany,
          path |-> NoCompany, lock |-> NoCompany, alive |-> TRUE]
Broken(c) == [Fresh EXCEPT !.user = c, !.alive = FALSE]
NoCall == [at |-> "idle", number |-> 0, company |-> NoCompany, op |-> "read", wants |-> {},
           conn |-> 0, changes |-> {}, noted |-> FALSE, failed |-> FALSE]

\* The role a statement runs under: SET LOCAL hides the session's until the transaction ends.
RoleOf(k) == IF k.local # NoCompany THEN k.local ELSE k.session
TxEndedKeepsPath(k) == [k EXCEPT !.open = FALSE, !.local = NoCompany]     \* mutant
TxEnded(k) == [k EXCEPT !.open = FALSE, !.local = NoCompany, !.path = NoCompany]

Mine(c) == connection[call[c].conn]
Free == {k \in DOMAIN connection : connection[k].user = Nobody}
StepTo(c, step) == call' = [call EXCEPT ![c].at = step]

CompanyRowsInit ==
    /\ \E size \in PoolSizes : connection = [k \in 1 .. size |-> Fresh]
    /\ known = {}
    /\ made = [co \in Companies |-> {}]
    /\ stored = [co \in Companies |-> [r \in RowIds |-> 0]]
    /\ call = [c \in Callers |-> NoCall]
    /\ begun = 0
    /\ changed = [n \in 1 .. MaxCalls |-> {}]
    /\ audited = {}
    /\ answer = [n \in 1 .. MaxCalls |-> "none"]
    /\ faults = 0

-----------------------------------------------------------------------------
(* A call takes a connection, and gives it back                            *)

\* A call that its caller may make: its scope first, from the process' cache if it is there.
Begins(c) ==
    /\ call[c].at = "idle" /\ begun < MaxCalls
    /\ begun' = begun + 1
    /\ \E co \in Companies, op \in Ops, wants \in SUBSET RowIds \ {{}} :
         /\ op \in {"read", "grant"} => wants = RowIds
         /\ op = "insert" => Cardinality(wants) <= MaxAffected
         /\ call' = [call EXCEPT ![c] = [NoCall EXCEPT !.at = IF co \in known THEN "connect" ELSE "provision",
                                         !.number = begun + 1, !.company = co, !.op = op, !.wants = wants]]
    /\ UNCHANGED <<connection, known, made, stored, changed, audited, answer, faults>>

\* pool.connect: waits until a connection is free.
Connects(c) ==
    /\ call[c].at \in {"provision", "connect"}
    /\ \E k \in Free :
         /\ connection' = [connection EXCEPT ![k].user = c]
         /\ call' = [call EXCEPT ![c].conn = k,
                                 ![c].at = IF @ = "provision" THEN "locking" ELSE "begin"]
    /\ UNCHANGED <<known, made, stored, begun, changed, audited, answer, faults>>

\* client.release: the pool keeps a connection that works and was given back without an error.
GivenBack(k, failed) == IF failed \/ ~k.alive THEN Fresh ELSE [k EXCEPT !.user = Nobody]

\* The caller hears how it went, and the call is over.
Answers(c, how) ==
    /\ answer' = [answer EXCEPT ![call[c].number] = how]
    /\ call' = [call EXCEPT ![c] = NoCall]

-----------------------------------------------------------------------------
(* ensureCompany                                                           *)

\* The advisory lock is the session's: whoever holds it ends or breaks first.
TakesLock(c) ==
    /\ call[c].at = "locking" /\ Mine(c).alive
    /\ \A k \in DOMAIN connection : connection[k].lock # call[c].company
    /\ connection' = [connection EXCEPT ![call[c].conn].lock = call[c].company]
    /\ StepTo(c, "role")
    /\ UNCHANGED <<known, made, stored, begun, changed, audited, answer, faults>>

After == [role |-> "schema", schema |-> "assume", grants |-> "entry", entry |-> "unlocking"]

\* SET ROLE: the schema's access list is its owner's to edit.
AssumesRole(c) ==
    /\ call[c].at = "assume" /\ Mine(c).alive
    /\ connection' = [connection EXCEPT ![call[c].conn].session = call[c].company]
    /\ StepTo(c, "grants")
    /\ UNCHANGED <<known, made, stored, begun, changed, audited, answer, faults>>

\* One statement of the provisioning, each committed on its own and safe to repeat.
\* RESET ROLE follows the grants.
Provisions(c) ==
    /\ call[c].at \in Parts /\ Mine(c).alive
    /\ made' = [made EXCEPT ![call[c].company] = @ \cup {call[c].at}]
    /\ connection' = [connection EXCEPT ![call[c].conn].session = Login]
    /\ StepTo(c, After[call[c].at])
    /\ UNCHANGED <<known, stored, begun, changed, audited, answer, faults>>

\* A provisioning statement fails; RESET ROLE still follows the grants.
ProvisioningFails(c) ==
    /\ call[c].at \in Provisioning \ {"unlocking"}
    /\ IF Mine(c).alive THEN faults < MaxFaults /\ faults' = faults + 1 ELSE UNCHANGED faults
    /\ connection' = [connection EXCEPT ![call[c].conn].session = Login]
    /\ call' = [call EXCEPT ![c].at = "unlocking", ![c].failed = TRUE]
    /\ UNCHANGED <<known, made, stored, begun, changed, audited, answer>>

\* The unlock runs whatever happened; a failure destroys the connection and ends the call.
Unlocks(c) ==
    /\ call[c].at = "unlocking"
    /\ connection' = [connection EXCEPT ![call[c].conn] =
                        GivenBack([@ EXCEPT !.lock = NoCompany], call[c].failed)]
    /\ IF call[c].failed THEN Answers(c, "failed") /\ UNCHANGED known
                         ELSE /\ known' = known \cup {call[c].company}
                              /\ call' = [call EXCEPT ![c].at = "connect", ![c].conn = 0]
                              /\ UNCHANGED answer
    /\ UNCHANGED <<made, stored, begun, changed, audited, faults>>

-----------------------------------------------------------------------------
(* withCompany and withMeta                                                *)

\* BEGIN, and the settings that last as long as the transaction.  A grant is a change of
\* kyoube_meta alone, under the login role.
Opens(k, c) ==
    IF call[c].op = "grant" THEN [k EXCEPT !.open = TRUE]
    ELSE [k EXCEPT !.open = TRUE, !.local = call[c].company, !.path = call[c].company]

BeginsTransaction(c) ==
    /\ call[c].at = "begin" /\ Mine(c).alive
    /\ connection' = [connection EXCEPT ![call[c].conn] = Opens(@, c)]
    /\ StepTo(c, "statement")
    /\ UNCHANGED <<known, made, stored, begun, changed, audited, answer, faults>>

\* The rows other open transactions have written in this schema: a write waits for them.
Locked(c) ==
    {x.row : x \in UNION {call[d].changes : d \in {e \in Callers : /\ e # c /\ call[e].conn # 0
                                                     /\ Mine(e).path = Mine(c).path}}}

\* What the statement finds: at most one row more than a call may change.
Found(c) == {r \in call[c].wants : (stored[Mine(c).path][r] = Absent) <=> (call[c].op = "insert")}
Taken(c) == {hit \in SUBSET Found(c) : Cardinality(hit) = IF Cardinality(Found(c)) > MaxAffected
                                                          THEN MaxAffected + 1 ELSE Cardinality(Found(c))}
ChangeOf(c, r) == [row |-> r, was |-> stored[Mine(c).path][r],
                  is |-> IF call[c].op = "delete" THEN Absent ELSE call[c].number]

\* insert, update and delete: one statement in the schema of the search path, which the role
\* must own.  RowIds another transaction has written are waited for.
Writes(c) ==
    /\ call[c].at = "statement" /\ call[c].op \in {"insert", "update", "delete"}
    /\ Mine(c).alive /\ RoleOf(Mine(c)) = Mine(c).path
    /\ Found(c) \cap Locked(c) = {}
    /\ \E hit \in Taken(c) :
         call' = [call EXCEPT ![c].changes = {ChangeOf(c, r) : r \in hit},
                              ![c].at = IF Cardinality(hit) > MaxAffected THEN "rollback" ELSE "record",
                              ![c].failed = Cardinality(hit) > MaxAffected]
    /\ UNCHANGED <<connection, known, made, stored, begun, changed, audited, answer, faults>>

\* get, query, count and sqlSelect are read-only and leave no audit row; a grant writes only
\* kyoube_meta.
ReadsOrGrants(c) ==
    /\ call[c].at = "statement" /\ call[c].op \in {"read", "grant"}
    /\ Mine(c).alive
    /\ RoleOf(Mine(c)) = IF call[c].op = "grant" THEN Login ELSE Mine(c).path
    /\ StepTo(c, IF call[c].op = "grant" THEN "record" ELSE "commit")
    /\ UNCHANGED <<connection, known, made, stored, begun, changed, audited, answer, faults>>

\* The audit row, in the same transaction, under the login role.
Records(c) ==
    /\ call[c].at = "record" /\ Mine(c).alive
    /\ connection' = [connection EXCEPT ![call[c].conn].local = NoCompany, ![call[c].conn].session = Login]
    /\ call' = [call EXCEPT ![c].noted = TRUE, ![c].at = "commit"]
    /\ UNCHANGED <<known, made, stored, begun, changed, audited, answer, faults>>

\* What COMMIT makes of the rows.
Applied(c) ==
    /\ stored' = IF Mine(c).path = NoCompany THEN stored ELSE
                 [stored EXCEPT ![Mine(c).path] =
                    [r \in RowIds |-> IF \E x \in call[c].changes : x.row = r
                                    THEN (CHOOSE x \in call[c].changes : x.row = r).is ELSE @[r]]]
    /\ changed' = [changed EXCEPT ![call[c].number] = call[c].changes]
    /\ audited' = IF call[c].noted THEN audited \cup {call[c].number} ELSE audited

\* COMMIT; the summary and the AI bookkeeping that follow cannot fail the call.
Commits(c) ==
    /\ call[c].at = "commit" /\ Mine(c).alive
    /\ Applied(c)
    /\ connection' = [connection EXCEPT ![call[c].conn] = GivenBack(TxEnded(@), FALSE)]
    /\ Answers(c, "ok")
    /\ UNCHANGED <<known, made, begun, faults>>

\* The connection breaks after the COMMIT took effect and before its answer came.
LosesCommit(c) ==
    /\ call[c].at = "commit" /\ Mine(c).alive /\ faults < MaxFaults
    /\ Applied(c)
    /\ faults' = faults + 1
    /\ connection' = [connection EXCEPT ![call[c].conn] = Broken(c)]
    /\ answer' = [answer EXCEPT ![call[c].number] = "lost"]
    /\ call' = [call EXCEPT ![c].at = "rollback", ![c].changes = {}, ![c].noted = FALSE, ![c].failed = TRUE]
    /\ UNCHANGED <<known, made, begun>>

\* A statement of the transaction fails, or its connection has broken.
TransactionFails(c) ==
    /\ call[c].at \in InTransaction \ {"rollback"}
    /\ IF Mine(c).alive THEN faults < MaxFaults /\ faults' = faults + 1 ELSE UNCHANGED faults
    /\ call' = [call EXCEPT ![c].at = "rollback", ![c].failed = TRUE]
    /\ UNCHANGED <<connection, known, made, stored, begun, changed, audited, answer>>

\* ROLLBACK; where it fails the connection is broken, and the pool lets it go.
RollsBack(c) ==
    /\ call[c].at = "rollback"
    /\ connection' = [connection EXCEPT ![call[c].conn] = GivenBack(TxEnded(@), ~@.alive)]
    /\ Answers(c, IF answer[call[c].number] = "lost" THEN "lost" ELSE "failed")
    /\ UNCHANGED <<known, made, stored, begun, changed, audited, faults>>

\* A connection in use breaks: the server ends its session.
Breaks(k) ==
    /\ connection[k].alive /\ connection[k].user # Nobody /\ faults < MaxFaults
    /\ faults' = faults + 1
    /\ connection' = [connection EXCEPT ![k] = Broken(connection[k].user)]
    /\ call' = [call EXCEPT ![connection[k].user].changes = {}, ![connection[k].user].noted = FALSE]
    /\ UNCHANGED <<known, made, stored, begun, changed, audited, answer>>

CompanyRowsNext ==
    \/ \E c \in Callers : Begins(c) \/ Connects(c) \/ TakesLock(c) \/ AssumesRole(c) \/ Provisions(c) \/ ProvisioningFails(c)
    \/ \E c \in Callers : Unlocks(c) \/ BeginsTransaction(c) \/ Writes(c) \/ ReadsOrGrants(c) \/ Records(c)
    \/ \E c \in Callers : Commits(c) \/ LosesCommit(c) \/ TransactionFails(c) \/ RollsBack(c)
    \/ \E k \in DOMAIN connection : Breaks(k)

CompanyRowsSpec == CompanyRowsInit /\ [][CompanyRowsNext]_rowsVars

-----------------------------------------------------------------------------
CompanyRowsTypeOK ==
    /\ DOMAIN connection \in {1 .. size : size \in PoolSizes}
    /\ \A k \in DOMAIN connection :
         connection[k] \in [user : Callers \cup {Nobody}, open : BOOLEAN, session : Companies \cup {Login},
                           local : Companies \cup {NoCompany}, path : Companies \cup {NoCompany},
                           lock : Companies \cup {NoCompany}, alive : BOOLEAN]
    /\ known \subseteq Companies /\ made \in [Companies -> SUBSET Parts]
    /\ stored \in [Companies -> [RowIds -> -1 .. MaxCalls]]
    /\ \A c \in Callers : /\ call[c].at \in {"idle", "provision", "connect"} \cup Provisioning \cup InTransaction
                          /\ call[c].op \in Ops /\ call[c].changes \subseteq Change
    /\ begun \in 0 .. MaxCalls /\ faults \in 0 .. MaxFaults
    /\ audited \subseteq 1 .. MaxCalls
    /\ \A n \in 1 .. MaxCalls : changed[n] \subseteq Change /\ answer[n] \in {"none", "ok", "failed", "lost"}

\* A connection nobody uses is in no transaction, under the login role, in no company's
\* schema and without a lock, whatever failed on it before: the next call may be another
\* company's (withCompany, ensureCompany).
IdleConnectionsAreClean ==
    \A k \in Free : connection[k] = Fresh

\* A committed change has its audit row and a change that was not committed has none; who was
\* told that it failed finds nothing changed, who was told that it worked finds all of it
\* (withCompany, withMeta: ruling P4-R12).
ChangesAreAudited ==
    \A n \in 1 .. MaxCalls :
        /\ changed[n] # {} => n \in audited
        /\ n \in audited => answer[n] \in {"ok", "lost"}
        /\ answer[n] = "failed" => changed[n] = {}

\* No committed call changed more rows than one call may (records-service.ts, MAX_AFFECTED).
ChangesAreBounded == \A n \in 1 .. MaxCalls : Cardinality(changed[n]) <= MaxAffected

\* The old values an update hands back are the ones its commit replaces, whoever else writes
\* the row meanwhile (records-service.ts, previousOf: read from the rows it locks).
HandedBackIsReplaced ==
    \A c \in Callers : \A x \in call[c].changes : stored[Mine(c).path][x.row] = x.was

\* A company this process takes as provisioned is so in the database (ensureCompany).
KnownIsProvisioned == \A co \in known : made[co] = Parts

\* Calls never all wait for one another: a call holds one connection at a time, and one that
\* waits for the lock or for a row waits for a call that has its connection.
Waits(c) ==
    \/ call[c].at \in {"provision", "connect"} /\ Free = {}
    \/ call[c].at = "locking" /\ \E k \in DOMAIN connection : connection[k].lock = call[c].company
    \/ call[c].at = "statement" /\ Mine(c).path # NoCompany /\ Found(c) \cap Locked(c) # {}
SomebodyGoesOn ==
    (\E c \in Callers : call[c].at # "idle") => \E c \in Callers : call[c].at # "idle" /\ ~Waits(c)
=============================================================================
