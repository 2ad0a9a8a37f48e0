---------------------------- MODULE MCDataParts ----------------------------
(***************************************************************************)
(* An AI column's bookkeeping, the transactions of row calls, and the      *)
(* accounts share no state: a behaviour is about one of them, and the      *)
(* variables of the others are off.                                        *)
(***************************************************************************)
EXTENDS AiColumns, CompanyRows, Accounts, TLC

VARIABLE part       \* what this behaviour is about

Off == "off"

ColumnsOff  == /\ clock = Off /\ row = Off /\ cell = Off /\ mark = Off /\ question = Off
               /\ writer = Off /\ fill = Off /\ runner = Off /\ asker = Off /\ past = Off
RowsOff     == /\ connection = Off /\ known = Off /\ made = Off /\ stored = Off /\ call = Off
               /\ begun = Off /\ changed = Off /\ audited = Off /\ answer = Off /\ faults = Off
AccountsOff == /\ account = Off /\ licence = Off /\ boardKey = Off /\ signup = Off
               /\ job = Off /\ memo = Off

DataInit ==
    /\ part \in {"columns", "rows", "accounts"}
    /\ IF part = "columns" THEN Init ELSE ColumnsOff
    /\ IF part = "rows" THEN CompanyRowsInit ELSE RowsOff
    /\ IF part = "accounts" THEN AccountsInit ELSE AccountsOff

DataNext ==
    /\ UNCHANGED part
    /\ \/ part = "columns" /\ Next /\ UNCHANGED <<rowsVars, accountVars>>
       \/ part = "rows" /\ CompanyRowsNext /\ UNCHANGED <<vars, accountVars>>
       \/ part = "accounts" /\ AccountsNext /\ UNCHANGED <<vars, rowsVars>>

DataSpec == DataInit /\ [][DataNext]_<<part, vars, rowsVars, accountVars>>

-----------------------------------------------------------------------------
(* Constants of the instances                                              *)

CONSTANTS x1, x2, y1, y2, third

\* Writes of rows, calls, an operator's commands
Pair == {x1, x2}
\* Row ids, and all but one of the people
OtherPair == {y1, y2}
ThreePeople == OtherPair \cup {third}
Alike == Permutations(Pair) \cup Permutations(OtherPair)

\* A good key for any instance, one for this instance, and one with a bad signature
Keys == {[seats |-> 3, until |-> 0, instance |-> 0, good |-> TRUE],
         [seats |-> 3, until |-> 1, instance |-> 1, good |-> TRUE],
         [seats |-> 3, until |-> 1, instance |-> 0, good |-> FALSE]}

-----------------------------------------------------------------------------
\* The scan never passes by a row it owes an answer, a person's value stands, and a cell
\* tells how its row's value came to be (decisions/fill.ts, ai-column.ts).
ColumnsAreFilled ==
    part = "columns" => TypeOK /\ NothingLeftBehind /\ RecordedValueStands /\ CellTellsOfValue

\* A connection goes back to the pool clean, a change commits with its audit row and within
\* the limit, what an update hands back is what it replaced, a company is provisioned before
\* it is used, and calls never all wait for one another (company-scope.ts, audit.ts,
\* records-service.ts).
RowCallsAreWhole ==
    part = "rows" =>
        /\ CompanyRowsTypeOK /\ IdleConnectionsAreClean /\ ChangesAreAudited /\ ChangesAreBounded
        /\ HandedBackIsReplaced /\ KnownIsProvisioned /\ SomebodyGoesOn

\* Seats are limited as licensed, a stored licence is good, and removing people takes
\* neither the last admin nor the board key (kyoube-licensing, docker/bootstrap users.ts).
AccountsHold ==
    part = "accounts" =>
        AccountsTypeOK /\ SeatsAreKept /\ StoredKeyIsGood /\ KeysAndAdminsStay /\ HalfRemovedCanFinish
=============================================================================
