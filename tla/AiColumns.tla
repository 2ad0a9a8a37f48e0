------------------------------ MODULE AiColumns ------------------------------
(***************************************************************************)
(* AI columns: the fill engine (kyoube-apps/src/decisions/columns.ts,      *)
(* cells.ts) and the row writes it races with (data/service.ts,            *)
(* data/records-service.ts), for one company with one AI column.           *)
(*                                                                         *)
(* A fill reads the rows changed since the column's watermark, asks the    *)
(* model about them and writes the answers and their cells in one          *)
(* transaction.  Row writes carry the start time of their transaction but  *)
(* become visible when it commits, and tell the cells about a value a      *)
(* person set only after that.                                             *)
(*                                                                         *)
(* Time: every transaction start is an instant of its own (microseconds in *)
(* the database).  WATERMARK_LAG_MS rests on writes being short; how short *)
(* is ConstantsAssumption.                                                 *)
(***************************************************************************)
EXTENDS Integers, FiniteSets

CONSTANTS
    Writers,        \* row writes in flight
    MaxRows,        \* bound: rows ever inserted
    Sources,        \* bound: values of the source fields
    Questions,      \* bound: definitions the column may be given
    Lag,            \* WATERMARK_LAG_MS, in instants
    WriteLimit,     \* the longest a write and its bookkeeping take
    ScanPage,       \* SCAN_PAGE
    Budget,         \* rowsPerRun
    MaxClock,       \* bound: instants
    LastWrite,      \* bound: the instant the last row write begins
    MaxAsks,        \* bound: refills and question changes
    MaxDeletes      \* bound: rows ever deleted

ASSUME ConstantsAssumption ==
    \* Two writes of a row may commit in the other order than they began.  The row then has
    \* the earlier time, and the bookkeeping of the other may end as late as this.
    /\ WriteLimit \in Nat /\ IsFiniteSet(Writers)
    /\ IF Cardinality(Writers) = 1 THEN WriteLimit <= Lag ELSE 2 * WriteLimit <= Lag
    /\ MaxRows \in Nat \ {0} /\ Sources # {} /\ Questions # {}
    /\ Lag \in Nat \ {0} /\ ScanPage \in Nat \ {0} /\ Budget \in Nat \ {0}
    /\ MaxClock \in Nat /\ LastWrite \in Nat /\ MaxAsks \in Nat /\ MaxDeletes \in Nat

VARIABLES
    clock,      \* the database's now()
    row,        \* the table
    cell,       \* kyoube_meta.decision_cells
    mark,       \* kyoube_meta.decision_columns: fingerprint and scanned_through
    question,   \* the field's decision block
    writer,     \* per write: its transaction, then its bookkeeping
    fill,       \* locals of fillCompany, fillChanged, retryFailed, decideBatch
    runner,     \* `running` and `again`
    asker,      \* locals of a refill or a question change
    past        \* history, see Past

vars  == <<clock, row, cell, mark, question, writer, fill, runner, asker, past>>
world == <<question, asker>>

-----------------------------------------------------------------------------
Rows   == 1..MaxRows
Values == {"none", "model", "person"}

\* The scan's order, (updated_at, id).  Nothing comes before Start, the null watermark.
Pos(at, r)   == [at |-> at, id |-> r]
Start        == Pos(0, 0)
Before(p, q) == p.at < q.at \/ (p.at = q.at /\ p.id < q.id)
Position     == [at: 0..MaxClock, id: 0..MaxRows]

Row  == [life: {"new", "live", "gone"}, at: 0..MaxClock, src: Sources \cup {"none"}, val: Values]
Hash == [fp: Questions \cup {"none"}, src: Sources \cup {"none"}]      \* sourceHash
Cell == [status: {"none", "auto", "review", "error", "manual"}, hash: Hash]
Mark == [fp: Questions \cup {"none"}, pos: Position]

Writer == [pc: {"idle", "open", "prior", "mark", "delete"}, row: Rows, at: 0..MaxClock,
           new: BOOLEAN, src: Sources \cup {"none"}, val: Values]

Candidate == [id: Rows, at: 0..MaxClock, src: Sources]
Outcome   == {"auto", "review", "error", "null"}
Fill == [pc: {"idle", "list", "sync", "ceiling", "page", "cells", "ask", "settle",
              "write", "advance", "errors", "retry", "drop"},
         pass: {"changed", "retry"}, fp: Questions \cup {"none"},
         after: Position, ceiling: Position,
         page: SUBSET Candidate, examined: SUBSET Position,
         cands: SUBSET Candidate, asked: SUBSET Rows,
         answers: [Rows -> Outcome], pending: SUBSET Rows, ids: SUBSET Rows, left: 0..Budget]

Runner == [held: BOOLEAN, again: BOOLEAN]
Asker  == [pc: {"idle", "reset", "request"}, refill: BOOLEAN, count: 0..MaxAsks]

\* History.  dropped: a refill or a question change discarded the row's cell, and no
\* scan from the start has begun since (asked: and the refill has been answered).
\* sure: a person's value whose cell was recorded before any batch that could
\* replace it had checked for that.  fresh: no one has set the value since the fill
\* wrote the cell.  wanted: a fill was requested that has not begun.
Past == [dropped: [Rows -> {"no", "refill", "asked", "question"}],
         sure: SUBSET Rows, fresh: SUBSET Rows, wanted: BOOLEAN]

NewRow   == [life |-> "new", at |-> 0, src |-> "none", val |-> "none"]
NoHash   == [fp |-> "none", src |-> "none"]
NoCell   == [status |-> "none", hash |-> NoHash]
IdleWriter == [pc |-> "idle", row |-> 1, at |-> 0, new |-> FALSE, src |-> "none", val |-> "none"]
NoAnswers  == [r \in Rows |-> "null"]
IdleFill == [pc |-> "idle", pass |-> "changed", fp |-> "none", after |-> Start,
             ceiling |-> Start, page |-> {}, examined |-> {}, cands |-> {}, asked |-> {},
             answers |-> NoAnswers, pending |-> {}, ids |-> {}, left |-> 0]
IdleAsker(n) == [pc |-> "idle", refill |-> FALSE, count |-> n]

Live        == {r \in Rows : row[r].life = "live"}
RowPos(r)   == Pos(row[r].at, r)
HashOf(fp, src) == [fp |-> fp, src |-> src]
Busy(w)     == writer[w].pc # "idle"
Recording(w) == writer[w].pc \in {"prior", "mark", "delete"}

-----------------------------------------------------------------------------
(* The clock *)

Advance ==
    /\ clock < MaxClock
    /\ \A w \in Writers : Busy(w) => clock + 1 - writer[w].at <= WriteLimit
    /\ clock' = clock + 1

Tick == Advance /\ UNCHANGED <<row, cell, mark, writer, fill, runner, past, world>>

-----------------------------------------------------------------------------
(* Row writes: RecordsService.insert, update and delete, then rowsWritten *)

Goto(w, r) == writer' = [writer EXCEPT ![w] = r]
WriterStep == UNCHANGED <<mark, fill, runner, world>>

BeginWrite(w) ==
    /\ ~Busy(w) /\ clock < LastWrite
    /\ Advance
    /\ \E r \in Rows, s \in Sources, v \in {"none", "person"}, new \in BOOLEAN :
          /\ IF new
             THEN row[r].life = "new" /\ \A u \in Writers : Busy(u) => writer[u].row # r
             ELSE row[r].life = "live"
          /\ Goto(w, [pc |-> "open", row |-> r, at |-> clock + 1, new |-> new,
                      src |-> s, val |-> v])
    /\ UNCHANGED <<row, cell, past>> /\ WriterStep

\* The update and its commit: the row takes the start time of the transaction, which
\* may lie before the time it has.  A patch names the source, the AI value, or both.
CommitWrite(w) ==
    LET me == writer[w]
        r  == me.row IN
    /\ me.pc = "open"
    /\ IF ~me.new /\ row[r].life = "gone"
       THEN Goto(w, IdleWriter) /\ UNCHANGED <<row, past>>
       ELSE \E val \in IF me.new THEN {me.val} ELSE {me.val, row[r].val} :
              /\ row' = [row EXCEPT ![r] = [life |-> "live", at |-> me.at, src |-> me.src, val |-> val]]
              /\ IF val = row[r].val                   \* sameValue
                 THEN Goto(w, IdleWriter) /\ UNCHANGED past
                 ELSE /\ Goto(w, [IdleWriter EXCEPT !.pc = IF val = "none" THEN "prior" ELSE "mark",
                                                    !.row = r, !.at = me.at])
                      /\ past' = [past EXCEPT !.sure = @ \ {r}, !.fresh = @ \ {r}]
    /\ UNCHANGED <<clock, cell>> /\ WriterStep

\* getCells in rowsWritten; for a value that is set it only serves the outcome log.
ReadPrior(w) ==
    /\ writer[w].pc = "prior"
    /\ Goto(w, IF cell[writer[w].row].status = "none" THEN IdleWriter
               ELSE [writer[w] EXCEPT !.pc = "delete"])
    /\ UNCHANGED <<clock, row, cell, past>> /\ WriterStep

\* markManual.  The last hash stays in the table; nothing reads it any more.
MarkManual(w) ==
    LET r == writer[w].row IN
    /\ writer[w].pc = "mark"
    /\ cell' = [cell EXCEPT ![r] = [NoCell EXCEPT !.status = "manual"]]
    /\ past' = [past EXCEPT !.sure =
                  IF /\ r \in Live /\ row[r].val = "person"
                     /\ \A u \in Writers \ {w} : Recording(u) => writer[u].row # r
                     /\ ~(fill.pc = "write" /\ r \in fill.pending)
                  THEN @ \cup {r} ELSE @]
    /\ Goto(w, IdleWriter)
    /\ UNCHANGED <<clock, row>> /\ WriterStep

\* deleteCells: an emptied value hands the cell back to the fill.
HandBack(w) ==
    /\ writer[w].pc = "delete"
    /\ cell' = [cell EXCEPT ![writer[w].row] = NoCell]
    /\ Goto(w, IdleWriter)
    /\ UNCHANGED <<clock, row, past>> /\ WriterStep

\* A transaction rolls back, or afterRowWrite reports and swallows an error.
WriteFails(w) ==
    /\ Busy(w)
    /\ Goto(w, IdleWriter)
    /\ UNCHANGED <<clock, row, cell, past>> /\ WriterStep

DeleteRow ==
    /\ Cardinality({r \in Rows : row[r].life = "gone"}) < MaxDeletes
    /\ \E r \in Live : row' = [row EXCEPT ![r] = [NewRow EXCEPT !.life = "gone"]]
    /\ past' = [past EXCEPT !.sure = @ \cap {r \in Rows : row'[r].life = "live"}]
    /\ UNCHANGED <<clock, cell, writer>> /\ WriterStep

-----------------------------------------------------------------------------
(* Who runs a fill: startBackground, runJob and the company's lock *)

Quiet == UNCHANGED <<clock, row, cell, writer, world>>

Begin == fill' = [IdleFill EXCEPT !.pc = "list"]

\* `running` is set and the fill begins, or the run in progress is asked to run again.
StartBackground ==
    IF runner.held
    THEN runner' = [runner EXCEPT !.again = TRUE] /\ UNCHANGED fill
    ELSE runner' = [held |-> TRUE, again |-> FALSE] /\ Begin

StartJob ==
    /\ ~runner.held
    /\ runner' = [runner EXCEPT !.held = TRUE]
    /\ Begin
    /\ UNCHANGED <<mark, past>> /\ Quiet

ForgetsAgain ==  \* mutant: the lock is let go without a look at `again`
    /\ runner' = [runner EXCEPT !.held = FALSE]
    /\ fill' = IdleFill

\* fillCompany returns or throws: the end of one turn of startBackground's loop, or of the
\* job's run.  There `running` is deleted and the continuation calls startBackground if
\* `again` is set: no callback that could make a request comes between the two.
LetGo ==
    IF runner.again
    THEN runner' = [runner EXCEPT !.again = FALSE] /\ Begin
    ELSE /\ runner' = [runner EXCEPT !.held = FALSE]
         /\ fill' = IdleFill

Ended == [past EXCEPT !.wanted = @ /\ fill.pc # "list"]

-----------------------------------------------------------------------------
(* A fill *)

FillAt(step) == fill.pc = step
FillGoes(f)  == fill' = f /\ UNCHANGED runner

\* Any step may fail: the run throws and leaves what it has committed.  Switched off, or
\* past the deadline between two passes, it returns.
FillFails ==
    /\ ~FillAt("idle")
    /\ LetGo
    /\ past' = Ended
    /\ UNCHANGED mark /\ Quiet

\* listAiColumns: the definition this run works with.
ListColumns ==
    /\ FillAt("list")
    /\ FillGoes([fill EXCEPT !.pc = "sync", !.fp = question])
    /\ past' = [past EXCEPT !.wanted = FALSE]
    /\ UNCHANGED mark /\ Quiet

KeepsPosition == [fp |-> fill.fp, pos |-> mark.pos]  \* mutant: a changed question goes on where the old one was

\* syncColumn: another fingerprint starts the scan over.
SyncedMark == IF mark.fp = fill.fp THEN mark ELSE [fp |-> fill.fp, pos |-> Start]

SyncColumn ==
    /\ FillAt("sync")
    /\ mark' = SyncedMark
    /\ FillGoes([fill EXCEPT !.pc = "ceiling", !.after = SyncedMark.pos])
    /\ past' = IF SyncedMark.pos = Start
               THEN [past EXCEPT !.dropped = [r \in Rows |-> "no"]]
               ELSE past
    /\ Quiet

CeilingNow == Pos(clock, 0)  \* mutant: the scan does not lag the clock

\* watermarkCeiling: the first position at the clock less the lag.
Ceiling == Pos(IF clock > Lag THEN clock - Lag ELSE 0, 0)

ReadCeiling ==
    /\ FillAt("ceiling")
    /\ FillGoes([fill EXCEPT !.pc = "page", !.ceiling = Ceiling])
    /\ UNCHANGED <<mark, past>> /\ Quiet

Scanned(f)   == [f EXCEPT !.pc = "ask", !.after = Start]     \* the scan is over
Snapshot(r)  == [id |-> r, at |-> row[r].at, src |-> row[r].src]
CandPos(c)   == Pos(c.at, c.id)
Changed      == {Snapshot(r) : r \in {x \in Live : Before(fill.after, RowPos(x))}}

\* scanForAi: the first ScanPage rows after the last one examined.  None, or past the
\* deadline: the scan is over.
ReadPage ==
    /\ FillAt("page")
    /\ LET page == {c \in Changed :
                      Cardinality({d \in Changed : Before(CandPos(d), CandPos(c))}) < ScanPage}
       IN FillGoes(IF page = {} THEN Scanned(fill)
                   ELSE [fill EXCEPT !.page = page, !.pc = "cells"])
    /\ UNCHANGED <<mark, past>> /\ Quiet

Deadline ==
    /\ FillAt("page")
    /\ FillGoes(Scanned(fill))
    /\ UNCHANGED <<mark, past>> /\ Quiet

\* A row is asked about unless its value is a person's, it was answered (or failed) on
\* these very sources, or this run has asked about it already.
NeedsAnswer(c) ==
    /\ cell[c.id].status # "manual"
    /\ ~(cell[c.id].status # "none" /\ cell[c.id].hash = HashOf(fill.fp, c.src))
    /\ c.id \notin fill.asked

\* getCells and the loop over the page, in order, until the budget is used up.
ExaminePage ==
    /\ FillAt("cells")
    /\ LET left     == Budget - Cardinality(fill.cands)
           new      == {c \in fill.page : NeedsAnswer(c)}
           examined == {c \in fill.page :
                          Cardinality({d \in new : Before(CandPos(d), CandPos(c))}) < left}
           cands    == fill.cands \cup (new \cap examined)
           last     == CHOOSE c \in examined : \A d \in examined \ {c} : Before(CandPos(d), CandPos(c))
           next     == [fill EXCEPT !.page = {}, !.pc = "page", !.after = CandPos(last),
                          !.cands = cands,
                          !.asked = @ \cup {c.id : c \in new \cap examined},
                          !.examined = @ \cup {CandPos(c) : c \in examined}]
       IN FillGoes(IF Cardinality(fill.page) = ScanPage /\ Cardinality(cands) < Budget
                   THEN next ELSE Scanned(next))
    /\ UNCHANGED <<mark, past>> /\ Quiet

\* The model's answers; "null" is a row whose turn never came.
Decide ==
    /\ FillAt("ask")
    /\ \E answers \in [{c.id : c \in fill.cands} -> Outcome] :
          FillGoes([fill EXCEPT !.pc = IF fill.cands = {} THEN "advance" ELSE "settle",
                      !.answers = [r \in Rows |-> IF r \in DOMAIN answers THEN answers[r] ELSE "null"]])
    /\ UNCHANGED <<mark, past>> /\ Quiet

Answered == {r \in Rows : fill.answers[r] \in {"auto", "review"}}

\* getCells: a row whose value a person has set meanwhile is passed over.
Settled == {r \in Answered : cell[r].status # "manual"}

SettleCells ==
    /\ FillAt("settle")
    /\ FillGoes([fill EXCEPT !.pc = "write", !.pending = Settled])
    /\ UNCHANGED <<mark, past>> /\ Quiet

\* setColumnValues: a row written since it was read is left alone.
Written == {r \in fill.pending : r \in Live /\ \E c \in fill.cands : c.id = r /\ c.at = row[r].at}

\* cellsFor: the failed ones, and the answers that were written.
CellsFor(written) == {r \in Rows : fill.answers[r] = "error"} \cup written

\* upsertCells spares the manual ones.
Upserted(written) ==
    [r \in Rows |->
        IF r \in CellsFor(written) /\ cell[r].status # "manual"
        THEN [status |-> fill.answers[r],
              hash |-> HashOf(fill.fp, (CHOOSE c \in fill.cands : c.id = r).src)]
        ELSE cell[r]]

\* One transaction: the values, empty for a review, and the cells.
WriteBatch ==
    /\ FillAt("write")
    /\ IF fill.pending = {} THEN UNCHANGED clock ELSE Advance
    /\ row' = [r \in Rows |->
                 IF r \in Written
                 THEN [row[r] EXCEPT !.at = clock + 1,
                                     !.val = IF fill.answers[r] = "auto" THEN "model" ELSE "none"]
                 ELSE row[r]]
    /\ cell' = Upserted(Written)
    /\ past' = [past EXCEPT
                  !.fresh = @ \cup {r \in CellsFor(Written) : fill.answers[r] # "error"},
                  !.dropped = [r \in Rows |-> IF r \in CellsFor(Written) THEN "no" ELSE @[r]]]
    /\ FillGoes([fill EXCEPT !.pc = "advance", !.pending = {}])
    /\ UNCHANGED <<mark, writer, world>>

\* Every examined row up to the first candidate whose turn never came.
Through == {p \in fill.examined :
              \A c \in fill.cands : fill.answers[c.id] = "null" => Before(p, CandPos(c))}

Last(positions) == CHOOSE p \in positions : \A q \in positions \ {p} : Before(q, p)

\* advanceWatermark, never past the ceiling.
NewPos == IF Before(fill.ceiling, Last(Through)) THEN fill.ceiling ELSE Last(Through)

\* What the retry pass may use of the run's rows.
Left == Budget - Cardinality({c \in fill.cands : fill.answers[c.id] # "null"})

AdvanceWatermark ==
    /\ FillAt("advance") /\ fill.pass = "changed"
    /\ mark' = IF Through = {} THEN mark ELSE [mark EXCEPT !.pos = NewPos]
    /\ IF Left > 0
       THEN FillGoes([IdleFill EXCEPT !.pc = "errors", !.pass = "retry", !.fp = fill.fp,
                        !.asked = fill.asked, !.left = Left])
       ELSE LetGo
    /\ UNCHANGED past /\ Quiet

\* errorRowIds: the cells that failed on an earlier run, as many as the budget allows.
FindErrors ==
    LET failed == {r \in Rows : cell[r].status = "error"} \ fill.asked IN
    /\ FillAt("errors")
    /\ IF failed = {}
       THEN LetGo
       ELSE \E ids \in SUBSET failed :
              /\ Cardinality(ids) = IF fill.left < Cardinality(failed) THEN fill.left ELSE Cardinality(failed)
              /\ FillGoes([fill EXCEPT !.pc = "retry", !.ids = ids])
    /\ UNCHANGED <<mark, past>> /\ Quiet

\* rowsForAi.
ReadRetried ==
    /\ FillAt("retry")
    /\ FillGoes([fill EXCEPT !.cands = {Snapshot(r) : r \in fill.ids \cap Live}, !.asked = {},
                             !.ids = @ \ Live,
                             !.pc = IF fill.ids \subseteq Live THEN "ask" ELSE "drop"])
    /\ UNCHANGED <<mark, past>> /\ Quiet

DropMissing ==
    /\ FillAt("drop")
    /\ cell' = [r \in Rows |-> IF r \in fill.ids THEN NoCell ELSE cell[r]]
    /\ FillGoes([fill EXCEPT !.pc = "ask", !.ids = {}])
    /\ UNCHANGED <<clock, row, writer, mark, past, world>>

EndRun ==
    /\ FillAt("advance") /\ fill.pass = "retry"
    /\ LetGo
    /\ UNCHANGED <<mark, past>> /\ Quiet

-----------------------------------------------------------------------------
(* Refill, a changed question, and the nightly purge *)

AskerGoes(step, refill) == asker' = [asker EXCEPT !.pc = step, !.refill = refill]

ClearedAll == {r \in Rows : cell[r].status # "none"}  \* mutant: a refill takes manual cells too

\* clearForRefill.
Cleared == {r \in Rows : cell[r].status \notin {"none", "manual"}}

Refill ==
    /\ asker.pc = "idle" /\ asker.count < MaxAsks
    /\ cell' = [r \in Rows |-> IF r \in Cleared THEN NoCell ELSE cell[r]]
    /\ past' = [past EXCEPT !.dropped = [r \in Rows |-> IF r \in Cleared THEN "refill" ELSE @[r]]]
    /\ asker' = [pc |-> "reset", refill |-> TRUE, count |-> asker.count + 1]
    /\ UNCHANGED <<clock, row, mark, question, writer, fill, runner>>

ResetWatermark ==
    /\ asker.pc = "reset"
    /\ mark' = [mark EXCEPT !.pos = Start]
    /\ AskerGoes("request", TRUE)
    /\ UNCHANGED <<clock, row, cell, question, writer, fill, runner, past>>

\* SchemaService.updateField: values the new options no longer include become empty and
\* their cells go.  Neither touches updated_at.
ChangeQuestion ==
    /\ asker.pc = "idle" /\ asker.count < MaxAsks
    /\ \E q \in Questions \ {question}, emptied \in SUBSET {r \in Live : row[r].val # "none"} :
          /\ question' = q
          /\ row' = [r \in Rows |-> IF r \in emptied THEN [row[r] EXCEPT !.val = "none"] ELSE row[r]]
          /\ cell' = [r \in Rows |-> IF r \in emptied THEN NoCell ELSE cell[r]]
          /\ past' = [past EXCEPT !.sure = @ \ emptied, !.fresh = @ \ emptied,
                        !.dropped = [r \in Rows |-> IF r \in emptied THEN "question" ELSE @[r]]]
    /\ asker' = [pc |-> "request", refill |-> FALSE, count |-> asker.count + 1]
    /\ UNCHANGED <<clock, mark, writer, fill, runner>>

\* `changed`, and the last line of `refill`.
RequestFill ==
    /\ asker.pc = "request"
    /\ StartBackground
    /\ past' = [past EXCEPT !.wanted = TRUE,
                  !.dropped = [r \in Rows |-> IF asker.refill /\ @[r] = "refill" THEN "asked" ELSE @[r]]]
    /\ AskerGoes("idle", FALSE)
    /\ UNCHANGED <<clock, row, cell, mark, question, writer>>

AskFails ==
    /\ asker.pc # "idle"
    /\ AskerGoes("idle", FALSE)
    /\ UNCHANGED <<clock, row, cell, mark, question, writer, fill, runner, past>>

\* purgeOrphans: a deleted row never comes back, so nothing can come between its reads of
\* the cells and of the rows and its delete that would change what it may take.
PurgeOrphans ==
    /\ cell' = [r \in Rows |-> IF r \in Live THEN cell[r] ELSE NoCell]
    /\ cell' # cell
    /\ UNCHANGED <<clock, row, mark, question, writer, fill, runner, asker, past>>

\* The plugin's worker goes down: transactions roll back, the rest is forgotten.
Restart ==
    /\ \/ runner.held \/ asker.pc # "idle" \/ \E w \in Writers : Busy(w)
    /\ writer' = [w \in Writers |-> IdleWriter]
    /\ fill' = IdleFill
    /\ runner' = [held |-> FALSE, again |-> FALSE]
    /\ asker' = IdleAsker(asker.count)
    /\ past' = [past EXCEPT !.wanted = FALSE]
    /\ UNCHANGED <<clock, row, cell, mark, question>>
-----------------------------------------------------------------------------
Init ==
    /\ clock = 0
    /\ row = [r \in Rows |-> NewRow]
    /\ cell = [r \in Rows |-> NoCell]
    /\ mark = [fp |-> "none", pos |-> Start]
    /\ question \in Questions
    /\ writer = [w \in Writers |-> IdleWriter]
    /\ fill = IdleFill
    /\ runner = [held |-> FALSE, again |-> FALSE]
    /\ asker = IdleAsker(0)
    /\ past = [dropped |-> [r \in Rows |-> "no"], sure |-> {}, fresh |-> {}, wanted |-> FALSE]

RowWrites ==
    \/ \E w \in Writers : \/ BeginWrite(w) \/ CommitWrite(w) \/ ReadPrior(w)
                          \/ MarkManual(w) \/ HandBack(w) \/ WriteFails(w)
    \/ DeleteRow

Filling ==
    \/ StartJob \/ FillFails
    \/ ListColumns \/ SyncColumn \/ ReadCeiling \/ ReadPage \/ Deadline \/ ExaminePage
    \/ Decide \/ SettleCells \/ WriteBatch \/ AdvanceWatermark
    \/ FindErrors \/ ReadRetried \/ DropMissing \/ EndRun

Asking == Refill \/ ResetWatermark \/ ChangeQuestion \/ RequestFill \/ AskFails

Next == Tick \/ RowWrites \/ Filling \/ Asking \/ PurgeOrphans \/ Restart

Spec == Init /\ [][Next]_vars

-----------------------------------------------------------------------------
(* Properties *)

TypeOK ==
    /\ clock \in 0..MaxClock
    /\ row \in [Rows -> Row]
    /\ cell \in [Rows -> Cell]
    /\ mark \in Mark
    /\ question \in Questions
    /\ writer \in [Writers -> Writer]
    /\ fill \in Fill
    /\ runner \in Runner
    /\ asker \in Asker
    /\ past \in Past

\* Behind the mark: a scan will not see the row again.
Behind(r) == r \in Live /\ ~Before(mark.pos, RowPos(r))

\* A person's value, a failure the retry pass will take up, or an answer about these sources.
Told(r) == \/ cell[r].status \in {"manual", "error"}
           \/ /\ cell[r].status # "none"
              /\ cell[r].hash.fp = mark.fp /\ cell[r].hash.src = row[r].src

\* The watermark never leaves a changed row behind (columns.ts:27-33, 335-342): whatever a scan
\* will not read again has its answer, though a row commits late and its time may go back,
\* batches are cut short and runs die; but for what a refill or a question change discarded.
NothingLeftBehind == \A r \in Rows : Behind(r) => Told(r) \/ past.dropped[r] # "no"

\* A person's value, once recorded, is there and marked as theirs until someone changes it:
\* no fill, retry, refill, purge or late bookkeeping takes it (cells.ts:151, columns.ts:400-407).
RecordedValueStands == \A r \in past.sure : row[r].val = "person" /\ cell[r].status = "manual"

\* A cell written with a value tells of that value: an answer never claims a row that a person
\* wrote while the model was asked (columns.ts:408-416, records-service.ts:227-234).
CellTellsOfValue ==
    \A r \in past.fresh \cap Live :
        /\ cell[r].status = "auto" => row[r].val = "model"
        /\ cell[r].status = "review" => row[r].val = "none"

\* A requested fill begins: a request while a run holds the lock is never lost between the
\* end of that run and the release (columns.ts:233-250, 271-273).
RequestedFillHappens ==
    past.wanted => fill.pc = "list" \/ (runner.held /\ runner.again)

\* docs/decisions.md:232, "Refill discards every cell that is not manual and asks again":
\* with nothing running or requested, no row a finished refill cleared lies behind the mark
\* without a cell.
RefillAsksAgain ==
    ~runner.held
      => \A r \in Rows : past.dropped[r] = "asked" => Told(r) \/ ~Behind(r)
=============================================================================
