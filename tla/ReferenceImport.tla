-------------------------- MODULE ReferenceImport --------------------------
(***************************************************************************)
(* The import of the reference data: import_latest_kospi_top100            *)
(* (reference_data/service.py) with the KRX client it asks (krx.py), the   *)
(* tables it writes (models.py) and the transactions of PostgreSQL, which  *)
(* run at READ COMMITTED: a statement sees the rows that were committed    *)
(* when it began, and a row that another transaction has written cannot be *)
(* written before that one ends.  The DELETE of an import is one statement *)
(* about many rows: it takes its snapshot (BeginDelete) and then deletes   *)
(* row by row, waiting where it must (DeleteRow), while others may commit. *)
(*                                                                         *)
(* KRX gives one record per ticker.  Trading value and volume, the two     *)
(* sort keys before the ticker, are one number; 0 is a symbol that was not *)
(* traded.  TopCount stands for 100.                                       *)
(***************************************************************************)
EXTENDS Integers, Sequences, FiniteSets

CONSTANTS
    Importers,     \* places where the import command runs, again and again
    Tickers,       \* tickers, ordered as numbers
    Values,        \* trading values
    TopCount,      \* symbols to select
    Yesterday,     \* the newest date that may be asked for; dates count from 1
    LookbackDays,  \* lookback_days
    Requests,      \* dates a run may be asked for, 0 for the newest
    MaxAttempts    \* max_attempts

ASSUME ImportAssumption ==
    /\ Tickers \subseteq Nat \ {0} /\ IsFiniteSet(Tickers) /\ Values \subseteq Nat
    /\ TopCount \in Nat \ {0} /\ Yesterday \in Nat \ {0} /\ MaxAttempts \in Nat \ {0}
    /\ LookbackDays \in 1 .. Yesterday /\ Requests \subseteq 0 .. Yesterday

Dates == 1 .. Yesterday
NoDate == 0
Records == [Tickers -> Values]

VARIABLES
    holidays,  \* dates for which KRX has no rows
    imp,       \* each importer
    run,       \* its row of ReferenceImportRun: status and trade_date
    rows,      \* MarketDaily as committed: rank of a ticker on a date, or 0
    doomed,    \* rows the DELETE of an importer has found and not yet deleted
    missed,    \* history: importers whose DELETE began before another import
               \* committed a new row that they do not select
    mixed      \* history: dates whose last commit was of such an importer

importVars == <<holidays, imp, run, rows, doomed, missed, mixed>>

NoRows == [t \in Tickers |-> 0]
NewImporter ==
    [at |-> "new", requested |-> NoDate, date |-> NoDate, attempt |-> 0, asked |-> 0,
     records |-> NoRows, selected |-> << >>, gone |-> {}, written |-> 0]

ImportInit ==
    /\ holidays \in SUBSET Dates
    /\ imp = [p \in Importers |-> NewImporter]
    /\ run = [p \in Importers |-> [status |-> "none", date |-> NoDate]]
    /\ rows = [d \in Dates |-> NoRows]
    /\ doomed = [p \in Importers |-> {}] /\ missed = {} /\ mixed = {}

At(p, place) == imp[p].at = place

-----------------------------------------------------------------------------
(* Asking KRX *)

Busy(p) == imp[p].at \in {"fetch", "select", "delete", "write"}

\* A run begins, for a date or for the newest day; each call has a run of its own.
Begin(p, requested) ==
    /\ ~Busy(p)
    /\ imp' = [imp EXCEPT ![p] =
                  [NewImporter EXCEPT !.at = "fetch", !.requested = requested, !.attempt = 1,
                       !.date = IF requested = NoDate THEN Yesterday ELSE requested, !.asked = 1]]
    /\ run' = [run EXCEPT ![p] = [status |-> "running", date |-> requested]]
    /\ UNCHANGED <<holidays, rows, doomed, missed, mixed>>

\* The transaction of p is over, and its DELETE with it.
RolledBack(p) == doomed' = [doomed EXCEPT ![p] = {}] /\ missed' = missed \ {p}

\* The handler of every exception of an import: what the transaction wrote is
\* rolled back and the run is FAILED.
Fails(p) ==
    /\ imp' = [imp EXCEPT ![p] = [NewImporter EXCEPT !.at = "failed"]]
    /\ run' = [run EXCEPT ![p].status = "failed"]
    /\ RolledBack(p)
    /\ UNCHANGED <<holidays, rows, mixed>>

\* Mutant of Retry: after the last attempt the count begins again.
RetryAgain(p) ==
    /\ At(p, "fetch")
    /\ imp' = [imp EXCEPT ![p].attempt = (@ % MaxAttempts) + 1]
    /\ UNCHANGED <<holidays, run, rows, doomed, missed, mixed>>

\* A failed connection, a timeout or a status of 500 and up is tried again.
Retry(p) ==
    /\ At(p, "fetch") /\ imp[p].attempt < MaxAttempts
    /\ imp' = [imp EXCEPT ![p].attempt = @ + 1]
    /\ UNCHANGED <<holidays, run, rows, doomed, missed, mixed>>

\* The last attempt failed, the request was refused (no key, a status below
\* 500, a code other than 200), or the answer is no list of records of the date.
FetchFails(p) == At(p, "fetch") /\ Fails(p)

\* Records of the date.
FetchRecords(p, records) ==
    /\ At(p, "fetch") /\ imp[p].date \notin holidays
    /\ imp' = [imp EXCEPT ![p].at = "select", ![p].records = records, ![p].attempt = 0, ![p].asked = 0]
    /\ UNCHANGED <<holidays, run, rows, doomed, missed, mixed>>

\* Mutant of FetchEmpty: a failed request counts as a day without rows.
FetchEmptyOrFailed(p) ==
    /\ At(p, "fetch")
    /\ IF imp[p].requested = NoDate /\ imp[p].asked < LookbackDays
       THEN /\ imp' = [imp EXCEPT ![p].date = @ - 1, ![p].asked = @ + 1, ![p].attempt = 1]
            /\ UNCHANGED <<holidays, run, rows, doomed, missed, mixed>>
       ELSE Fails(p)

\* No rows: the day before is asked for, LookbackDays times in all; a date that
\* was requested fails.
FetchEmpty(p) ==
    /\ At(p, "fetch") /\ imp[p].date \in holidays
    /\ IF imp[p].requested = NoDate /\ imp[p].asked < LookbackDays
       THEN /\ imp' = [imp EXCEPT ![p].date = @ - 1, ![p].asked = @ + 1, ![p].attempt = 1]
            /\ UNCHANGED <<holidays, run, rows, doomed, missed, mixed>>
       ELSE Fails(p)

-----------------------------------------------------------------------------
(* Selecting and storing *)

Traded(records) == {t \in Tickers : records[t] > 0}

\* The sort key: larger values first, then the smaller ticker.
Before(records, s, t) == records[s] > records[t] \/ (records[s] = records[t] /\ s < t)

\* The first count of the sorted records.
TopOf(records, count) ==
    [k \in 1 .. count |-> CHOOSE t \in Traded(records) :
        Cardinality({s \in Traded(records) : Before(records, s, t)}) = k - 1]

\* The records are sorted; too few that were traded fail the run.
Select(p) ==
    /\ At(p, "select")
    /\ IF Cardinality(Traded(imp[p].records)) < TopCount THEN Fails(p)
       ELSE /\ imp' = [imp EXCEPT ![p].at = "delete", ![p].selected = TopOf(imp[p].records, TopCount)]
            /\ UNCHANGED <<holidays, run, rows, doomed, missed, mixed>>

\* What a transaction has written so far: tickers whose rows it deleted, and
\* tickers it has stored a symbol and a row for.
Stored(p) == {imp[p].selected[k] : k \in 1 .. imp[p].written}
RowsTouched(p) == {<<imp[p].date, t>> : t \in imp[p].gone \cup Stored(p)}

\* Rows that p may write: no other transaction holds them, nor the symbols.
FreeFor(p, tickers, withSymbol) ==
    \A q \in Importers \ {p} :
        /\ RowsTouched(q) \cap {<<imp[p].date, t>> : t \in tickers} = {}
        /\ withSymbol => Stored(q) \cap tickers = {}

\* Mutant of Unselected: rows of the date are left as they are.
UnselectedNone(p) == {}

\* Committed rows of the date that are not selected any more.
Unselected(p) ==
    {t \in Tickers : rows[imp[p].date][t] # 0 /\ \A k \in DOMAIN imp[p].selected : imp[p].selected[k] # t}

\* The transaction begins with its DELETE, which will delete these rows and no others.
BeginDelete(p) ==
    /\ At(p, "delete")
    /\ imp' = [imp EXCEPT ![p].at = "write", ![p].records = NoRows]
    /\ doomed' = [doomed EXCEPT ![p] = Unselected(p)]
    /\ UNCHANGED <<holidays, run, rows, missed, mixed>>

\* The DELETE comes to one of its rows: it waits for an import that wrote it.  A row
\* that import deleted is doomed no more (Commit); one that it updated is deleted.
DeleteRow(p, t) ==
    /\ t \in doomed[p] /\ FreeFor(p, {t}, FALSE)
    /\ imp' = [imp EXCEPT ![p].gone = @ \cup {t}]
    /\ doomed' = [doomed EXCEPT ![p] = @ \ {t}]
    /\ UNCHANGED <<holidays, run, rows, missed, mixed>>

\* After the DELETE: update_or_create of the next symbol and its row.
UpdateOrCreate(p) ==
    /\ At(p, "write") /\ doomed[p] = {} /\ imp[p].written < TopCount
    /\ FreeFor(p, {imp[p].selected[imp[p].written + 1]}, TRUE)
    /\ imp' = [imp EXCEPT ![p].written = @ + 1]
    /\ UNCHANGED <<holidays, run, rows, doomed, missed, mixed>>

\* The statements of the transaction on the rows of the date.
RankOf(p, t) == CHOOSE k \in DOMAIN imp[p].selected : imp[p].selected[k] = t
RowsAfter(p) ==
    [t \in Tickers |-> IF t \in Stored(p) THEN RankOf(p, t)
                       ELSE IF t \in imp[p].gone THEN 0
                       ELSE rows[imp[p].date][t]]

\* The other imports of the date whose DELETE has begun.
Overlapping(p) == {q \in Importers \ {p} : At(q, "write") /\ imp[q].date = imp[p].date}

\* Those of them that find a new row of p neither in their snapshot nor in their selection.
Missing(p) ==
    {q \in Overlapping(p) : \E t \in Stored(p) :
        rows[imp[p].date][t] = 0 /\ \A k \in DOMAIN imp[q].selected : imp[q].selected[k] # t}

\* The run is SUCCESS in the same transaction.  What p has deleted is no row any more
\* for a DELETE that waited for it.
Commit(p) ==
    /\ At(p, "write") /\ imp[p].written = TopCount
    /\ rows' = [rows EXCEPT ![imp[p].date] = RowsAfter(p)]
    /\ run' = [run EXCEPT ![p] = [status |-> "success", date |-> imp[p].date]]
    /\ imp' = [imp EXCEPT ![p] = [NewImporter EXCEPT !.at = "done", !.requested = imp[p].requested]]
    /\ doomed' = [q \in Importers |-> IF q \in Overlapping(p) THEN doomed[q] \ imp[p].gone ELSE doomed[q]]
    /\ missed' = (missed \cup Missing(p)) \ {p}
    /\ mixed' = IF p \in missed THEN mixed \cup {imp[p].date} ELSE mixed \ {imp[p].date}
    /\ UNCHANGED holidays

\* Mutant of StoreFails: what was written before stays.
StoreFailsPartly(p) ==
    /\ imp[p].at \in {"delete", "write"}
    /\ rows' = [rows EXCEPT ![imp[p].date] = RowsAfter(p)]
    /\ imp' = [imp EXCEPT ![p] = [NewImporter EXCEPT !.at = "failed"]]
    /\ run' = [run EXCEPT ![p].status = "failed"]
    /\ RolledBack(p)
    /\ UNCHANGED <<holidays, mixed>>

\* The database refuses a statement; a deadlock of two imports ends so too.
StoreFails(p) == imp[p].at \in {"delete", "write"} /\ Fails(p)

\* The process dies, or the run cannot be saved as FAILED: the database rolls
\* back and nobody ends the run.
Dies(p) ==
    /\ Busy(p)
    /\ imp' = [imp EXCEPT ![p] = [NewImporter EXCEPT !.at = "dead"]]
    /\ RolledBack(p)
    /\ UNCHANGED <<holidays, run, rows, mixed>>

Step(p) ==
    \/ Retry(p) \/ FetchFails(p) \/ FetchEmpty(p)
    \/ \E records \in Records : FetchRecords(p, records)
    \/ Select(p) \/ BeginDelete(p) \/ UpdateOrCreate(p) \/ Commit(p) \/ StoreFails(p)
    \/ \E t \in Tickers : DeleteRow(p, t)

ImportNext == \E p \in Importers :
    (\E requested \in Requests : Begin(p, requested)) \/ Step(p) \/ Dies(p)

ImportSpec == ImportInit /\ [][ImportNext]_importVars

\* A process that is not dead goes on; its requests time out.
FairImportSpec == ImportSpec /\ \A p \in Importers : WF_importVars(Step(p))

-----------------------------------------------------------------------------
(* Properties *)

\* The types of the import's state: a transaction holds rows only while it runs.
ImportTypeOK ==
    /\ holidays \subseteq Dates /\ mixed \subseteq Dates
    /\ doomed \in [Importers -> SUBSET Tickers] /\ missed \subseteq Importers
    /\ rows \in [Dates -> [Tickers -> 0 .. TopCount]]
    /\ run \in [Importers -> [status : {"none", "running", "success", "failed"}, date : Dates \cup {NoDate}]]
    /\ \A p \in Importers :
         /\ imp[p].at \in {"new", "fetch", "select", "delete", "write", "done", "failed", "dead"}
         /\ imp[p].requested \in Dates \cup {NoDate} /\ imp[p].date \in Dates \cup {NoDate}
         /\ imp[p].attempt \in 0 .. MaxAttempts /\ imp[p].asked \in 0 .. Yesterday
         /\ imp[p].written \in 0 .. TopCount /\ imp[p].gone \subseteq Tickers
         /\ imp[p].written > 0 \/ imp[p].gone # {} \/ doomed[p] # {} => At(p, "write")

\* A reader of MarketDaily finds for every date no row, or TopCount rows with the
\* ranks 1 to TopCount: no half of an import, nothing left of an older one, however
\* imports of the date overlap, as long as none commits a new row that another,
\* whose DELETE had begun, does not select: READ COMMITTED hides that row from the
\* DELETE, also from one that waited (service.py:76-78).  The next import that
\* misses no row makes the date whole again, whatever was left there.  Ranks and
\* the importers' places are typed (ImportTypeOK).
WholeDates ==
    /\ ImportTypeOK
    /\ \A d \in Dates \ mixed :
        rows[d] = NoRows \/ \A k \in 1 .. TopCount : Cardinality({t \in Tickers : rows[d][t] = k}) = 1

\* Rows change with a run that becomes SUCCESS in the same step and only for its
\* trade date: a run that fails or dies has changed nothing.
OnlySuccessWrites ==
    [][\A d \in Dates : rows'[d] # rows[d] =>
          \E p \in Importers : run[p].status = "running" /\ run'[p] = [status |-> "success", date |-> d]]_importVars

\* Without a requested date, a successful run is about the newest day KRX has rows for.
NewestDay ==
    \A p \in Importers :
        At(p, "done") /\ imp[p].requested = NoDate =>
            \A d \in Dates : d > run[p].date => d \in holidays

\* Every run that is not abandoned by a dead process ends: retries and the
\* search for a day are bounded, and imports that wait for each other are not stuck.
RunEnds ==
    \A p \in Importers :
        run[p].status = "running" ~> (run[p].status \in {"success", "failed"} \/ At(p, "dead"))
=============================================================================
