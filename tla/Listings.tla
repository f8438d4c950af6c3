------------------------------- MODULE Listings -------------------------------
(***************************************************************************)
(* What a reader of the API sees while others write: the paged lists of    *)
(* datasets, rules and analyses, and the details of an analysis, read in   *)
(* two statements.  An operation reads the clock before its transaction    *)
(* and stores that value when it commits, so rows appear in another order  *)
(* than their timestamps, and in the middle of what a client has paged     *)
(* through.                                                                *)
(*                                                                         *)
(* The datasets are those of one owner; the rules and analyses those of    *)
(* one of them.  Every SELECT sees what is committed (READ COMMITTED).     *)
(***************************************************************************)
EXTENDS Naturals, Sequences, SequencesExt, FiniteSets

CONSTANTS
    DatasetIds, RuleIds, AnalysisIds,   \* uuids, ordered as numbers
    Subject,    \* the dataset whose rules and analyses are listed
    Writers,
    Limit,      \* the limit of every page
    MaxTime,    \* bound on the clock
    MaxRows,    \* bound on the rows ever made
    Null

ASSUME ListingsAssumption ==
    /\ DatasetIds \cup RuleIds \cup AnalysisIds \subseteq Nat
    /\ Subject \in DatasetIds
    /\ Limit \in Nat \ {0}
    /\ MaxTime \in Nat
    /\ MaxRows \in Nat

VARIABLES
    clock,      \* datetime.now(UTC)
    datasets,   \* rows: id, created_at, updated_at, uploaded_at
    rules,      \* rows: id, created_at
    analyses,   \* rows: id, created_at, source_uploaded_at and measured: the
                \* rules that score and violation count were computed from
    results,    \* rows: analysis_id, source_rule_id
    used,       \* history: the ids given out, by table
    op,         \* what each writer is doing
    walk,       \* a client paging through one list
    detail      \* a client reading one analysis

vars == <<clock, datasets, rules, analyses, results, used, op, walk, detail>>

tables == <<datasets, rules, analyses, results>>

----------------------------------------------------------------------------
Init ==
    /\ clock = 0
    /\ datasets = {} /\ rules = {} /\ analyses = {} /\ results = {}
    /\ used = [datasets |-> {}, rules |-> {}, analyses |-> {}]
    /\ op = [w \in Writers |-> Null]
    /\ walk = Null
    /\ detail = Null

Tick ==
    /\ clock < MaxTime
    /\ clock' = clock + 1
    /\ UNCHANGED <<tables, used, op, walk, detail>>

Begin(w, operation) ==
    /\ op[w] = Null
    /\ op' = [op EXCEPT ![w] = operation]

End(w) == op' = [op EXCEPT ![w] = Null]

Doing(w, name) == op[w] # Null /\ op[w].name = name

\* uuid4 never gives the same id twice.
NewId(kind, id) ==
    /\ id \notin used[kind]
    /\ Cardinality(used.datasets) + Cardinality(used.rules) + Cardinality(used.analyses) < MaxRows
    /\ used' = [used EXCEPT ![kind] = @ \cup {id}]

\* The client's walk counts what is committed and deleted under it.
Inserted(kind) ==
    walk' = IF walk # Null /\ walk.kind = kind
            THEN [walk EXCEPT !.inserted = @ + 1] ELSE walk

Deleted(kind, id) ==
    walk' = IF walk # Null /\ walk.kind = kind
            THEN [walk EXCEPT !.deleted = @ + 1, !.steady = @ \ {id}] ELSE walk

----------------------------------------------------------------------------
(* create_dataset and upload_csv.                                          *)

StartCreateDataset(w, id) ==
    /\ NewId("datasets", id)
    /\ Begin(w, [name |-> "create_dataset",
                 row |-> [id |-> id, created_at |-> clock, updated_at |-> clock,
                          uploaded_at |-> Null]])
    /\ UNCHANGED <<clock, tables, walk, detail>>

CreateDataset(w) ==
    /\ Doing(w, "create_dataset")
    /\ datasets' = datasets \cup {op[w].row}
    /\ Inserted("datasets")
    /\ End(w)
    /\ UNCHANGED <<clock, rules, analyses, results, used, detail>>

\* get_for_owner has found the row; the candidate is written and scanned, and
\* the clock is read.
StartUpload(w, d) ==
    /\ Begin(w, [name |-> "upload_csv", id |-> d.id, now |-> clock])
    /\ UNCHANGED <<clock, tables, used, walk, detail>>

\* Mutant: updated_at keeps the value read before the lock.
StampLate(d, now) == [d EXCEPT !.uploaded_at = clock, !.updated_at = now]

Stamp(d, now) == [d EXCEPT !.uploaded_at = now, !.updated_at = now]

\* The transaction under the row lock.
UploadCsv(w) ==
    /\ Doing(w, "upload_csv")
    /\ datasets' = {IF d.id = op[w].id THEN Stamp(d, op[w].now) ELSE d : d \in datasets}
    /\ End(w)
    /\ UNCHANGED <<clock, rules, analyses, results, used, walk, detail>>

----------------------------------------------------------------------------
(* create_rule and delete_rule.                                            *)

UploadOf(id) == {d \in datasets : d.id = id /\ d.uploaded_at # Null}

StartCreateRule(w, id) ==
    /\ NewId("rules", id)
    /\ Begin(w, [name |-> "create_rule", row |-> [id |-> id, created_at |-> clock]])
    /\ UNCHANGED <<clock, tables, walk, detail>>

\* DatasetNotFound or DatasetNotReady, or the new row.
CreateRule(w) ==
    /\ Doing(w, "create_rule")
    /\ \/ UploadOf(Subject) = {} /\ UNCHANGED <<rules, walk>>
       \/ /\ UploadOf(Subject) # {}
          /\ rules' = rules \cup {op[w].row}
          /\ Inserted("rules")
    /\ End(w)
    /\ UNCHANGED <<clock, datasets, analyses, results, used, detail>>

DeleteRule(r) ==
    /\ rules' = rules \ {r}
    /\ Deleted("rules", r.id)
    /\ UNCHANGED <<clock, datasets, analyses, results, used, op, detail>>

----------------------------------------------------------------------------
(* create_analysis.                                                        *)

\* _capture_snapshot, under the row lock: DatasetNotReady and
\* AnalysisRequiresRules are the guards.
CaptureSnapshot(w) ==
    /\ rules # {}
    /\ \E d \in UploadOf(Subject) :
          Begin(w, [name |-> "capture", uploaded_at |-> d.uploaded_at,
                    rules |-> {r.id : r \in rules}])
    /\ UNCHANGED <<clock, tables, used, walk, detail>>

\* The engine has run; _persist_analysis makes the id and reads the clock.
StartPersist(w, id) ==
    /\ Doing(w, "capture")
    /\ NewId("analyses", id)
    /\ op' = [op EXCEPT ![w] =
           [name |-> "persist",
            row |-> [id |-> id, created_at |-> clock,
                     source_uploaded_at |-> @.uploaded_at, measured |-> @.rules]]]
    /\ UNCHANGED <<clock, tables, walk, detail>>

\* AnalysisDataIntegrityError, or any other failure before the transaction.
FailAnalysis(w) ==
    /\ Doing(w, "capture")
    /\ End(w)
    /\ UNCHANGED <<clock, tables, used, walk, detail>>

ResultModels(a) == [analysis_id : {a.id}, source_rule_id : a.measured]

\* Mutant: the analysis and its results in two transactions.
PersistAnalysisTwice(w) ==
    /\ Doing(w, "persist")
    /\ \/ /\ op[w].row \notin analyses
          /\ analyses' = analyses \cup {op[w].row}
          /\ Inserted("analyses")
          /\ UNCHANGED <<results, op>>
       \/ /\ op[w].row \in analyses
          /\ results' = results \cup ResultModels(op[w].row)
          /\ End(w)
          /\ UNCHANGED <<analyses, walk>>
    /\ UNCHANGED <<clock, datasets, rules, used, detail>>

\* The analysis and its results in one transaction.
PersistAnalysis(w) ==
    /\ Doing(w, "persist")
    /\ analyses' = analyses \cup {op[w].row}
    /\ results' = results \cup ResultModels(op[w].row)
    /\ Inserted("analyses")
    /\ End(w)
    /\ UNCHANGED <<clock, datasets, rules, used, detail>>

----------------------------------------------------------------------------
(* The lists.                                                              *)

\* Mutant: datasets by the time of their last change.
EarlierByChange(x, y) ==
    LET key(z) == IF "updated_at" \in DOMAIN z THEN z.updated_at ELSE z.created_at IN
    key(x) < key(y) \/ (key(x) = key(y) /\ x.id < y.id)

\* ORDER BY created_at, id.
Earlier(x, y) ==
    x.created_at < y.created_at \/ (x.created_at = y.created_at /\ x.id < y.id)

\* The row at i has i - 1 rows before it.
OldestFirst(table) ==
    [i \in 1 .. Cardinality(table) |->
        CHOOSE x \in table : Cardinality({y \in table : Earlier(y, x)}) = i - 1]

NewestFirst(table) == Reverse(OldestFirst(table))

\* LIMIT and OFFSET.
Page(rows, offset) ==
    SubSeq(rows, offset + 1, IF offset + Limit < Len(rows) THEN offset + Limit ELSE Len(rows))

ListDatasets(offset) == Page(OldestFirst(datasets), offset)

ListRules(offset) == Page(OldestFirst(rules), offset)

ListAnalyses(offset) == Page(NewestFirst(analyses), offset)

\* list_rules and list_analyses refuse a dataset that is not there.
Readable(kind) == kind = "datasets" \/ \E d \in datasets : d.id = Subject

IdsOf(kind) ==
    {x.id : x \in CASE kind = "datasets" -> datasets
                    [] kind = "rules"    -> rules
                    [] kind = "analyses" -> analyses}

\* A client walks through a list from the first page.  One client reads: a
\* reader writes nothing that another could see.
StartWalk(kind) ==
    /\ walk = Null /\ detail = Null
    /\ Readable(kind)
    /\ walk' = [kind |-> kind, offset |-> 0, listed |-> <<>>, ended |-> FALSE,
                steady |-> IdsOf(kind), inserted |-> 0, deleted |-> 0]
    /\ UNCHANGED <<clock, tables, used, op, detail>>

\* A page that is not full is the last one.
Advance(page) ==
    /\ walk' = [walk EXCEPT !.offset = @ + Limit,
                            !.listed = @ \o [i \in DOMAIN page |-> page[i].id],
                            !.ended = Len(page) < Limit]
    /\ UNCHANGED <<clock, tables, used, op, detail>>

ReadPage ==
    /\ walk # Null /\ ~walk.ended
    /\ \/ walk.kind = "datasets" /\ Advance(ListDatasets(walk.offset))
       \/ walk.kind = "rules" /\ Advance(ListRules(walk.offset))
       \/ walk.kind = "analyses" /\ Advance(ListAnalyses(walk.offset))

----------------------------------------------------------------------------
(* get_analysis: the analysis, then its results.                           *)

GetForDatasetOwner(a) ==
    /\ walk = Null /\ detail = Null
    /\ detail' = [analysis |-> a, results |-> Null]
    /\ UNCHANGED <<clock, tables, used, op, walk>>

ListForAnalysis ==
    /\ detail # Null /\ detail.results = Null
    /\ detail' = [detail EXCEPT !.results =
           {r.source_rule_id : r \in {x \in results : x.analysis_id = detail.analysis.id}}]
    /\ UNCHANGED <<clock, tables, used, op, walk>>

----------------------------------------------------------------------------
Next ==
    \/ Tick
    \/ \E w \in Writers :
          \/ \E id \in DatasetIds : StartCreateDataset(w, id)
          \/ \E id \in RuleIds : StartCreateRule(w, id)
          \/ \E id \in AnalysisIds : StartPersist(w, id)
          \/ \E d \in datasets : StartUpload(w, d)
          \/ CreateDataset(w) \/ UploadCsv(w) \/ CreateRule(w)
          \/ CaptureSnapshot(w) \/ FailAnalysis(w) \/ PersistAnalysis(w)
    \/ \E r \in rules : DeleteRule(r)
    \/ \E kind \in {"datasets", "rules", "analyses"} : StartWalk(kind)
    \/ ReadPage
    \/ \E a \in analyses : GetForDatasetOwner(a)
    \/ ListForAnalysis

Spec == Init /\ [][Next]_vars

----------------------------------------------------------------------------
(* Properties.                                                             *)

\* A client that pages through a list to its end misses no more rows than were
\* deleted under it, and sees no more rows twice than were committed under it,
\* although rows are committed with timestamps older than those it has passed.
\* In particular no dataset and no analysis is ever missed.
PagesCoverTheList ==
    walk # Null /\ walk.ended =>
        LET seen == {walk.listed[i] : i \in DOMAIN walk.listed} IN
        /\ Cardinality(walk.steady \ seen) <= walk.deleted
        /\ Len(walk.listed) - Cardinality(seen) <= walk.inserted

\* ck_datasets_updated_not_before_created and ck_datasets_upload_timestamps
\* never fire, although uploads commit in another order than they read the
\* clock; and no analysis is dated before the upload it measured.
TimestampsAgree ==
    /\ \A d \in datasets :
          /\ d.created_at <= d.updated_at
          /\ d.uploaded_at # Null =>
                d.created_at <= d.uploaded_at /\ d.uploaded_at <= d.updated_at
    /\ \A a \in analyses : a.source_uploaded_at <= a.created_at

\* The details of an analysis are whole: the results read in the second
\* statement are those the score in the first was computed from.
DetailsAreWhole ==
    detail # Null /\ detail.results # Null => detail.results = detail.analysis.measured

=============================================================================
