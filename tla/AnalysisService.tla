--------------------------- MODULE AnalysisService ---------------------------
(***************************************************************************)
(* analysis/service.py beside DatasetService: create_analysis captures the *)
(* upload and its rules under the dataset's row lock, evaluates them with  *)
(* no transaction open, and records the outcome in a second transaction.   *)
(* In between, uploads replace and delete the file, and rules come and go. *)
(***************************************************************************)
EXTENDS DatasetService

CONSTANTS
    Analysts,       \* create_analysis requests
    Parseable       \* the contents load_textual_csv reads as scan_csv did

ASSUME AnalysisAssumption ==
    /\ Analysts \subseteq Holders
    /\ Analysts \cap Requests = {}
    /\ Parseable \subseteq WellFormed
    /\ Null \notin [ds : Datasets, content : Contents, rules : SUBSET Rule]

VARIABLES
    analyses,       \* tables analyses and validation_results
    apc,            \* where each analysis is
    areq,           \* the user and the dataset of each analysis
    snapshot,       \* its SourceSnapshot and PersistedRuleSnapshots
    disconnected,   \* history: analyses whose first transaction was lost
    unread          \* history: analyses whose read of the file raised

analysisVars == <<analyses, apc, areq, snapshot, disconnected, unread>>
datasetVars  == <<datasets, validation_rules, storage, candidate, pc, req,
                  old_key, in_doubt, leaked>>
allVars      == <<vars, analysisVars>>

----------------------------------------------------------------------------
AnalysisReq == [user : Users, ds : Datasets]
Snapshot    == [key : Requests, content : Contents, rules : SUBSET Rule]
Recorded    == [id : Analysts, ds : Datasets, content : Contents,
                rules : SUBSET Rule]

ATxPcs    == {"locked", "rules_read"}
AInFlight == ATxPcs \cup {"waiting", "captured", "evaluated"}
AEnded    == {"done", "failed", "integrity_error", "crashed"}

AnalysisTypeOK ==
    /\ TypeOK
    /\ analyses \in SUBSET Recorded
    /\ apc \in [Analysts -> AInFlight \cup AEnded \cup {"idle"}]
    /\ areq \in [Analysts -> AnalysisReq \cup {Null}]
    /\ snapshot \in [Analysts -> Snapshot \cup {Null}]
    /\ disconnected \in SUBSET Analysts
    /\ unread \in SUBSET Analysts

AnalysisInit ==
    /\ Init
    /\ analyses = {}
    /\ apc = [a \in Analysts |-> "idle"]
    /\ areq = [a \in Analysts |-> Null]
    /\ snapshot = [a \in Analysts |-> Null]
    /\ disconnected = {}
    /\ unread = {}

----------------------------------------------------------------------------
AGoto(a, label) == apc' = [apc EXCEPT ![a] = label]

RulesOf(d) == {x \in validation_rules : x.ds = d}

ATxAlive(a) == row_lock[areq[a].ds] = a

StartAnalysis(a, u, d) ==
    /\ apc[a] = "idle"
    /\ AGoto(a, "waiting")
    /\ areq' = [areq EXCEPT ![a] = [user |-> u, ds |-> d]]
    /\ UNCHANGED <<row_lock, faults, analyses, snapshot, disconnected, unread>>

\* Mutant: get_for_owner instead of get_for_owner_for_update; the
\* transaction proceeds whoever holds the row.
CaptureRowUnlocked(a) ==
    /\ apc[a] = "waiting"
    /\ LET row == datasets[areq[a].ds] IN
       IF row.content = Null
       THEN AGoto(a, "failed") /\ UNCHANGED snapshot
       ELSE /\ AGoto(a, "rules_read")
            /\ snapshot' = [snapshot EXCEPT ![a] =
                  [key |-> row.key, content |-> row.content,
                   rules |-> RulesOf(areq[a].ds)]]
    /\ UNCHANGED <<row_lock, faults, analyses, areq, disconnected, unread>>

\* _capture_snapshot: get_for_owner_for_update finds no row of this user, so
\* it waits for nobody.
AnalysisNotFound(a) ==
    /\ apc[a] = "waiting"
    /\ ~Owns(areq[a].user, areq[a].ds)
    /\ AGoto(a, "failed")
    /\ UNCHANGED <<row_lock, faults, analyses, areq, snapshot, disconnected, unread>>

\* _capture_snapshot: get_for_owner_for_update waits for the row; then
\* DatasetNotReady, or the SourceSnapshot.
CaptureRow(a) ==
    /\ apc[a] = "waiting"
    /\ Owns(areq[a].user, areq[a].ds)
    /\ row_lock[areq[a].ds] = Null
    /\ LET row == datasets[areq[a].ds] IN
       IF row.content = Null
       THEN AGoto(a, "failed") /\ UNCHANGED <<row_lock, snapshot>>
       ELSE /\ AGoto(a, "locked")
            /\ row_lock' = [row_lock EXCEPT ![areq[a].ds] = a]
            /\ snapshot' = [snapshot EXCEPT ![a] =
                  [key |-> row.key, content |-> row.content, rules |-> {}]]
    /\ UNCHANGED <<faults, analyses, areq, disconnected, unread>>

\* Mutant: AnalysisRequiresRules leaves the transaction open.
CaptureRulesKeepsLock(a) ==
    /\ apc[a] = "locked"
    /\ ATxAlive(a)
    /\ IF RulesOf(areq[a].ds) = {}
       THEN AGoto(a, "failed") /\ UNCHANGED snapshot
       ELSE /\ AGoto(a, "rules_read")
            /\ snapshot' = [snapshot EXCEPT ![a].rules = RulesOf(areq[a].ds)]
    /\ UNCHANGED <<row_lock, faults, analyses, areq, disconnected, unread>>

\* _capture_snapshot: list_all_for_dataset, or AnalysisRequiresRules.
CaptureRules(a) ==
    /\ apc[a] = "locked"
    /\ ATxAlive(a)
    /\ IF RulesOf(areq[a].ds) = {}
       THEN AGoto(a, "failed") /\ Release(a) /\ UNCHANGED snapshot
       ELSE /\ AGoto(a, "rules_read")
            /\ snapshot' = [snapshot EXCEPT ![a].rules = RulesOf(areq[a].ds)]
            /\ UNCHANGED row_lock
    /\ UNCHANGED <<faults, analyses, areq, disconnected, unread>>

\* Mutant: the file's size and hash are not compared with the row.
CaptureFileUnverified(a) ==
    /\ apc[a] = "rules_read"
    /\ Release(a)
    /\ AGoto(a, IF ATxAlive(a) THEN "captured" ELSE "failed")
    /\ snapshot' = [snapshot EXCEPT ![a].content = storage[snapshot[a].key]]
    /\ UNCHANGED <<faults, analyses, areq, disconnected, unread>>

\* _read_verified_content, with the lock still held, and the end of the
\* transaction.  A file that is missing or differs from the row's size and
\* hash is an integrity error; a lost transaction fails at its commit.
CaptureFile(a) ==
    /\ apc[a] = "rules_read"
    /\ Release(a)
    /\ AGoto(a, IF storage[snapshot[a].key] # snapshot[a].content THEN "integrity_error"
                ELSE IF ~ATxAlive(a) THEN "failed" ELSE "captured")
    /\ UNCHANGED <<faults, analyses, areq, snapshot, disconnected, unread>>

\* load_textual_csv, adapt_rules and validate: the parsed table must have
\* the columns and rows of the snapshot, and a column for every rule.
Evaluate(a) ==
    /\ apc[a] = "captured"
    /\ AGoto(a, IF /\ snapshot[a].content \in Parseable
                   /\ \A x \in snapshot[a].rules :
                         ColumnOf[x.def] \in HeaderOf[snapshot[a].content]
                THEN "evaluated" ELSE "integrity_error")
    /\ UNCHANGED <<row_lock, faults, analyses, areq, snapshot, disconnected, unread>>

\* Mutant: the rules are read again when the analysis is recorded.
RecordRereading(a) ==
    analyses' = analyses \cup
        {[id |-> a, ds |-> areq[a].ds, content |-> snapshot[a].content,
          rules |-> RulesOf(areq[a].ds)]}

\* The Analysis row and one ValidationResult per rule, in one transaction.
Record(a) ==
    analyses' = analyses \cup
        {[id |-> a, ds |-> areq[a].ds, content |-> snapshot[a].content,
          rules |-> snapshot[a].rules]}

\* _persist_analysis.  The foreign key takes the dataset row FOR KEY SHARE,
\* which waits for a transaction that holds it FOR UPDATE.  A lost answer
\* changes only what the client sees.
PersistAnalysis(a) ==
    /\ apc[a] = "evaluated"
    /\ row_lock[areq[a].ds] = Null
    /\ Record(a)
    /\ \/ AGoto(a, "done") /\ UNCHANGED faults
       \/ AGoto(a, "failed") /\ Fault
    /\ UNCHANGED <<row_lock, areq, snapshot, disconnected, unread>>

----------------------------------------------------------------------------
(* Failures.                                                               *)

\* A statement raises and nothing was committed.
AnalysisFails(a) ==
    /\ apc[a] \in {"waiting", "locked", "evaluated"}
    /\ Fault
    /\ Release(a)
    /\ AGoto(a, "failed")
    /\ UNCHANGED <<analyses, areq, snapshot, disconnected, unread>>

\* _read_verified_content: opening or reading the file raises OSError or
\* ValueError, whatever the file holds.
ReadFails(a) ==
    /\ apc[a] = "rules_read"
    /\ Fault
    /\ Release(a)
    /\ AGoto(a, "integrity_error")
    /\ unread' = unread \cup {a}
    /\ UNCHANGED <<analyses, areq, snapshot, disconnected>>

AnalysisConnectionLost(a) ==
    /\ apc[a] \in ATxPcs
    /\ ATxAlive(a)
    /\ Fault
    /\ Release(a)
    /\ disconnected' = disconnected \cup {a}
    /\ UNCHANGED <<analyses, apc, areq, snapshot, unread>>

LostAnalysisRaises(a) ==
    /\ apc[a] = "locked"
    /\ ~ATxAlive(a)
    /\ AGoto(a, "failed")
    /\ UNCHANGED <<row_lock, faults, analyses, areq, snapshot, disconnected, unread>>

\* The process dies: requests and analyses alike.
ProcessCrash ==
    /\ \/ \E r \in Requests : pc[r] \in InFlight
       \/ \E a \in Analysts : apc[a] \in AInFlight
    /\ CrashRequests
    /\ apc' = [a \in Analysts |-> IF apc[a] \in AInFlight THEN "crashed" ELSE apc[a]]
    /\ UNCHANGED <<analyses, areq, snapshot, disconnected, unread>>

----------------------------------------------------------------------------
(* The specification.                                                      *)

AnalysisStep(a) ==
    /\ \/ AnalysisNotFound(a) \/ CaptureRow(a) \/ CaptureRules(a)
       \/ CaptureFile(a) \/ Evaluate(a) \/ PersistAnalysis(a) \/ LostAnalysisRaises(a)
    /\ UNCHANGED datasetVars

AnalysisMishap(a) ==
    /\ AnalysisFails(a) \/ ReadFails(a) \/ AnalysisConnectionLost(a)
    /\ UNCHANGED datasetVars

AllQuiescent ==
    /\ \A r \in Requests : pc[r] \in Terminal
    /\ \A a \in Analysts : apc[a] \in AEnded
    /\ UNCHANGED allVars

AnalysisNext ==
    \/ RequestNext /\ UNCHANGED analysisVars
    \/ \E a \in Analysts, u \in Users, d \in Datasets :
          StartAnalysis(a, u, d) /\ UNCHANGED datasetVars
    \/ \E a \in Analysts : AnalysisStep(a) \/ AnalysisMishap(a)
    \/ ProcessCrash
    \/ AllQuiescent

AnalysisSpec == AnalysisInit /\ [][AnalysisNext]_allVars

\* A thread that has work to do gets to do it, and a lock that is free is
\* granted.
FairAnalysisSpec ==
    /\ AnalysisSpec
    /\ \A r \in Requests : WF_allVars(Step(r) /\ UNCHANGED analysisVars)
    /\ \A a \in Analysts : WF_allVars(AnalysisStep(a))

----------------------------------------------------------------------------
(* Properties.                                                             *)

\* An analysis that the row lock protects never fails its integrity check:
\* no upload removes or replaces the file between the read of the row and
\* the read of the file.  What remains is a file whose commit was in doubt,
\* an analysis that lost its lock, a read that the operating system refused,
\* and a file the two CSV parsers read differently.
IntegrityErrorsAreReal ==
    \A a \in Analysts : apc[a] = "integrity_error" =>
        \/ snapshot[a].key \in in_doubt
        \/ a \in disconnected
        \/ a \in unread
        \/ snapshot[a].content \notin Parseable

\* An analysis inside its transaction that still holds the row sees the
\* upload and the file that the row names.
LockedSnapshotIsCurrent ==
    \A a \in Analysts :
        apc[a] \in ATxPcs /\ ATxAlive(a) =>
            /\ snapshot[a].key = datasets[areq[a].ds].key
            /\ snapshot[a].content = datasets[areq[a].ds].content

\* What an analysis is working on, seen from the Catalog: from the read of
\* the rules until it is recorded or given up.
Pending(a) ==
    IF apc[a] \in {"rules_read", "captured", "evaluated"}
    THEN [ds |-> areq[a].ds, content |-> snapshot[a].content,
          rules |-> snapshot[a].rules]
    ELSE Null

AbstractCatalog == INSTANCE Catalog WITH
    RuleIds <- Requests,
    upload  <- [d \in Datasets |-> datasets[d].content],
    rules   <- validation_rules,
    pending <- [a \in Analysts |-> Pending(a)],
    history <- {[id |-> x.id, result |->
                    [ds |-> x.ds, content |-> x.content, rules |-> x.rules]]
                : x \in analyses}

\* The two services implement the Catalog: uploads, rule changes, captures
\* and records are atomic there, whatever interleaves, fails or crashes here.
ImplementsCatalog == AbstractCatalog!Spec

\* Every analysis that started ends, although it waits for the row twice,
\* the second time while it holds nothing.
AnalysesEnd ==
    \A a \in Analysts : apc[a] \in AInFlight ~> apc[a] \in AEnded

=============================================================================
