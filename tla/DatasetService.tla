--------------------------- MODULE DatasetService ---------------------------
(***************************************************************************)
(* datasets/service.py, datasets/storage.py and datasets/repositories.py:  *)
(* datasets, their active CSV file and their validation rules.             *)
(*                                                                         *)
(* The state is a PostgreSQL database (READ COMMITTED, `with_for_update`   *)
(* row locks), a directory of files, and one process per HTTP request (the *)
(* handlers are synchronous and run in a thread pool).  A dataset row and  *)
(* its file cannot change atomically, so the steps of upload_csv, and what *)
(* its exception handler does when one of them fails, are separate actions *)
(* that interleave with every other request.                               *)
(*                                                                         *)
(* Storage keys and rule ids are uuid4 values: they never repeat, so the   *)
(* key, the candidate and the rule a request makes are named by the        *)
(* request itself.                                                         *)
(***************************************************************************)
EXTENDS Naturals

CONSTANTS
    Users,          \* account ids
    Datasets,       \* dataset ids create_dataset may draw
    Columns,        \* column names
    Contents,       \* CSV bodies a client may send
    WellFormed,     \* the bodies scan_csv accepts
    Oversize,       \* the bodies above MAX_CSV_BYTES
    HeaderOf,       \* the column names of a body
    RuleDefs,       \* (rule_type, target_column, configuration) triples
    ColumnOf,       \* the target_column of a rule definition
    Requests,       \* upload, create-rule and delete-rule requests
    Holders,        \* whoever may lock a dataset row: Requests and analyses
    MaxFaults,      \* bound on the faults of a behaviour
    Null,           \* SQL NULL, no file, no owner of a lock
    Partial         \* a file that is still being written

ASSUME DatasetAssumption ==
    /\ WellFormed \subseteq Contents
    /\ Oversize \subseteq Contents
    /\ HeaderOf \in [Contents -> SUBSET Columns]
    /\ ColumnOf \in [RuleDefs -> Columns]
    /\ Requests \subseteq Holders
    /\ MaxFaults \in Nat
    /\ Null \notin Users /\ Null \notin Holders
    /\ Null \notin Contents /\ Partial \notin Contents /\ Null # Partial

VARIABLES
    datasets,          \* the rows of table datasets
    validation_rules,  \* the rows of table validation_rules
    row_lock,          \* the transaction holding a dataset row FOR UPDATE
    storage,           \* the installed files, by storage key
    candidate,         \* the .candidate-* files, by request
    pc,                \* where each request is
    req,               \* the parameters of each request
    old_key,           \* upload_csv's local old_key
    in_doubt,          \* history: keys whose COMMIT succeeded unacknowledged
    leaked,            \* history: files a fault kept from being cleaned up
    faults             \* faults so far

vars == <<datasets, validation_rules, row_lock, storage, candidate, pc, req,
          old_key, in_doubt, leaked, faults>>

----------------------------------------------------------------------------
(* Data.                                                                   *)

\* An upload sets storage_key, content_sha256, size_bytes, row_count and
\* column_names together; `content` stands for what they say of the file.
Row == [owner : Users \cup {Null}, key : Requests \cup {Null},
        content : Contents \cup {Null}]

NoRow == [owner |-> Null, key |-> Null, content |-> Null]

Rule == [id : Requests, ds : Datasets, def : RuleDefs]

UploadReq == [user : Users, ds : Datasets, body : Contents]
RuleReq   == [user : Users, ds : Datasets, def : RuleDefs]
DeleteReq == [user : Users, ds : Datasets, rule : Requests]

File == Contents \cup {Null, Partial}

\* Inside the `with database_session.begin()` block, the row lock taken.
UploadTx == {"locked", "checked", "installed"}
TxPcs    == UploadTx \cup {"rule_locked"}

UploadPcs == UploadTx \cup {"writing", "written", "scanned", "committed",
                            "abort", "abort_installed", "removing"}
RulePcs   == {"rule_wait", "rule_locked"}
Terminal  == {"done", "failed", "crashed"}
InFlight  == UploadPcs \cup RulePcs \cup {"rule_found"}
Pcs       == InFlight \cup Terminal \cup {"idle"}

\* The request may still discard its candidate, or remove its installed file.
OwnsCandidate == UploadPcs \ {"installed", "committed", "removing"}
OwnsInstalled == {"installed", "abort_installed", "removing"}

TypeOK ==
    /\ datasets \in [Datasets -> Row]
    /\ validation_rules \in SUBSET Rule
    /\ row_lock \in [Datasets -> Holders \cup {Null}]
    /\ storage \in [Requests -> File]
    /\ candidate \in [Requests -> File]
    /\ pc \in [Requests -> Pcs]
    /\ req \in [Requests -> UploadReq \cup RuleReq \cup DeleteReq \cup {Null}]
    /\ old_key \in [Requests -> Requests \cup {Null}]
    /\ in_doubt \in SUBSET Requests
    /\ leaked \in SUBSET Requests
    /\ faults \in 0 .. MaxFaults

Init ==
    /\ datasets = [d \in Datasets |-> NoRow]
    /\ validation_rules = {}
    /\ row_lock = [d \in Datasets |-> Null]
    /\ storage = [r \in Requests |-> Null]
    /\ candidate = [r \in Requests |-> Null]
    /\ pc = [r \in Requests |-> "idle"]
    /\ req = [r \in Requests |-> Null]
    /\ old_key = [r \in Requests |-> Null]
    /\ in_doubt = {}
    /\ leaked = {}
    /\ faults = 0

----------------------------------------------------------------------------
(* Queries and small steps shared by the operations.                       *)

\* Mutant: a query that forgets the owner.
OwnsAny(u, d) == datasets[d].owner # Null

\* DatasetRepository.get_for_owner and get_for_owner_for_update find a row
\* only for its owner.
Owns(u, d) == datasets[d].owner = u

\* ValidationRuleRepository.target_columns.
TargetColumns(d) == {ColumnOf[x.def] : x \in {y \in validation_rules : y.ds = d}}

ActiveKeys == {datasets[d].key : d \in Datasets} \ {Null}

\* The request's transaction is open: the database still knows its lock.
TxAlive(r) == row_lock[req[r].ds] = r

Goto(r, label) == pc' = [pc EXCEPT ![r] = label]

\* The end of a transaction, by commit, rollback or a dead connection.
Release(r) ==
    row_lock' = [d \in Datasets |-> IF row_lock[d] = r THEN Null ELSE row_lock[d]]

Fault == faults < MaxFaults /\ faults' = faults + 1

requestVars == <<pc, req, old_key>>
fileVars    == <<storage, candidate>>
ghostVars   == <<in_doubt, leaked>>

----------------------------------------------------------------------------
(* create_dataset.                                                         *)

CreateDataset(u, d) ==
    /\ datasets[d] = NoRow
    /\ datasets' = [datasets EXCEPT ![d] =
                       [owner |-> u, key |-> Null, content |-> Null]]
    /\ UNCHANGED <<validation_rules, row_lock, fileVars, requestVars,
                   ghostVars, faults>>

----------------------------------------------------------------------------
(* Requests refused before they change anything: DatasetNotFound in        *)
(* upload_csv and delete_rule, the filename and the column-name policies.  *)

Refuse(r) ==
    /\ pc[r] = "idle"
    /\ Goto(r, "failed")
    /\ UNCHANGED <<datasets, validation_rules, row_lock, fileVars, req,
                   old_key, ghostVars, faults>>

----------------------------------------------------------------------------
(* upload_csv.                                                             *)

\* The ownership check, in a transaction of its own, and the opening of the
\* candidate file.
StartUpload(r, u, d, c) ==
    /\ pc[r] = "idle"
    /\ Owns(u, d)
    /\ Goto(r, "writing")
    /\ req' = [req EXCEPT ![r] = [user |-> u, ds |-> d, body |-> c]]
    /\ candidate' = [candidate EXCEPT ![r] = Partial]
    /\ UNCHANGED <<datasets, validation_rules, row_lock, storage, old_key,
                   ghostVars, faults>>

\* write_candidate: the last chunk is written.
FinishCandidate(r) ==
    /\ pc[r] = "writing"
    /\ req[r].body \notin Oversize
    /\ Goto(r, "written")
    /\ candidate' = [candidate EXCEPT ![r] = req[r].body]
    /\ UNCHANGED <<datasets, validation_rules, row_lock, storage, req, old_key,
                   ghostVars, faults>>

\* write_candidate: FileTooLarge, and the candidate is unlinked.
TooLarge(r) ==
    /\ pc[r] = "writing"
    /\ req[r].body \in Oversize
    /\ Goto(r, "failed")
    /\ candidate' = [candidate EXCEPT ![r] = Null]
    /\ UNCHANGED <<datasets, validation_rules, row_lock, storage, req, old_key,
                   ghostVars, faults>>

\* write_candidate: the client disconnects or the disk is full; the unlink of
\* the handler may fail too.
WriteFails(r) ==
    /\ pc[r] = "writing"
    /\ Fault
    /\ Goto(r, "failed")
    /\ \/ candidate' = [candidate EXCEPT ![r] = Null] /\ UNCHANGED leaked
       \/ leaked' = leaked \cup {r} /\ UNCHANGED candidate
    /\ UNCHANGED <<datasets, validation_rules, row_lock, storage, req, old_key,
                   in_doubt>>

\* scan_csv: a CsvStructureError, or an OSError while the candidate is read.
ScanCsv(r) ==
    /\ pc[r] = "written"
    /\ \/ /\ Goto(r, IF candidate[r] \in WellFormed THEN "scanned" ELSE "abort")
          /\ UNCHANGED faults
       \/ Goto(r, "abort") /\ Fault
    /\ UNCHANGED <<datasets, validation_rules, row_lock, fileVars, req,
                   old_key, ghostVars>>

\* Mutant: old_key is not taken from the locked row.
LockForUploadStaleKey(r) ==
    /\ pc[r] = "scanned"
    /\ row_lock[req[r].ds] = Null
    /\ Goto(r, "locked")
    /\ row_lock' = [row_lock EXCEPT ![req[r].ds] = r]
    /\ UNCHANGED <<datasets, validation_rules, fileVars, req, old_key,
                   ghostVars, faults>>

\* get_for_owner_for_update: waits for the row, locks it and reads it.  Rows
\* are never deleted and never change owner, so the row is found again.
LockForUpload(r) ==
    /\ pc[r] = "scanned"
    /\ row_lock[req[r].ds] = Null
    /\ Owns(req[r].user, req[r].ds)
    /\ Goto(r, "locked")
    /\ old_key' = [old_key EXCEPT ![r] = datasets[req[r].ds].key]
    /\ row_lock' = [row_lock EXCEPT ![req[r].ds] = r]
    /\ UNCHANGED <<datasets, validation_rules, fileVars, req, ghostVars, faults>>

\* Mutant: no compatibility check.
CheckRulesSkipped(r) ==
    /\ pc[r] = "locked"
    /\ TxAlive(r)
    /\ Goto(r, "checked")
    /\ UNCHANGED <<datasets, validation_rules, row_lock, fileVars, req, old_key,
                   ghostVars, faults>>

\* Mutant: IncompatibleUpload leaves the transaction open.
CheckRulesKeepsLock(r) ==
    /\ pc[r] = "locked"
    /\ TxAlive(r)
    /\ Goto(r, IF TargetColumns(req[r].ds) \subseteq HeaderOf[req[r].body]
               THEN "checked" ELSE "abort")
    /\ UNCHANGED <<datasets, validation_rules, row_lock, fileVars, req, old_key,
                   ghostVars, faults>>

\* target_columns(dataset.id).issubset(structure.column_names), else
\* IncompatibleUpload: the transaction is rolled back.
CheckRules(r) ==
    /\ pc[r] = "locked"
    /\ TxAlive(r)
    /\ IF TargetColumns(req[r].ds) \subseteq HeaderOf[req[r].body]
       THEN Goto(r, "checked") /\ UNCHANGED row_lock
       ELSE Goto(r, "abort") /\ Release(r)
    /\ UNCHANGED <<datasets, validation_rules, fileVars, req, old_key,
                   ghostVars, faults>>

\* Mutant: the old file is removed before the commit.
InstallRemovesOld(r) ==
    /\ pc[r] = "checked"
    /\ Goto(r, "installed")
    /\ storage' = [[storage EXCEPT ![r] = candidate[r]] EXCEPT ![old_key[r]] = Null]
    /\ candidate' = [candidate EXCEPT ![r] = Null]
    /\ UNCHANGED <<datasets, validation_rules, row_lock, req, old_key,
                   ghostVars, faults>>

\* os.replace moves the candidate to its key.  No statement is sent, so this
\* happens even when the transaction is already dead.
Install(r) ==
    /\ pc[r] = "checked"
    /\ Goto(r, "installed")
    /\ storage' = [storage EXCEPT ![r] = candidate[r]]
    /\ candidate' = [candidate EXCEPT ![r] = Null]
    /\ UNCHANGED <<datasets, validation_rules, row_lock, req, old_key,
                   ghostVars, faults>>

\* Mutant: installed_key is assigned after install.
InstallFailsKeyUnset(r) ==
    /\ pc[r] = "checked"
    /\ Fault
    /\ Release(r)
    /\ Goto(r, "abort")
    /\ \/ UNCHANGED fileVars
       \/ /\ storage' = [storage EXCEPT ![r] = candidate[r]]
          /\ candidate' = [candidate EXCEPT ![r] = Null]
    /\ UNCHANGED <<datasets, validation_rules, req, old_key, ghostVars>>

\* install raises: os.replace itself, or the chmod after it.  installed_key
\* is already set.
InstallFails(r) ==
    /\ pc[r] = "checked"
    /\ Fault
    /\ Release(r)
    /\ Goto(r, "abort_installed")
    /\ \/ UNCHANGED fileVars
       \/ /\ storage' = [storage EXCEPT ![r] = candidate[r]]
          /\ candidate' = [candidate EXCEPT ![r] = Null]
    /\ UNCHANGED <<datasets, validation_rules, req, old_key, ghostVars>>

\* Mutant: storage_key and content_sha256 assigned to each other.
WriteRowSwapped(r) ==
    datasets' = [datasets EXCEPT ![req[r].ds] =
                    [owner |-> @.owner, key |-> req[r].body, content |-> r]]

\* The assignments to the row and its commit.
WriteRow(r) ==
    datasets' = [datasets EXCEPT ![req[r].ds] =
                    [owner |-> @.owner, key |-> r, content |-> req[r].body]]

\* Mutant: a lost transaction is replayed on a new connection, without the lock.
CommitReplayed(r) ==
    /\ pc[r] = "installed"
    /\ WriteRow(r)
    /\ Release(r)
    /\ Goto(r, "committed")
    /\ UNCHANGED <<validation_rules, fileVars, req, old_key, ghostVars, faults>>

Commit(r) ==
    /\ pc[r] = "installed"
    /\ TxAlive(r)
    /\ WriteRow(r)
    /\ Release(r)
    /\ Goto(r, "committed")
    /\ UNCHANGED <<validation_rules, fileVars, req, old_key, ghostVars, faults>>

\* PostgreSQL commits but its answer is lost: commit() raises, `committed`
\* stays False and the handler believes that the transaction failed.
CommitAckLost(r) ==
    /\ pc[r] = "installed"
    /\ TxAlive(r)
    /\ Fault
    /\ WriteRow(r)
    /\ Release(r)
    /\ Goto(r, "abort_installed")
    /\ in_doubt' = in_doubt \cup {r}
    /\ leaked' = leaked \cup ({old_key[r]} \ {Null})
    /\ UNCHANGED <<validation_rules, fileVars, req, old_key>>

----------------------------------------------------------------------------
(* upload_csv: the exception handler and the cleanup after the commit.     *)

DiscardCandidate(r) ==
    /\ pc[r] \in {"abort", "abort_installed"}
    /\ candidate' = [candidate EXCEPT ![r] = Null]
    /\ Goto(r, IF pc[r] = "abort" THEN "failed" ELSE "removing")
    /\ UNCHANGED <<datasets, validation_rules, row_lock, storage, req, old_key,
                   ghostVars, faults>>

\* discard_candidate raises: the rest of the handler is skipped.
DiscardFails(r) ==
    /\ pc[r] \in {"abort", "abort_installed"}
    /\ Fault
    /\ Goto(r, "failed")
    /\ leaked' = leaked \cup {k \in {r} : \/ candidate[r] # Null
                                          \/ pc[r] = "abort_installed"}
    /\ UNCHANGED <<datasets, validation_rules, row_lock, fileVars, req, old_key,
                   in_doubt>>

\* `installed_key is not None and not committed`.
RemoveInstalled(r) ==
    /\ pc[r] = "removing"
    /\ storage' = [storage EXCEPT ![r] = Null]
    /\ Goto(r, "failed")
    /\ UNCHANGED <<datasets, validation_rules, row_lock, candidate, req,
                   old_key, ghostVars, faults>>

RemoveInstalledFails(r) ==
    /\ pc[r] = "removing"
    /\ Fault
    /\ leaked' = leaked \cup {r}
    /\ Goto(r, "failed")
    /\ UNCHANGED <<datasets, validation_rules, row_lock, fileVars, req, old_key,
                   in_doubt>>

\* The superseded file goes, when there is one.
RemoveOld(r) ==
    /\ pc[r] = "committed"
    /\ storage' = [k \in Requests |-> IF k = old_key[r] THEN Null ELSE storage[k]]
    /\ Goto(r, "done")
    /\ UNCHANGED <<datasets, validation_rules, row_lock, candidate, req,
                   old_key, ghostVars, faults>>

\* The OSError is swallowed: the upload succeeds and the file is an orphan.
RemoveOldFails(r) ==
    /\ pc[r] = "committed"
    /\ old_key[r] # Null
    /\ Fault
    /\ leaked' = leaked \cup {old_key[r]}
    /\ Goto(r, "done")
    /\ UNCHANGED <<datasets, validation_rules, row_lock, fileVars, req, old_key,
                   in_doubt>>

\* Closing the session raises after `committed = True`.
PostCommitFailure(r) ==
    /\ pc[r] = "committed"
    /\ Fault
    /\ leaked' = leaked \cup ({old_key[r]} \ {Null})
    /\ Goto(r, "abort")
    /\ UNCHANGED <<datasets, validation_rules, row_lock, fileVars, req, old_key,
                   in_doubt>>

----------------------------------------------------------------------------
(* create_rule.                                                            *)

StartRule(r, u, d, f) ==
    /\ pc[r] = "idle"
    /\ Goto(r, "rule_wait")
    /\ req' = [req EXCEPT ![r] = [user |-> u, ds |-> d, def |-> f]]
    /\ UNCHANGED <<datasets, validation_rules, row_lock, fileVars, old_key,
                   ghostVars, faults>>

\* safe_column is among the column_names of an uploaded row: neither
\* DatasetNotReady nor UnknownColumn.
ColumnKnown(d, f) ==
    /\ datasets[d].content # Null
    /\ ColumnOf[f] \in HeaderOf[datasets[d].content]

\* get_for_owner_for_update finds no row of this user, so it waits for nobody.
RuleNotFound(r) ==
    /\ pc[r] = "rule_wait"
    /\ ~Owns(req[r].user, req[r].ds)
    /\ Goto(r, "failed")
    /\ UNCHANGED <<datasets, validation_rules, row_lock, fileVars, req, old_key,
                   ghostVars, faults>>

\* Mutant: DatasetNotReady and UnknownColumn leave the transaction open.
LockForRuleKeepsLock(r) ==
    /\ pc[r] = "rule_wait"
    /\ row_lock[req[r].ds] = Null
    /\ Owns(req[r].user, req[r].ds)
    /\ Goto(r, IF ColumnKnown(req[r].ds, req[r].def) THEN "rule_locked" ELSE "failed")
    /\ row_lock' = [row_lock EXCEPT ![req[r].ds] = r]
    /\ UNCHANGED <<datasets, validation_rules, fileVars, req, old_key,
                   ghostVars, faults>>

\* get_for_owner_for_update and the two checks on the row it returns; an
\* exception rolls back at once.
LockForRule(r) ==
    /\ pc[r] = "rule_wait"
    /\ row_lock[req[r].ds] = Null
    /\ Owns(req[r].user, req[r].ds)
    /\ IF ColumnKnown(req[r].ds, req[r].def)
       THEN /\ Goto(r, "rule_locked")
            /\ row_lock' = [row_lock EXCEPT ![req[r].ds] = r]
       ELSE Goto(r, "failed") /\ UNCHANGED row_lock
    /\ UNCHANGED <<datasets, validation_rules, fileVars, req, old_key,
                   ghostVars, faults>>

\* uq_validation_rules_definition.
Duplicate(r) ==
    \E x \in validation_rules : x.ds = req[r].ds /\ x.def = req[r].def

AddRule(r) ==
    validation_rules' = validation_rules \cup
        {[id |-> r, ds |-> req[r].ds, def |-> req[r].def]}

InsertRule(r) ==
    /\ pc[r] = "rule_locked"
    /\ TxAlive(r)
    /\ IF Duplicate(r)
       THEN Goto(r, "failed") /\ UNCHANGED validation_rules
       ELSE Goto(r, "done") /\ AddRule(r)
    /\ Release(r)
    /\ UNCHANGED <<datasets, fileVars, req, old_key, ghostVars, faults>>

\* The rule is committed but its answer is lost.
InsertAckLost(r) ==
    /\ pc[r] = "rule_locked"
    /\ TxAlive(r)
    /\ ~Duplicate(r)
    /\ Fault
    /\ AddRule(r)
    /\ Release(r)
    /\ Goto(r, "failed")
    /\ UNCHANGED <<datasets, fileVars, req, old_key, ghostVars>>

----------------------------------------------------------------------------
(* delete_rule: reads the rule, then deletes it when the transaction ends. *)
(* The dataset row is not locked.                                          *)

StartDelete(r, u, x) ==
    /\ pc[r] = "idle"
    /\ Owns(u, x.ds)
    /\ x \in validation_rules
    /\ Goto(r, "rule_found")
    /\ req' = [req EXCEPT ![r] = [user |-> u, ds |-> x.ds, rule |-> x.id]]
    /\ UNCHANGED <<datasets, validation_rules, row_lock, fileVars, old_key,
                   ghostVars, faults>>

\* A rule another request deleted meanwhile matches no row: only a warning.
\* A lost answer changes only what the client sees.
DeleteRule(r) ==
    /\ pc[r] = "rule_found"
    /\ validation_rules' = {x \in validation_rules : x.id # req[r].rule}
    /\ \/ Goto(r, "done") /\ UNCHANGED faults
       \/ Goto(r, "failed") /\ Fault
    /\ UNCHANGED <<datasets, row_lock, fileVars, req, old_key, ghostVars>>

----------------------------------------------------------------------------
(* Failures of the database connection and of the process.                 *)

\* Where an exception raised at a database statement leaves the request.
AfterException(r) ==
    IF pc[r] \in {"scanned", "locked"} THEN "abort"
    ELSE IF pc[r] = "installed" THEN "abort_installed" ELSE "failed"

\* A statement or the commit raises and nothing was committed.
TransactionFails(r) ==
    /\ pc[r] \in {"scanned", "locked", "installed", "rule_wait", "rule_locked",
                  "rule_found"}
    /\ Fault
    /\ Release(r)
    /\ Goto(r, AfterException(r))
    /\ UNCHANGED <<datasets, validation_rules, fileVars, req, old_key, ghostVars>>

\* The server aborts the transaction and frees its lock; the request only
\* learns of it from its next statement.
ConnectionLost(r) ==
    /\ pc[r] \in TxPcs
    /\ TxAlive(r)
    /\ Fault
    /\ Release(r)
    /\ UNCHANGED <<datasets, validation_rules, fileVars, requestVars, ghostVars>>

\* The next statement of a lost transaction raises.
LostTransactionRaises(r) ==
    /\ pc[r] \in TxPcs \ {"checked"}
    /\ ~TxAlive(r)
    /\ Goto(r, AfterException(r))
    /\ UNCHANGED <<datasets, validation_rules, row_lock, fileVars, req, old_key,
                   ghostVars, faults>>

\* The backend process dies: every request with it, its transactions are
\* rolled back and its files stay.
CrashRequests ==
    /\ Fault
    /\ pc' = [r \in Requests |-> IF pc[r] \in InFlight THEN "crashed" ELSE pc[r]]
    /\ row_lock' = [d \in Datasets |-> Null]
    /\ leaked' = leaked
          \cup {r \in Requests : pc[r] \in OwnsCandidate \cup OwnsInstalled}
          \cup ({old_key[r] : r \in {q \in Requests : pc[q] = "committed"}} \ {Null})
    /\ UNCHANGED <<datasets, validation_rules, fileVars, req, old_key, in_doubt>>

----------------------------------------------------------------------------
(* The specification.                                                      *)

Start(r) ==
    \/ Refuse(r)
    \/ \E u \in Users, d \in Datasets :
          \/ \E c \in Contents : StartUpload(r, u, d, c)
          \/ \E f \in RuleDefs : StartRule(r, u, d, f)
    \/ \E u \in Users, x \in validation_rules : StartDelete(r, u, x)

\* What a request does by itself once it has started.
Step(r) ==
    \/ FinishCandidate(r) \/ TooLarge(r) \/ ScanCsv(r)
    \/ LockForUpload(r) \/ CheckRules(r) \/ Install(r) \/ Commit(r)
    \/ DiscardCandidate(r) \/ RemoveInstalled(r) \/ RemoveOld(r)
    \/ RuleNotFound(r) \/ LockForRule(r) \/ InsertRule(r) \/ DeleteRule(r)
    \/ LostTransactionRaises(r)

Mishap(r) ==
    \/ WriteFails(r) \/ InstallFails(r) \/ CommitAckLost(r)
    \/ DiscardFails(r) \/ RemoveInstalledFails(r) \/ RemoveOldFails(r)
    \/ PostCommitFailure(r) \/ InsertAckLost(r)
    \/ TransactionFails(r) \/ ConnectionLost(r)

\* No request is left: the only state in which the system may stop.
Quiescent ==
    /\ \A r \in Requests : pc[r] \in Terminal
    /\ UNCHANGED vars

RequestNext ==
    \/ \E u \in Users, d \in Datasets : CreateDataset(u, d)
    \/ \E r \in Requests : Start(r) \/ Step(r) \/ Mishap(r)

Crash == (\E r \in Requests : pc[r] \in InFlight) /\ CrashRequests

Next ==
    \/ RequestNext
    \/ Crash
    \/ Quiescent

Spec == Init /\ [][Next]_vars

----------------------------------------------------------------------------
(* Properties.                                                             *)

\* "The committed row points to a complete file": whatever fails or crashes,
\* the file of an uploaded row exists and has the content the row describes.
\* The exception is a commit whose answer was lost.
ActiveFileIntact ==
    \A d \in Datasets :
        \/ datasets[d].key = Null
        \/ datasets[d].key \in in_doubt
        \/ storage[datasets[d].key] = datasets[d].content

\* The same without the exception, as the comment of upload_csv states it.
CommittedRowPointsToCompleteFile ==
    \A d \in Datasets :
        datasets[d].key # Null => storage[datasets[d].key] = datasets[d].content

\* Every rule targets a column of the active file, although create_rule and
\* upload_csv each check only what they see (UnknownColumn, IncompatibleUpload).
RulesTargetActiveHeader ==
    \A x \in validation_rules :
        /\ datasets[x.ds].content # Null
        /\ ColumnOf[x.def] \in HeaderOf[datasets[x.ds].content]

\* Every file on disk is the active file of a row, or belongs to a request
\* that will still remove it, or a fault is on record that kept it.
NoStrayFiles ==
    \A r \in Requests :
        /\ candidate[r] # Null => pc[r] \in OwnsCandidate \/ r \in leaked
        /\ storage[r] # Null =>
              \/ r \in ActiveKeys \cup leaked
              \/ pc[r] \in OwnsInstalled
              \/ \E q \in Requests : pc[q] = "committed" /\ old_key[q] = r

\* A row is locked only by a request inside its transaction on that row, so
\* no early return, exception or crash leaves a lock behind.
LocksBelongToTransactions ==
    \A d \in Datasets, r \in Requests :
        row_lock[d] = r => pc[r] \in TxPcs /\ req[r].ds = d

\* An upload replaces exactly the file it read as old_key, so the file that
\* it removes afterwards is one that no row names (no lost update).
ReplacesWhatItRead ==
    [][\A d \in Datasets :
          datasets'[d].key # datasets[d].key =>
              old_key[datasets'[d].key] = datasets[d].key]_vars

\* Only its owner's requests change a dataset or its rules.
OwnerIsolation ==
    [][/\ \A d \in Datasets :
             datasets[d].owner # Null /\ datasets'[d] # datasets[d] =>
                /\ datasets'[d].owner = datasets[d].owner
                /\ req[datasets'[d].key].user = datasets[d].owner
       /\ \A x \in validation_rules' \ validation_rules :
             req[x.id].user = datasets[x.ds].owner
       /\ \A x \in validation_rules \ validation_rules' :
             \E r \in Requests :
                /\ pc[r] = "rule_found" /\ pc'[r] # "rule_found"
                /\ req[r].rule = x.id /\ req[r].user = datasets[x.ds].owner]_vars

\* Every request that started ends, whoever else holds the row it waits for
\* and whatever fails (no deadlock on row locks, no handler that stops).
RequestsEnd ==
    \A r \in Requests : pc[r] \in InFlight ~> pc[r] \in Terminal

----------------------------------------------------------------------------
(* The inductive invariant behind the properties above.                    *)

\* The request has committed, or has given up: it will not commit any more.
PastCommit == {"committed", "abort", "abort_installed", "removing"} \cup Terminal

\* A request's parameters are those of the operation it is in.
RequestsTyped ==
    \A r \in Requests :
        /\ pc[r] \in UploadPcs => req[r] \in UploadReq
        /\ pc[r] \in RulePcs => req[r] \in RuleReq
        /\ pc[r] = "rule_found" => req[r] \in DeleteReq

\* A row describes the upload that committed it; while that upload's handler
\* is about to remove the file, the commit is in doubt.
RowsDescribeUploads ==
    \A d \in Datasets :
        /\ datasets[d].key = Null <=> datasets[d].content = Null
        /\ \A k \in Requests : datasets[d].key = k =>
              /\ req[k] \in UploadReq
              /\ req[k].ds = d
              /\ req[k].body = datasets[d].content
              /\ pc[k] \in PastCommit
              /\ pc[k] \in {"abort_installed", "removing"} => k \in in_doubt

\* The candidate, and then the installed file, is the body of the request.
FilesHoldBodies ==
    \A r \in Requests :
        /\ pc[r] \in {"written", "scanned", "locked", "checked"} =>
              candidate[r] = req[r].body
        /\ pc[r] = "installed" => storage[r] = req[r].body

\* old_key is the row's key as long as the lock is held; afterwards it names
\* an upload that no row has and that will not commit again.
OldKeysSuperseded ==
    \A r \in Requests :
        /\ old_key[r] # Null => pc[old_key[r]] \in PastCommit
        /\ pc[r] \in UploadTx /\ row_lock[req[r].ds] = r =>
              old_key[r] = datasets[req[r].ds].key
        /\ pc[r] = "committed" =>
              \A d \in Datasets : old_key[r] # Null => datasets[d].key # old_key[r]

\* What a transaction has checked under the lock still holds at its commit.
ChecksStillHold ==
    \A r \in Requests :
        pc[r] \in TxPcs /\ row_lock[req[r].ds] = r =>
            /\ pc[r] \in {"checked", "installed"} =>
                  \A x \in validation_rules :
                      x.ds = req[r].ds => ColumnOf[x.def] \in HeaderOf[req[r].body]
            /\ pc[r] = "rule_locked" => ColumnKnown(req[r].ds, req[r].def)

DatasetInv ==
    /\ TypeOK
    /\ RequestsTyped
    /\ LocksBelongToTransactions
    /\ RowsDescribeUploads
    /\ FilesHoldBodies
    /\ OldKeysSuperseded
    /\ ChecksStillHold
    /\ ActiveFileIntact
    /\ RulesTargetActiveHeader
    /\ NoStrayFiles

=============================================================================
