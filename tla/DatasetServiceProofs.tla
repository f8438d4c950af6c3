------------------------ MODULE DatasetServiceProofs ------------------------
(***************************************************************************)
(* TLAPS proofs about DatasetService, for every set of users, datasets,    *)
(* contents, rules and requests and for any number of faults.              *)
(*                                                                         *)
(* The properties follow from the inductive invariant DatasetInv.  Its     *)
(* heart is that the row lock makes what a transaction has read stay true  *)
(* until its commit (OldKeysSuperseded, ChecksStillHold), although a lost  *)
(* connection may take the lock away at any moment, and that a row only    *)
(* names an upload that is past its commit (RowsDescribeUploads), so no    *)
(* exception handler removes a file that a row names unless the commit was *)
(* in doubt.                                                               *)
(***************************************************************************)
EXTENDS DatasetService, TLAPS

USE DEF DatasetInv, TypeOK, Row, NoRow, File, Pcs, InFlight, Terminal,
        PastCommit, UploadPcs, RulePcs, UploadTx, TxPcs, UploadReq, RuleReq,
        DeleteReq, Rule, Goto, Fault, requestVars, fileVars, ghostVars

----------------------------------------------------------------------------
(* Facts used throughout.                                                  *)

\* The end of a transaction frees its own lock and no other.
LEMMA ReleaseFact ==
  ASSUME TypeOK, NEW r \in Requests, Release(r)
  PROVE  \A d \in Datasets, q \in Holders :
            row_lock'[d] = q <=> row_lock[d] = q /\ q # r
  BY DatasetAssumption DEF Release

\* A storage key is never NULL.
LEMMA NullFact == Null \notin Requests
  BY DatasetAssumption

----------------------------------------------------------------------------
(* Type correctness.                                                       *)

\* Every value a step stores is of its variable's type: a row only ever
\* names the storage key of an upload, by the types of the requests.
LEMMA TypeStep == DatasetInv /\ [Next]_vars => TypeOK'
  <1> SUFFICES ASSUME DatasetInv, [Next]_vars PROVE TypeOK'
    OBVIOUS
  <1> USE DatasetAssumption DEF Release
  <1>1. ASSUME NEW u \in Users, NEW d \in Datasets, CreateDataset(u, d) PROVE TypeOK'
    BY <1>1 DEF CreateDataset
  <1>2. ASSUME NEW r \in Requests, Refuse(r) PROVE TypeOK'
    BY <1>2 DEF Refuse
  <1>3. ASSUME NEW r \in Requests, NEW u \in Users, NEW d \in Datasets,
               NEW c \in Contents, StartUpload(r, u, d, c)
        PROVE  TypeOK'
    BY <1>3 DEF StartUpload
  <1>4. ASSUME NEW r \in Requests, NEW u \in Users, NEW d \in Datasets,
               NEW f \in RuleDefs, StartRule(r, u, d, f)
        PROVE  TypeOK'
    BY <1>4 DEF StartRule
  <1>5. ASSUME NEW r \in Requests, NEW u \in Users, NEW x \in validation_rules,
               StartDelete(r, u, x)
        PROVE  TypeOK'
    BY <1>5 DEF StartDelete
  <1>6. ASSUME NEW r \in Requests, FinishCandidate(r) PROVE TypeOK'
    BY <1>6 DEF FinishCandidate, RequestsTyped
  <1>7. ASSUME NEW r \in Requests, TooLarge(r) PROVE TypeOK'
    BY <1>7 DEF TooLarge
  <1>8. ASSUME NEW r \in Requests, ScanCsv(r) PROVE TypeOK'
    BY <1>8 DEF ScanCsv
  <1>9. ASSUME NEW r \in Requests, LockForUpload(r) PROVE TypeOK'
    BY <1>9 DEF LockForUpload, RequestsTyped
  <1>10. ASSUME NEW r \in Requests, CheckRules(r) PROVE TypeOK'
    BY <1>10 DEF CheckRules
  <1>11. ASSUME NEW r \in Requests, Install(r) PROVE TypeOK'
    BY <1>11 DEF Install
  <1>12. ASSUME NEW r \in Requests, Commit(r) PROVE TypeOK'
    BY <1>12 DEF Commit, WriteRow, RequestsTyped
  <1>13. ASSUME NEW r \in Requests, DiscardCandidate(r) PROVE TypeOK'
    BY <1>13 DEF DiscardCandidate
  <1>14. ASSUME NEW r \in Requests, RemoveInstalled(r) PROVE TypeOK'
    BY <1>14 DEF RemoveInstalled
  <1>15. ASSUME NEW r \in Requests, RemoveOld(r) PROVE TypeOK'
    BY <1>15 DEF RemoveOld
  <1>16. ASSUME NEW r \in Requests, RuleNotFound(r) PROVE TypeOK'
    BY <1>16 DEF RuleNotFound
  <1>17. ASSUME NEW r \in Requests, LockForRule(r) PROVE TypeOK'
    <2>1. row_lock' \in [Datasets -> Holders \cup {Null}]
      BY <1>17 DEF LockForRule
    <2>2. pc' \in [Requests -> Pcs]
      BY <1>17 DEF LockForRule
    <2> QED
      BY <1>17, <2>1, <2>2 DEF LockForRule
  <1>18. ASSUME NEW r \in Requests, InsertRule(r) PROVE TypeOK'
    <2>1. req[r] \in RuleReq
      BY <1>18 DEF InsertRule, RequestsTyped
    <2>2. validation_rules' \in SUBSET Rule
      BY <1>18, <2>1 DEF InsertRule, AddRule
    <2>3. pc' \in [Requests -> Pcs]
      BY <1>18 DEF InsertRule
    <2> QED
      BY <1>18, <2>2, <2>3 DEF InsertRule
  <1>19. ASSUME NEW r \in Requests, DeleteRule(r) PROVE TypeOK'
    BY <1>19 DEF DeleteRule
  <1>20. ASSUME NEW r \in Requests, LostTransactionRaises(r) PROVE TypeOK'
    BY <1>20 DEF LostTransactionRaises, AfterException
  <1>21. ASSUME NEW r \in Requests, Mishap(r) PROVE TypeOK'
    <2>1. CASE WriteFails(r)
      BY <2>1 DEF WriteFails
    <2>2. CASE InstallFails(r)
      BY <2>2 DEF InstallFails
    <2>3. CASE CommitAckLost(r)
      BY <2>3 DEF CommitAckLost, WriteRow, RequestsTyped
    <2>4. CASE DiscardFails(r)
      BY <2>4 DEF DiscardFails
    <2>5. CASE RemoveInstalledFails(r)
      BY <2>5 DEF RemoveInstalledFails
    <2>6. CASE RemoveOldFails(r)
      BY <2>6 DEF RemoveOldFails
    <2>7. CASE PostCommitFailure(r)
      BY <2>7 DEF PostCommitFailure
    <2>8. CASE InsertAckLost(r)
      BY <2>8 DEF InsertAckLost, AddRule, RequestsTyped
    <2>9. CASE TransactionFails(r)
      BY <2>9 DEF TransactionFails, AfterException
    <2>10. CASE ConnectionLost(r)
      BY <2>10 DEF ConnectionLost
    <2> QED
      BY <1>21, <2>1, <2>2, <2>3, <2>4, <2>5, <2>6, <2>7, <2>8, <2>9, <2>10
         DEF Mishap
  <1>22. CASE Crash
    BY <1>22 DEF Crash, CrashRequests
  <1>23. CASE UNCHANGED vars
    BY <1>23 DEF vars
  <1> QED
    BY <1>1, <1>2, <1>3, <1>4, <1>5, <1>6, <1>7, <1>8, <1>9, <1>10, <1>11,
       <1>12, <1>13, <1>14, <1>15, <1>16, <1>17, <1>18, <1>19, <1>20, <1>21,
       <1>22, <1>23
       DEF Next, RequestNext, Start, Step, Quiescent

----------------------------------------------------------------------------
(* Preservation of the invariant, action by action.                        *)

\* create_dataset adds a row without an upload, which nothing refers to.
LEMMA CreateDatasetInv ==
  ASSUME NEW u \in Users, NEW d \in Datasets,
         DatasetInv, TypeOK', CreateDataset(u, d)
  PROVE  DatasetInv'
  <1>1. (RequestsTyped /\ LocksBelongToTransactions /\ RowsDescribeUploads /\
         FilesHoldBodies /\ OldKeysSuperseded /\ ChecksStillHold /\
         ActiveFileIntact /\ RulesTargetActiveHeader /\ NoStrayFiles)'
    BY NullFact, DatasetAssumption DEF CreateDataset, RequestsTyped,
       LocksBelongToTransactions, RowsDescribeUploads, FilesHoldBodies,
       OldKeysSuperseded, ChecksStillHold, ColumnKnown, ActiveFileIntact,
       RulesTargetActiveHeader, NoStrayFiles, ActiveKeys, OwnsCandidate,
       OwnsInstalled
  <1> QED
    BY <1>1

\* A refused request changes nothing but its own state.
LEMMA RefuseInv ==
  ASSUME NEW r \in Requests, DatasetInv, TypeOK', Refuse(r)
  PROVE  DatasetInv'
  <1>1. (RequestsTyped /\ LocksBelongToTransactions /\ RowsDescribeUploads /\
         FilesHoldBodies /\ OldKeysSuperseded /\ ChecksStillHold /\
         ActiveFileIntact /\ RulesTargetActiveHeader /\ NoStrayFiles)'
    BY NullFact, DatasetAssumption DEF Refuse, RequestsTyped,
       LocksBelongToTransactions, RowsDescribeUploads, FilesHoldBodies,
       OldKeysSuperseded, ChecksStillHold, ColumnKnown, ActiveFileIntact,
       RulesTargetActiveHeader, NoStrayFiles, ActiveKeys, OwnsCandidate,
       OwnsInstalled
  <1> QED
    BY <1>1

\* A new upload has a candidate of its own and no row names it.
LEMMA StartUploadInv ==
  ASSUME NEW r \in Requests, NEW u \in Users, NEW d \in Datasets,
         NEW c \in Contents, DatasetInv, TypeOK', StartUpload(r, u, d, c)
  PROVE  DatasetInv'
  <1>1. (RequestsTyped /\ LocksBelongToTransactions /\ RowsDescribeUploads /\
         FilesHoldBodies /\ OldKeysSuperseded /\ ChecksStillHold /\
         ActiveFileIntact /\ RulesTargetActiveHeader /\ NoStrayFiles)'
    BY NullFact, DatasetAssumption DEF StartUpload, RequestsTyped,
       LocksBelongToTransactions, RowsDescribeUploads, FilesHoldBodies,
       OldKeysSuperseded, ChecksStillHold, ColumnKnown, ActiveFileIntact,
       RulesTargetActiveHeader, NoStrayFiles, ActiveKeys, OwnsCandidate,
       OwnsInstalled
  <1> QED
    BY <1>1

\* A new create_rule request holds no lock yet.
LEMMA StartRuleInv ==
  ASSUME NEW r \in Requests, NEW u \in Users, NEW d \in Datasets,
         NEW f \in RuleDefs, DatasetInv, TypeOK', StartRule(r, u, d, f)
  PROVE  DatasetInv'
  <1>1. (RequestsTyped /\ LocksBelongToTransactions /\ RowsDescribeUploads /\
         FilesHoldBodies /\ OldKeysSuperseded /\ ChecksStillHold /\
         ActiveFileIntact /\ RulesTargetActiveHeader /\ NoStrayFiles)'
    BY NullFact, DatasetAssumption DEF StartRule, RequestsTyped,
       LocksBelongToTransactions, RowsDescribeUploads, FilesHoldBodies,
       OldKeysSuperseded, ChecksStillHold, ColumnKnown, ActiveFileIntact,
       RulesTargetActiveHeader, NoStrayFiles, ActiveKeys, OwnsCandidate,
       OwnsInstalled
  <1> QED
    BY <1>1

\* A delete_rule request that has found its rule holds no lock.
LEMMA StartDeleteInv ==
  ASSUME NEW r \in Requests, NEW u \in Users, NEW x \in validation_rules,
         DatasetInv, TypeOK', StartDelete(r, u, x)
  PROVE  DatasetInv'
  <1>1. (RequestsTyped /\ LocksBelongToTransactions /\ RowsDescribeUploads /\
         FilesHoldBodies /\ OldKeysSuperseded /\ ChecksStillHold /\
         ActiveFileIntact /\ RulesTargetActiveHeader /\ NoStrayFiles)'
    BY NullFact, DatasetAssumption DEF StartDelete, RequestsTyped,
       LocksBelongToTransactions, RowsDescribeUploads, FilesHoldBodies,
       OldKeysSuperseded, ChecksStillHold, ColumnKnown, ActiveFileIntact,
       RulesTargetActiveHeader, NoStrayFiles, ActiveKeys, OwnsCandidate,
       OwnsInstalled
  <1> QED
    BY <1>1

\* The complete candidate holds the body of the request.
LEMMA FinishCandidateInv ==
  ASSUME NEW r \in Requests, DatasetInv, TypeOK', FinishCandidate(r)
  PROVE  DatasetInv'
  <1>1. (RequestsTyped /\ LocksBelongToTransactions /\ RowsDescribeUploads /\
         FilesHoldBodies /\ OldKeysSuperseded /\ ChecksStillHold /\
         ActiveFileIntact /\ RulesTargetActiveHeader /\ NoStrayFiles)'
    BY NullFact, DatasetAssumption DEF FinishCandidate, RequestsTyped,
       LocksBelongToTransactions, RowsDescribeUploads, FilesHoldBodies,
       OldKeysSuperseded, ChecksStillHold, ColumnKnown, ActiveFileIntact,
       RulesTargetActiveHeader, NoStrayFiles, ActiveKeys, OwnsCandidate,
       OwnsInstalled
  <1> QED
    BY <1>1

\* FileTooLarge removes the only file of the request.
LEMMA TooLargeInv ==
  ASSUME NEW r \in Requests, DatasetInv, TypeOK', TooLarge(r)
  PROVE  DatasetInv'
  <1>1. (RequestsTyped /\ LocksBelongToTransactions /\ RowsDescribeUploads /\
         FilesHoldBodies /\ OldKeysSuperseded /\ ChecksStillHold /\
         ActiveFileIntact /\ RulesTargetActiveHeader /\ NoStrayFiles)'
    BY NullFact, DatasetAssumption DEF TooLarge, RequestsTyped,
       LocksBelongToTransactions, RowsDescribeUploads, FilesHoldBodies,
       OldKeysSuperseded, ChecksStillHold, ColumnKnown, ActiveFileIntact,
       RulesTargetActiveHeader, NoStrayFiles, ActiveKeys, OwnsCandidate,
       OwnsInstalled
  <1> QED
    BY <1>1

\* A candidate that could not be written is removed or recorded as leaked.
LEMMA WriteFailsInv ==
  ASSUME NEW r \in Requests, DatasetInv, TypeOK', WriteFails(r)
  PROVE  DatasetInv'
  <1>1. (RequestsTyped /\ LocksBelongToTransactions /\ RowsDescribeUploads /\
         FilesHoldBodies /\ OldKeysSuperseded /\ ChecksStillHold /\
         ActiveFileIntact /\ RulesTargetActiveHeader /\ NoStrayFiles)'
    BY NullFact, DatasetAssumption DEF WriteFails, RequestsTyped,
       LocksBelongToTransactions, RowsDescribeUploads, FilesHoldBodies,
       OldKeysSuperseded, ChecksStillHold, ColumnKnown, ActiveFileIntact,
       RulesTargetActiveHeader, NoStrayFiles, ActiveKeys, OwnsCandidate,
       OwnsInstalled
  <1> QED
    BY <1>1

\* scan_csv only reads the candidate.
LEMMA ScanCsvInv ==
  ASSUME NEW r \in Requests, DatasetInv, TypeOK', ScanCsv(r)
  PROVE  DatasetInv'
  <1>1. PICK label \in {"scanned", "abort"} :
           /\ pc[r] = "written" /\ pc' = [pc EXCEPT ![r] = label]
           /\ label = "scanned" => candidate[r] \in WellFormed
    BY DEF ScanCsv, Goto
  <1>2. UNCHANGED <<datasets, validation_rules, row_lock, fileVars, req, old_key, ghostVars>>
    BY DEF ScanCsv
  <1>3. (RequestsTyped /\ LocksBelongToTransactions /\ RowsDescribeUploads /\
         FilesHoldBodies /\ OldKeysSuperseded /\ ChecksStillHold /\
         ActiveFileIntact /\ RulesTargetActiveHeader /\ NoStrayFiles)'
    BY <1>1, <1>2, NullFact, DatasetAssumption DEF RequestsTyped,
       LocksBelongToTransactions, RowsDescribeUploads, FilesHoldBodies,
       OldKeysSuperseded, ChecksStillHold, ColumnKnown, ActiveFileIntact,
       RulesTargetActiveHeader, NoStrayFiles, ActiveKeys, OwnsCandidate,
       OwnsInstalled
  <1> QED
    BY <1>3

\* The lock is taken by one transaction, which reads the current key.
LEMMA LockForUploadInv ==
  ASSUME NEW r \in Requests, DatasetInv, TypeOK', LockForUpload(r)
  PROVE  DatasetInv'
  <1>1. OldKeysSuperseded'
    BY NullFact, DatasetAssumption DEF LockForUpload, OldKeysSuperseded,
       RequestsTyped, RowsDescribeUploads
  <1>2. (RequestsTyped /\ LocksBelongToTransactions /\ RowsDescribeUploads /\
         FilesHoldBodies /\ ChecksStillHold /\ ActiveFileIntact /\
         RulesTargetActiveHeader /\ NoStrayFiles)'
    BY NullFact, DatasetAssumption DEF LockForUpload, RequestsTyped,
       LocksBelongToTransactions, RowsDescribeUploads, FilesHoldBodies,
       ChecksStillHold, ColumnKnown, ActiveFileIntact,
       RulesTargetActiveHeader, NoStrayFiles, ActiveKeys, OwnsCandidate,
       OwnsInstalled
  <1> QED
    BY <1>1, <1>2

\* IncompatibleUpload gives up the lock; otherwise every rule of the dataset
\* targets a column of the new header, and the lock keeps it so.
LEMMA CheckRulesInv ==
  ASSUME NEW r \in Requests, DatasetInv, TypeOK', CheckRules(r)
  PROVE  DatasetInv'
  <1>1. CASE TargetColumns(req[r].ds) \subseteq HeaderOf[req[r].body]
    <2>1. Goto(r, "checked") /\ UNCHANGED row_lock
      BY <1>1 DEF CheckRules
    <2>2. \A x \in validation_rules :
             x.ds = req[r].ds => ColumnOf[x.def] \in HeaderOf[req[r].body]
      BY <1>1 DEF TargetColumns
    <2>3. ChecksStillHold'
      BY <2>1, <2>2, NullFact, DatasetAssumption
         DEF CheckRules, ChecksStillHold, ColumnKnown
    <2>4. (RequestsTyped /\ LocksBelongToTransactions /\ RowsDescribeUploads /\
           FilesHoldBodies /\ OldKeysSuperseded /\ ActiveFileIntact /\
           RulesTargetActiveHeader /\ NoStrayFiles)'
      BY <2>1, NullFact, DatasetAssumption
         DEF CheckRules, RequestsTyped, LocksBelongToTransactions,
             RowsDescribeUploads, FilesHoldBodies, OldKeysSuperseded,
             ActiveFileIntact, RulesTargetActiveHeader, NoStrayFiles,
             ActiveKeys, OwnsCandidate, OwnsInstalled
    <2> QED
      BY <2>3, <2>4
  <1>2. CASE ~(TargetColumns(req[r].ds) \subseteq HeaderOf[req[r].body])
    <2>1. Goto(r, "abort") /\ Release(r)
      BY <1>2 DEF CheckRules
    <2>2. \A e \in Datasets, q \in Holders :
             row_lock'[e] = q <=> row_lock[e] = q /\ q # r
      BY <2>1, ReleaseFact
    <2>3. LocksBelongToTransactions'
      BY <2>1, <2>2, NullFact, DatasetAssumption
         DEF CheckRules, LocksBelongToTransactions, RequestsTyped
    <2>4. OldKeysSuperseded'
      BY <2>1, <2>2, NullFact, DatasetAssumption
         DEF CheckRules, OldKeysSuperseded, RequestsTyped, RowsDescribeUploads,
             LocksBelongToTransactions
    <2>5. ChecksStillHold'
      BY <2>1, <2>2, NullFact, DatasetAssumption
         DEF CheckRules, ChecksStillHold, ColumnKnown, RequestsTyped,
             LocksBelongToTransactions
    <2>6. (RequestsTyped /\ RowsDescribeUploads /\ FilesHoldBodies /\
           ActiveFileIntact /\ RulesTargetActiveHeader /\ NoStrayFiles)'
      BY <2>1, NullFact, DatasetAssumption
         DEF CheckRules, RequestsTyped, RowsDescribeUploads, FilesHoldBodies,
             ActiveFileIntact, RulesTargetActiveHeader, NoStrayFiles,
             ActiveKeys, OwnsCandidate, OwnsInstalled
    <2> QED
      BY <2>3, <2>4, <2>5, <2>6
  <1> QED
    BY <1>1, <1>2

\* The installed file is the body, under a key that no row names yet.
LEMMA InstallInv ==
  ASSUME NEW r \in Requests, DatasetInv, TypeOK', Install(r)
  PROVE  DatasetInv'
  <1>1. ActiveFileIntact'
    BY NullFact, DatasetAssumption DEF Install, ActiveFileIntact,
       RowsDescribeUploads, FilesHoldBodies, OldKeysSuperseded, RequestsTyped
  <1>2. (RequestsTyped /\ LocksBelongToTransactions /\ RowsDescribeUploads /\
         FilesHoldBodies /\ OldKeysSuperseded /\ ChecksStillHold /\
         RulesTargetActiveHeader /\ NoStrayFiles)'
    BY NullFact, DatasetAssumption DEF Install, RequestsTyped,
       LocksBelongToTransactions, RowsDescribeUploads, FilesHoldBodies,
       OldKeysSuperseded, ChecksStillHold, ColumnKnown,
       RulesTargetActiveHeader, NoStrayFiles, ActiveKeys, OwnsCandidate,
       OwnsInstalled
  <1> QED
    BY <1>1, <1>2

\* When install raises, the lock goes and the handler still owns the file,
\* whether or not the rename happened.
LEMMA InstallFailsInv ==
  ASSUME NEW r \in Requests, DatasetInv, TypeOK', InstallFails(r)
  PROVE  DatasetInv'
  <1>1. \A e \in Datasets, q \in Holders :
           row_lock'[e] = q <=> row_lock[e] = q /\ q # r
    BY ReleaseFact DEF InstallFails
  <1>2. LocksBelongToTransactions'
    BY <1>1, NullFact, DatasetAssumption DEF InstallFails,
       LocksBelongToTransactions, RequestsTyped
  <1>3. OldKeysSuperseded'
    BY <1>1, NullFact, DatasetAssumption DEF InstallFails, OldKeysSuperseded,
       RequestsTyped, RowsDescribeUploads, LocksBelongToTransactions
  <1>4. ChecksStillHold'
    BY <1>1, NullFact, DatasetAssumption DEF InstallFails, ChecksStillHold,
       ColumnKnown, RequestsTyped, RowsDescribeUploads,
       LocksBelongToTransactions
  <1>5. ActiveFileIntact'
    BY <1>1, NullFact, DatasetAssumption DEF InstallFails, ActiveFileIntact,
       RowsDescribeUploads, FilesHoldBodies, OldKeysSuperseded, RequestsTyped
  <1>6. (RequestsTyped /\ RowsDescribeUploads /\ FilesHoldBodies /\
         RulesTargetActiveHeader /\ NoStrayFiles)'
    BY <1>1, NullFact, DatasetAssumption DEF InstallFails, RequestsTyped,
       RowsDescribeUploads, FilesHoldBodies, RulesTargetActiveHeader,
       NoStrayFiles, ActiveKeys, OwnsCandidate, OwnsInstalled
  <1> QED
    BY <1>2, <1>3, <1>4, <1>5, <1>6

\* The commit installs a row whose file is complete, whose header has every
\* rule, and whose predecessor is now named by nobody: the lock has kept the
\* row and its rules as they were read.
LEMMA CommitInv ==
  ASSUME NEW r \in Requests, DatasetInv, TypeOK', Commit(r)
  PROVE  DatasetInv'
  <1>1. \A e \in Datasets, q \in Holders :
           row_lock'[e] = q <=> row_lock[e] = q /\ q # r
    BY ReleaseFact DEF Commit
  <1>2. LocksBelongToTransactions'
    BY <1>1, NullFact, DatasetAssumption DEF Commit, WriteRow, TxAlive,
       LocksBelongToTransactions, RequestsTyped
  <1>3. RowsDescribeUploads'
    BY <1>1, NullFact, DatasetAssumption DEF Commit, WriteRow, TxAlive,
       RowsDescribeUploads, RequestsTyped, LocksBelongToTransactions
  <1>4. OldKeysSuperseded'
    <2>1. pc'[r] = "committed" /\ \A q \in Requests : q # r => pc'[q] = pc[q]
      BY DEF Commit
    <2>2. req[r].ds \in Datasets /\ old_key[r] = datasets[req[r].ds].key
      BY DEF Commit, TxAlive, RequestsTyped, OldKeysSuperseded
    <2>3. /\ datasets'[req[r].ds].key = r
          /\ \A e \in Datasets : e # req[r].ds => datasets'[e] = datasets[e]
      BY <2>2 DEF Commit, WriteRow
    <2>4. ASSUME NEW q \in Requests, old_key[q] # Null
          PROVE  pc'[old_key[q]] \in PastCommit /\ old_key[q] # r
      BY <2>1, <2>4 DEF Commit, OldKeysSuperseded
    <2>5. ASSUME NEW e \in Datasets, old_key[r] # Null
          PROVE  datasets'[e].key # old_key[r]
      <3>1. CASE e = req[r].ds
        BY <2>3, <2>4, <2>5, <3>1
      <3>2. CASE e # req[r].ds
        BY <2>2, <2>3, <2>5, <3>2 DEF RowsDescribeUploads
      <3> QED
        BY <3>1, <3>2
    <2>6. ASSUME NEW q \in Requests, q # r, pc[q] = "committed",
                 NEW e \in Datasets, old_key[q] # Null
          PROVE  datasets'[e].key # old_key[q]
      BY <2>3, <2>4, <2>6, NullFact DEF OldKeysSuperseded
    <2>7. ASSUME NEW q \in Requests, q # r, pc[q] \in UploadTx,
                 row_lock'[req[q].ds] = q
          PROVE  old_key[q] = datasets'[req[q].ds].key
      <3>1. req[q].ds \in Datasets /\ row_lock[req[q].ds] = q
        BY <1>1, <2>7, DatasetAssumption DEF RequestsTyped
      <3>2. req[q].ds # req[r].ds
        BY <2>7, <3>1 DEF Commit, TxAlive
      <3> QED
        BY <2>3, <2>7, <3>1, <3>2 DEF OldKeysSuperseded
    <2>8. UNCHANGED <<old_key, req>>
      BY DEF Commit
    <2> QED
      BY <2>1, <2>4, <2>5, <2>6, <2>7, <2>8 DEF OldKeysSuperseded
  <1>5. ChecksStillHold'
    BY <1>1, NullFact, DatasetAssumption DEF Commit, WriteRow, TxAlive,
       ChecksStillHold, ColumnKnown, RequestsTyped, RowsDescribeUploads,
       LocksBelongToTransactions
  <1>6. ActiveFileIntact'
    BY <1>1, NullFact, DatasetAssumption DEF Commit, WriteRow, TxAlive,
       ActiveFileIntact, RowsDescribeUploads, FilesHoldBodies,
       OldKeysSuperseded, RequestsTyped
  <1>7. RulesTargetActiveHeader'
    BY <1>1, NullFact, DatasetAssumption DEF Commit, WriteRow, TxAlive,
       RulesTargetActiveHeader, ChecksStillHold, RequestsTyped, ColumnKnown
  <1>8. NoStrayFiles'
    BY <1>1, NullFact, DatasetAssumption DEF Commit, WriteRow, TxAlive,
       NoStrayFiles, ActiveKeys, OwnsCandidate, OwnsInstalled,
       OldKeysSuperseded, RequestsTyped, LocksBelongToTransactions
  <1>9. (RequestsTyped /\ FilesHoldBodies)'
    BY <1>1, NullFact, DatasetAssumption DEF Commit, WriteRow, TxAlive,
       RequestsTyped, FilesHoldBodies
  <1> QED
    BY <1>2, <1>3, <1>4, <1>5, <1>6, <1>7, <1>8, <1>9

\* The same when the answer of the commit is lost: the row is in doubt.
LEMMA CommitAckLostInv ==
  ASSUME NEW r \in Requests, DatasetInv, TypeOK', CommitAckLost(r)
  PROVE  DatasetInv'
  <1>1. \A e \in Datasets, q \in Holders :
           row_lock'[e] = q <=> row_lock[e] = q /\ q # r
    BY ReleaseFact DEF CommitAckLost
  <1>2. LocksBelongToTransactions'
    BY <1>1, NullFact, DatasetAssumption DEF CommitAckLost, WriteRow, TxAlive,
       LocksBelongToTransactions, RequestsTyped
  <1>3. RowsDescribeUploads'
    BY <1>1, NullFact, DatasetAssumption DEF CommitAckLost, WriteRow, TxAlive,
       RowsDescribeUploads, RequestsTyped, LocksBelongToTransactions
  <1>4. OldKeysSuperseded'
    BY <1>1, NullFact, DatasetAssumption DEF CommitAckLost, WriteRow, TxAlive,
       OldKeysSuperseded, RequestsTyped, RowsDescribeUploads,
       LocksBelongToTransactions
  <1>5. ChecksStillHold'
    BY <1>1, NullFact, DatasetAssumption DEF CommitAckLost, WriteRow, TxAlive,
       ChecksStillHold, ColumnKnown, RequestsTyped, RowsDescribeUploads,
       LocksBelongToTransactions
  <1>6. ActiveFileIntact'
    BY <1>1, NullFact, DatasetAssumption DEF CommitAckLost, WriteRow, TxAlive,
       ActiveFileIntact, RowsDescribeUploads, FilesHoldBodies,
       OldKeysSuperseded, RequestsTyped
  <1>7. RulesTargetActiveHeader'
    BY <1>1, NullFact, DatasetAssumption DEF CommitAckLost, WriteRow, TxAlive,
       RulesTargetActiveHeader, ChecksStillHold, RequestsTyped, ColumnKnown
  <1>8. NoStrayFiles'
    BY <1>1, NullFact, DatasetAssumption DEF CommitAckLost, WriteRow, TxAlive,
       NoStrayFiles, ActiveKeys, OwnsCandidate, OwnsInstalled,
       OldKeysSuperseded, RequestsTyped, LocksBelongToTransactions
  <1>9. (RequestsTyped /\ FilesHoldBodies)'
    BY <1>1, NullFact, DatasetAssumption DEF CommitAckLost, WriteRow, TxAlive,
       RequestsTyped, FilesHoldBodies
  <1> QED
    BY <1>2, <1>3, <1>4, <1>5, <1>6, <1>7, <1>8, <1>9

\* The handler removes the candidate it owns.
LEMMA DiscardCandidateInv ==
  ASSUME NEW r \in Requests, DatasetInv, TypeOK', DiscardCandidate(r)
  PROVE  DatasetInv'
  <1>1. (RequestsTyped /\ LocksBelongToTransactions /\ RowsDescribeUploads /\
         FilesHoldBodies /\ OldKeysSuperseded /\ ChecksStillHold /\
         ActiveFileIntact /\ RulesTargetActiveHeader /\ NoStrayFiles)'
    BY NullFact, DatasetAssumption DEF DiscardCandidate, RequestsTyped,
       LocksBelongToTransactions, RowsDescribeUploads, FilesHoldBodies,
       OldKeysSuperseded, ChecksStillHold, ColumnKnown, ActiveFileIntact,
       RulesTargetActiveHeader, NoStrayFiles, ActiveKeys, OwnsCandidate,
       OwnsInstalled
  <1> QED
    BY <1>1

\* When discard_candidate raises, what stays behind is recorded as leaked.
LEMMA DiscardFailsInv ==
  ASSUME NEW r \in Requests, DatasetInv, TypeOK', DiscardFails(r)
  PROVE  DatasetInv'
  <1>1. (RequestsTyped /\ LocksBelongToTransactions /\ RowsDescribeUploads /\
         FilesHoldBodies /\ OldKeysSuperseded /\ ChecksStillHold /\
         ActiveFileIntact /\ RulesTargetActiveHeader /\ NoStrayFiles)'
    BY NullFact, DatasetAssumption DEF DiscardFails, RequestsTyped,
       LocksBelongToTransactions, RowsDescribeUploads, FilesHoldBodies,
       OldKeysSuperseded, ChecksStillHold, ColumnKnown, ActiveFileIntact,
       RulesTargetActiveHeader, NoStrayFiles, ActiveKeys, OwnsCandidate,
       OwnsInstalled
  <1> QED
    BY <1>1

\* The handler removes an installed file only if no row names it, or if the
\* commit was in doubt.
LEMMA RemoveInstalledInv ==
  ASSUME NEW r \in Requests, DatasetInv, TypeOK', RemoveInstalled(r)
  PROVE  DatasetInv'
  <1>1. ActiveFileIntact'
    BY NullFact, DatasetAssumption DEF RemoveInstalled, ActiveFileIntact,
       RowsDescribeUploads, FilesHoldBodies, OldKeysSuperseded, RequestsTyped
  <1>2. (RequestsTyped /\ LocksBelongToTransactions /\ RowsDescribeUploads /\
         FilesHoldBodies /\ OldKeysSuperseded /\ ChecksStillHold /\
         RulesTargetActiveHeader /\ NoStrayFiles)'
    BY NullFact, DatasetAssumption DEF RemoveInstalled, RequestsTyped,
       LocksBelongToTransactions, RowsDescribeUploads, FilesHoldBodies,
       OldKeysSuperseded, ChecksStillHold, ColumnKnown,
       RulesTargetActiveHeader, NoStrayFiles, ActiveKeys, OwnsCandidate,
       OwnsInstalled
  <1> QED
    BY <1>1, <1>2

\* An installed file that cannot be removed is recorded as leaked.
LEMMA RemoveInstalledFailsInv ==
  ASSUME NEW r \in Requests, DatasetInv, TypeOK', RemoveInstalledFails(r)
  PROVE  DatasetInv'
  <1>1. (RequestsTyped /\ LocksBelongToTransactions /\ RowsDescribeUploads /\
         FilesHoldBodies /\ OldKeysSuperseded /\ ChecksStillHold /\
         ActiveFileIntact /\ RulesTargetActiveHeader /\ NoStrayFiles)'
    BY NullFact, DatasetAssumption DEF RemoveInstalledFails, RequestsTyped,
       LocksBelongToTransactions, RowsDescribeUploads, FilesHoldBodies,
       OldKeysSuperseded, ChecksStillHold, ColumnKnown, ActiveFileIntact,
       RulesTargetActiveHeader, NoStrayFiles, ActiveKeys, OwnsCandidate,
       OwnsInstalled
  <1> QED
    BY <1>1

\* The superseded file is named by no row and installed by no running upload.
LEMMA RemoveOldInv ==
  ASSUME NEW r \in Requests, DatasetInv, TypeOK', RemoveOld(r)
  PROVE  DatasetInv'
  <1>1. FilesHoldBodies'
    BY NullFact, DatasetAssumption DEF RemoveOld, FilesHoldBodies,
       OldKeysSuperseded
  <1>2. ActiveFileIntact'
    BY NullFact, DatasetAssumption DEF RemoveOld, ActiveFileIntact,
       RowsDescribeUploads, FilesHoldBodies, OldKeysSuperseded, RequestsTyped
  <1>3. (RequestsTyped /\ LocksBelongToTransactions /\ RowsDescribeUploads /\
         OldKeysSuperseded /\ ChecksStillHold /\ RulesTargetActiveHeader /\
         NoStrayFiles)'
    BY NullFact, DatasetAssumption DEF RemoveOld, RequestsTyped,
       LocksBelongToTransactions, RowsDescribeUploads, OldKeysSuperseded,
       ChecksStillHold, ColumnKnown, RulesTargetActiveHeader, NoStrayFiles,
       ActiveKeys, OwnsCandidate, OwnsInstalled
  <1> QED
    BY <1>1, <1>2, <1>3

\* A superseded file that cannot be removed is recorded as leaked.
LEMMA RemoveOldFailsInv ==
  ASSUME NEW r \in Requests, DatasetInv, TypeOK', RemoveOldFails(r)
  PROVE  DatasetInv'
  <1>1. (RequestsTyped /\ LocksBelongToTransactions /\ RowsDescribeUploads /\
         FilesHoldBodies /\ OldKeysSuperseded /\ ChecksStillHold /\
         ActiveFileIntact /\ RulesTargetActiveHeader /\ NoStrayFiles)'
    BY NullFact, DatasetAssumption DEF RemoveOldFails, RequestsTyped,
       LocksBelongToTransactions, RowsDescribeUploads, FilesHoldBodies,
       OldKeysSuperseded, ChecksStillHold, ColumnKnown, ActiveFileIntact,
       RulesTargetActiveHeader, NoStrayFiles, ActiveKeys, OwnsCandidate,
       OwnsInstalled
  <1> QED
    BY <1>1

\* A failure after the commit leaves the new file alone.
LEMMA PostCommitFailureInv ==
  ASSUME NEW r \in Requests, DatasetInv, TypeOK', PostCommitFailure(r)
  PROVE  DatasetInv'
  <1>1. (RequestsTyped /\ LocksBelongToTransactions /\ RowsDescribeUploads /\
         FilesHoldBodies /\ OldKeysSuperseded /\ ChecksStillHold /\
         ActiveFileIntact /\ RulesTargetActiveHeader /\ NoStrayFiles)'
    BY NullFact, DatasetAssumption DEF PostCommitFailure, RequestsTyped,
       LocksBelongToTransactions, RowsDescribeUploads, FilesHoldBodies,
       OldKeysSuperseded, ChecksStillHold, ColumnKnown, ActiveFileIntact,
       RulesTargetActiveHeader, NoStrayFiles, ActiveKeys, OwnsCandidate,
       OwnsInstalled
  <1> QED
    BY <1>1

\* create_rule on a dataset of another user changes nothing.
LEMMA RuleNotFoundInv ==
  ASSUME NEW r \in Requests, DatasetInv, TypeOK', RuleNotFound(r)
  PROVE  DatasetInv'
  <1>1. (RequestsTyped /\ LocksBelongToTransactions /\ RowsDescribeUploads /\
         FilesHoldBodies /\ OldKeysSuperseded /\ ChecksStillHold /\
         ActiveFileIntact /\ RulesTargetActiveHeader /\ NoStrayFiles)'
    BY NullFact, DatasetAssumption DEF RuleNotFound, RequestsTyped,
       LocksBelongToTransactions, RowsDescribeUploads, FilesHoldBodies,
       OldKeysSuperseded, ChecksStillHold, ColumnKnown, ActiveFileIntact,
       RulesTargetActiveHeader, NoStrayFiles, ActiveKeys, OwnsCandidate,
       OwnsInstalled
  <1> QED
    BY <1>1

\* create_rule under the lock: the column is in the header it has read.
LEMMA LockForRuleInv ==
  ASSUME NEW r \in Requests, DatasetInv, TypeOK', LockForRule(r)
  PROVE  DatasetInv'
  <1>1. CASE ColumnKnown(req[r].ds, req[r].def)
    <2>1. /\ Goto(r, "rule_locked")
          /\ row_lock' = [row_lock EXCEPT ![req[r].ds] = r]
      BY <1>1 DEF LockForRule
    <2>2. OldKeysSuperseded'
      BY <2>1, NullFact, DatasetAssumption
         DEF LockForRule, OldKeysSuperseded, RequestsTyped
    <2>3. ChecksStillHold'
      BY <1>1, <2>1, NullFact, DatasetAssumption
         DEF LockForRule, ChecksStillHold, ColumnKnown, RequestsTyped
    <2>4. (RequestsTyped /\ LocksBelongToTransactions /\ RowsDescribeUploads /\
           FilesHoldBodies /\ ActiveFileIntact /\ RulesTargetActiveHeader /\
           NoStrayFiles)'
      BY <2>1, NullFact, DatasetAssumption
         DEF LockForRule, RequestsTyped, LocksBelongToTransactions,
             RowsDescribeUploads, FilesHoldBodies, ActiveFileIntact,
             RulesTargetActiveHeader, NoStrayFiles, ActiveKeys, OwnsCandidate,
             OwnsInstalled
    <2> QED
      BY <2>2, <2>3, <2>4
  <1>2. CASE ~ColumnKnown(req[r].ds, req[r].def)
    <2>1. Goto(r, "failed") /\ UNCHANGED row_lock
      BY <1>2 DEF LockForRule
    <2> QED
      BY <2>1, NullFact, DatasetAssumption
         DEF LockForRule, RequestsTyped, LocksBelongToTransactions,
             RowsDescribeUploads, FilesHoldBodies, OldKeysSuperseded,
             ChecksStillHold, ColumnKnown, ActiveFileIntact,
             RulesTargetActiveHeader, NoStrayFiles, ActiveKeys, OwnsCandidate,
             OwnsInstalled
  <1> QED
    BY <1>1, <1>2

\* The inserted rule targets a column of the upload that the lock has kept,
\* and no upload that has checked the rules is in a transaction on the same
\* row.
LEMMA InsertRuleInv ==
  ASSUME NEW r \in Requests, DatasetInv, TypeOK', InsertRule(r)
  PROVE  DatasetInv'
  <1>1. \A e \in Datasets, q \in Holders :
           row_lock'[e] = q <=> row_lock[e] = q /\ q # r
    BY ReleaseFact DEF InsertRule
  <1>2. LocksBelongToTransactions'
    BY <1>1, NullFact, DatasetAssumption DEF InsertRule, AddRule, TxAlive,
       LocksBelongToTransactions, RequestsTyped
  <1>3. OldKeysSuperseded'
    BY <1>1, NullFact, DatasetAssumption DEF InsertRule, AddRule, TxAlive,
       OldKeysSuperseded, RequestsTyped, RowsDescribeUploads,
       LocksBelongToTransactions
  <1>4. ChecksStillHold'
    BY <1>1, NullFact, DatasetAssumption DEF InsertRule, AddRule, TxAlive,
       ChecksStillHold, ColumnKnown, RequestsTyped, RowsDescribeUploads,
       LocksBelongToTransactions
  <1>5. RulesTargetActiveHeader'
    BY <1>1, NullFact, DatasetAssumption DEF InsertRule, AddRule, TxAlive,
       RulesTargetActiveHeader, ChecksStillHold, RequestsTyped, ColumnKnown
  <1>6. (RequestsTyped /\ RowsDescribeUploads /\ FilesHoldBodies /\
         ActiveFileIntact /\ NoStrayFiles)'
    BY <1>1, NullFact, DatasetAssumption DEF InsertRule, AddRule, TxAlive,
       RequestsTyped, RowsDescribeUploads, FilesHoldBodies, ActiveFileIntact,
       NoStrayFiles, ActiveKeys, OwnsCandidate, OwnsInstalled
  <1> QED
    BY <1>2, <1>3, <1>4, <1>5, <1>6

\* The same when the answer of the commit is lost.
LEMMA InsertAckLostInv ==
  ASSUME NEW r \in Requests, DatasetInv, TypeOK', InsertAckLost(r)
  PROVE  DatasetInv'
  <1>1. \A e \in Datasets, q \in Holders :
           row_lock'[e] = q <=> row_lock[e] = q /\ q # r
    BY ReleaseFact DEF InsertAckLost
  <1>2. LocksBelongToTransactions'
    BY <1>1, NullFact, DatasetAssumption DEF InsertAckLost, AddRule, TxAlive,
       LocksBelongToTransactions, RequestsTyped
  <1>3. OldKeysSuperseded'
    BY <1>1, NullFact, DatasetAssumption DEF InsertAckLost, AddRule, TxAlive,
       OldKeysSuperseded, RequestsTyped, RowsDescribeUploads,
       LocksBelongToTransactions
  <1>4. ChecksStillHold'
    BY <1>1, NullFact, DatasetAssumption DEF InsertAckLost, AddRule, TxAlive,
       ChecksStillHold, ColumnKnown, RequestsTyped, RowsDescribeUploads,
       LocksBelongToTransactions
  <1>5. RulesTargetActiveHeader'
    BY <1>1, NullFact, DatasetAssumption DEF InsertAckLost, AddRule, TxAlive,
       RulesTargetActiveHeader, ChecksStillHold, RequestsTyped, ColumnKnown
  <1>6. (RequestsTyped /\ RowsDescribeUploads /\ FilesHoldBodies /\
         ActiveFileIntact /\ NoStrayFiles)'
    BY <1>1, NullFact, DatasetAssumption DEF InsertAckLost, AddRule, TxAlive,
       RequestsTyped, RowsDescribeUploads, FilesHoldBodies, ActiveFileIntact,
       NoStrayFiles, ActiveKeys, OwnsCandidate, OwnsInstalled
  <1> QED
    BY <1>2, <1>3, <1>4, <1>5, <1>6

\* Deleting a rule needs no lock: it only removes targets.
LEMMA DeleteRuleInv ==
  ASSUME NEW r \in Requests, DatasetInv, TypeOK', DeleteRule(r)
  PROVE  DatasetInv'
  <1>1. validation_rules' \subseteq validation_rules
    BY DEF DeleteRule
  <1>2. Goto(r, "done") \/ Goto(r, "failed")
    BY DEF DeleteRule
  <1>3. (ChecksStillHold /\ RulesTargetActiveHeader)'
    BY <1>1, <1>2 DEF DeleteRule, ChecksStillHold, ColumnKnown,
       RulesTargetActiveHeader
  <1>4. (RequestsTyped /\ LocksBelongToTransactions /\ RowsDescribeUploads)'
    BY <1>2, NullFact, DatasetAssumption DEF DeleteRule, RequestsTyped,
       LocksBelongToTransactions, RowsDescribeUploads
  <1>5. (FilesHoldBodies /\ OldKeysSuperseded /\ ActiveFileIntact)'
    BY <1>2, NullFact DEF DeleteRule, FilesHoldBodies, OldKeysSuperseded,
       ActiveFileIntact
  <1>6. NoStrayFiles'
    BY <1>2 DEF DeleteRule, NoStrayFiles, ActiveKeys, OwnsCandidate,
       OwnsInstalled
  <1> QED
    BY <1>3, <1>4, <1>5, <1>6

\* A transaction that fails gives up its lock and leaves the database alone.
LEMMA TransactionFailsInv ==
  ASSUME NEW r \in Requests, DatasetInv, TypeOK', TransactionFails(r)
  PROVE  DatasetInv'
  <1>1. \A e \in Datasets, q \in Holders :
           row_lock'[e] = q <=> row_lock[e] = q /\ q # r
    BY ReleaseFact DEF TransactionFails
  <1>2. LocksBelongToTransactions'
    BY <1>1, NullFact, DatasetAssumption DEF TransactionFails, AfterException,
       LocksBelongToTransactions, RequestsTyped
  <1>3. OldKeysSuperseded'
    BY <1>1, NullFact, DatasetAssumption DEF TransactionFails, AfterException,
       OldKeysSuperseded, RequestsTyped, RowsDescribeUploads,
       LocksBelongToTransactions
  <1>4. ChecksStillHold'
    BY <1>1, NullFact, DatasetAssumption DEF TransactionFails, AfterException,
       ChecksStillHold, ColumnKnown, RequestsTyped, RowsDescribeUploads,
       LocksBelongToTransactions
  <1>5. (RequestsTyped /\ RowsDescribeUploads /\ FilesHoldBodies /\
         ActiveFileIntact /\ RulesTargetActiveHeader /\ NoStrayFiles)'
    BY <1>1, NullFact, DatasetAssumption DEF TransactionFails, AfterException,
       RequestsTyped, RowsDescribeUploads, FilesHoldBodies, ActiveFileIntact,
       RulesTargetActiveHeader, NoStrayFiles, ActiveKeys, OwnsCandidate,
       OwnsInstalled
  <1> QED
    BY <1>2, <1>3, <1>4, <1>5

\* A lost connection gives up the lock: nothing that rested on it is relied on
\* any more.
LEMMA ConnectionLostInv ==
  ASSUME NEW r \in Requests, DatasetInv, TypeOK', ConnectionLost(r)
  PROVE  DatasetInv'
  <1>1. \A e \in Datasets, q \in Holders :
           row_lock'[e] = q <=> row_lock[e] = q /\ q # r
    BY ReleaseFact DEF ConnectionLost
  <1>2. LocksBelongToTransactions'
    BY <1>1, NullFact, DatasetAssumption DEF ConnectionLost, TxAlive,
       LocksBelongToTransactions, RequestsTyped
  <1>3. OldKeysSuperseded'
    BY <1>1, NullFact, DatasetAssumption DEF ConnectionLost, TxAlive,
       OldKeysSuperseded, RequestsTyped, RowsDescribeUploads,
       LocksBelongToTransactions
  <1>4. ChecksStillHold'
    BY <1>1, NullFact, DatasetAssumption DEF ConnectionLost, TxAlive,
       ChecksStillHold, ColumnKnown, RequestsTyped, RowsDescribeUploads,
       LocksBelongToTransactions
  <1>5. (RequestsTyped /\ RowsDescribeUploads /\ FilesHoldBodies /\
         ActiveFileIntact /\ RulesTargetActiveHeader /\ NoStrayFiles)'
    BY <1>1, NullFact, DatasetAssumption DEF ConnectionLost, TxAlive,
       RequestsTyped, RowsDescribeUploads, FilesHoldBodies, ActiveFileIntact,
       RulesTargetActiveHeader, NoStrayFiles, ActiveKeys, OwnsCandidate,
       OwnsInstalled
  <1> QED
    BY <1>2, <1>3, <1>4, <1>5

\* The exception of a lost transaction goes to the right handler.
LEMMA LostTransactionRaisesInv ==
  ASSUME NEW r \in Requests, DatasetInv, TypeOK', LostTransactionRaises(r)
  PROVE  DatasetInv'
  <1>1. (RequestsTyped /\ LocksBelongToTransactions /\ RowsDescribeUploads /\
         FilesHoldBodies /\ OldKeysSuperseded /\ ChecksStillHold /\
         ActiveFileIntact /\ RulesTargetActiveHeader /\ NoStrayFiles)'
    BY NullFact, DatasetAssumption DEF LostTransactionRaises, AfterException,
       TxAlive, RequestsTyped, LocksBelongToTransactions, RowsDescribeUploads,
       FilesHoldBodies, OldKeysSuperseded, ChecksStillHold, ColumnKnown,
       ActiveFileIntact, RulesTargetActiveHeader, NoStrayFiles, ActiveKeys,
       OwnsCandidate, OwnsInstalled
  <1> QED
    BY <1>1

\* A crash frees every lock and records the files of the requests it kills.
LEMMA CrashInv ==
  ASSUME DatasetInv, TypeOK', CrashRequests
  PROVE  DatasetInv'
  <1>1. (RequestsTyped /\ LocksBelongToTransactions)'
    BY NullFact, DatasetAssumption DEF CrashRequests, RequestsTyped,
       LocksBelongToTransactions
  <1>2. RowsDescribeUploads'
    BY NullFact, DatasetAssumption DEF CrashRequests, RowsDescribeUploads
  <1>3. (FilesHoldBodies /\ OldKeysSuperseded /\ ChecksStillHold)'
    BY NullFact, DatasetAssumption DEF CrashRequests, FilesHoldBodies,
       OldKeysSuperseded, ChecksStillHold, ColumnKnown, RequestsTyped
  <1>4. (ActiveFileIntact /\ RulesTargetActiveHeader)'
    BY NullFact, DatasetAssumption DEF CrashRequests, ActiveFileIntact,
       RulesTargetActiveHeader
  <1>5. NoStrayFiles'
    BY NullFact, DatasetAssumption DEF CrashRequests, NoStrayFiles,
       ActiveKeys, OwnsCandidate, OwnsInstalled
  <1> QED
    BY <1>1, <1>2, <1>3, <1>4, <1>5

----------------------------------------------------------------------------
(* The invariant and its consequences.                                     *)

\* The empty database and the empty directory satisfy the invariant.
LEMMA InvInit == Init => DatasetInv
  BY NullFact, DatasetAssumption
     DEF Init, RequestsTyped, LocksBelongToTransactions, RowsDescribeUploads,
         FilesHoldBodies, OldKeysSuperseded, ChecksStillHold, ActiveFileIntact,
         RulesTargetActiveHeader, NoStrayFiles

\* Every step of every request, every fault and every crash preserves the
\* invariant.
LEMMA InvStep == DatasetInv /\ [Next]_vars => DatasetInv'
  <1> SUFFICES ASSUME DatasetInv, [Next]_vars PROVE DatasetInv'
    OBVIOUS
  <1>1. TypeOK'
    BY TypeStep
  <1>2. ASSUME NEW r \in Requests, Start(r) PROVE DatasetInv'
    BY <1>1, <1>2, RefuseInv, StartUploadInv, StartRuleInv, StartDeleteInv
       DEF Start
  <1>3. ASSUME NEW r \in Requests, Step(r) PROVE DatasetInv'
    BY <1>1, <1>3, FinishCandidateInv, TooLargeInv, ScanCsvInv,
       LockForUploadInv, CheckRulesInv, InstallInv, CommitInv,
       DiscardCandidateInv, RemoveInstalledInv, RemoveOldInv, RuleNotFoundInv,
       LockForRuleInv, InsertRuleInv, DeleteRuleInv, LostTransactionRaisesInv
       DEF Step
  <1>4. ASSUME NEW r \in Requests, Mishap(r) PROVE DatasetInv'
    BY <1>1, <1>4, WriteFailsInv, InstallFailsInv, CommitAckLostInv,
       DiscardFailsInv, RemoveInstalledFailsInv, RemoveOldFailsInv,
       PostCommitFailureInv, InsertAckLostInv, TransactionFailsInv,
       ConnectionLostInv
       DEF Mishap
  <1>5. CASE Crash
    BY <1>1, <1>5, CrashInv DEF Crash
  <1>6. CASE UNCHANGED vars
    BY <1>6 DEF vars, RequestsTyped, LocksBelongToTransactions,
       RowsDescribeUploads, FilesHoldBodies, OldKeysSuperseded,
       ChecksStillHold, ColumnKnown, ActiveFileIntact, RulesTargetActiveHeader,
       NoStrayFiles, ActiveKeys
  <1> QED
    BY <1>1, <1>2, <1>3, <1>4, <1>5, <1>6, CreateDatasetInv
       DEF Next, RequestNext, Quiescent

\* The invariant holds in every reachable state of the dataset service.
THEOREM DatasetInvariance == Spec => []DatasetInv
  BY InvInit, InvStep, PTL DEF Spec

\* Type correctness of the dataset service.
THEOREM DatasetTypes == Spec => []TypeOK
  BY DatasetInvariance, PTL DEF DatasetInv

\* "The committed row points to a complete file": upload_csv and its
\* exception handler keep the file of every committed row whole, through any
\* number of failed transactions, lost connections, failed cleanups and
\* crashes, except the file of a commit whose answer was lost.
THEOREM DatasetFilesIntact == Spec => []ActiveFileIntact
  BY DatasetInvariance, PTL DEF DatasetInv

\* "a committed rule cannot target a column absent from the active CSV":
\* upload_csv and create_rule check under the same row lock.
THEOREM DatasetRulesFit == Spec => []RulesTargetActiveHeader
  BY DatasetInvariance, PTL DEF DatasetInv

\* No file outlives its use without a fault on record: the handlers of
\* upload_csv remove what they installed, and a reupload what it replaced.
THEOREM DatasetNoStrayFiles == Spec => []NoStrayFiles
  BY DatasetInvariance, PTL DEF DatasetInv

\* No exception path or crash leaves a dataset row locked.
THEOREM DatasetLocks == Spec => []LocksBelongToTransactions
  BY DatasetInvariance, PTL DEF DatasetInv

\* A step that gives a row another file is a commit, and its upload has read the file that
\* the row had.
LEMMA ReplaceStep ==
  ASSUME DatasetInv, Next, NEW d \in Datasets, datasets'[d].key # datasets[d].key
  PROVE  old_key[datasets'[d].key] = datasets[d].key
  <1>1. \/ \E r \in Requests : Commit(r) \/ CommitAckLost(r)
        \/ UNCHANGED datasets
        \/ \E u \in Users, e \in Datasets : CreateDataset(u, e)
    BY DEF Next, RequestNext, Start, Step, Mishap, Crash, CrashRequests,
       Quiescent, vars, Refuse, StartUpload, StartRule, StartDelete,
       FinishCandidate, TooLarge, WriteFails, ScanCsv, LockForUpload,
       CheckRules, Install, InstallFails, DiscardCandidate, DiscardFails,
       RemoveInstalled, RemoveInstalledFails, RemoveOld, RemoveOldFails,
       PostCommitFailure, RuleNotFound, LockForRule, InsertRule,
       InsertAckLost, DeleteRule, TransactionFails, ConnectionLost,
       LostTransactionRaises
  <1>2. ASSUME NEW r \in Requests, Commit(r) \/ CommitAckLost(r)
        PROVE  old_key[datasets'[d].key] = datasets[d].key
    BY <1>2 DEF Commit, CommitAckLost, WriteRow, TxAlive, RequestsTyped,
       OldKeysSuperseded
  <1>3. ASSUME NEW u \in Users, NEW e \in Datasets, CreateDataset(u, e)
        PROVE  datasets'[d].key = datasets[d].key
    BY <1>3 DEF CreateDataset
  <1> QED
    BY <1>1, <1>2, <1>3

\* No upload is lost unseen: a commit replaces the very file that the upload
\* read as old_key and is about to remove.
THEOREM DatasetReplaces == Spec => ReplacesWhatItRead
  <1>1. DatasetInv /\ [Next]_vars =>
          [\A d \in Datasets : datasets'[d].key # datasets[d].key =>
               old_key[datasets'[d].key] = datasets[d].key]_vars
    BY ReplaceStep
  <1> QED
    BY <1>1, DatasetInvariance, PTL DEF Spec, ReplacesWhatItRead

----------------------------------------------------------------------------
(* Owners.                                                                 *)

\* A request that found the row is its owner's, and stays so because a row
\* never changes owner; a deletion found a rule of its own dataset.
OwnersAct ==
  \A r \in Requests :
     /\ pc[r] \in UploadPcs \cup {"rule_locked", "rule_found"} =>
           datasets[req[r].ds].owner = req[r].user
     /\ pc[r] = "rule_found" =>
           /\ req[req[r].rule] \in RuleReq
           /\ req[req[r].rule].ds = req[r].ds
           /\ pc[req[r].rule] \in Terminal

\* A rule is what the request of the same id asked for; that request is over,
\* so no second rule gets the id.
RulesHaveMakers ==
  \A x \in validation_rules :
     /\ req[x.id] \in RuleReq
     /\ req[x.id].ds = x.ds
     /\ req[x.id].def = x.def
     /\ pc[x.id] \in Terminal

OwnerInv == OwnersAct /\ RulesHaveMakers

LEMMA OwnerStart ==
  ASSUME NEW r \in Requests, DatasetInv, OwnerInv, Start(r)
  PROVE  OwnerInv'
  <1> USE DatasetAssumption
  <1>1. CASE Refuse(r)
    BY <1>1 DEF Refuse, OwnerInv, OwnersAct, RulesHaveMakers, RequestsTyped
  <1>2. ASSUME NEW u \in Users, NEW d \in Datasets, NEW c \in Contents,
               StartUpload(r, u, d, c)
        PROVE  OwnerInv'
    BY <1>2 DEF StartUpload, Owns, OwnerInv, OwnersAct, RulesHaveMakers, RequestsTyped
  <1>3. ASSUME NEW u \in Users, NEW d \in Datasets, NEW f \in RuleDefs,
               StartRule(r, u, d, f)
        PROVE  OwnerInv'
    BY <1>3 DEF StartRule, OwnerInv, OwnersAct, RulesHaveMakers, RequestsTyped
  <1>4. ASSUME NEW u \in Users, NEW x \in validation_rules, StartDelete(r, u, x)
        PROVE  OwnerInv'
    BY <1>4 DEF StartDelete, Owns, OwnerInv, OwnersAct, RulesHaveMakers, RequestsTyped
  <1> QED
    BY <1>1, <1>2, <1>3, <1>4 DEF Start

\* Steps that change no owner and add no rule, and let no stranger find a row.
LEMMA OwnerFrame ==
  ASSUME DatasetInv, OwnerInv, TypeOK', UNCHANGED req,
         \A d \in Datasets : datasets'[d].owner = datasets[d].owner,
         validation_rules' \subseteq validation_rules,
         \A q \in Requests :
            /\ pc'[q] \in UploadPcs \cup {"rule_locked", "rule_found"} =>
                  \/ pc[q] \in UploadPcs \cup {"rule_locked", "rule_found"}
                  \/ pc[q] = "rule_wait" /\ datasets[req[q].ds].owner = req[q].user
            /\ pc'[q] = "rule_found" => pc[q] = "rule_found"
            /\ pc[q] \in Terminal => pc'[q] \in Terminal
  PROVE  OwnerInv'
  <1>1. OwnersAct'
    BY DEF OwnerInv, OwnersAct, RequestsTyped
  <1>2. RulesHaveMakers'
    BY DEF OwnerInv, RulesHaveMakers
  <1> QED
    BY <1>1, <1>2 DEF OwnerInv

LEMMA OwnerStep ==
  ASSUME DatasetInv, OwnerInv, [Next]_vars
  PROVE  OwnerInv'
  <1> USE DatasetAssumption
  <1>0. TypeOK'
    BY TypeStep
  <1>1. ASSUME NEW u \in Users, NEW d \in Datasets, CreateDataset(u, d)
        PROVE  OwnerInv'
    BY <1>1 DEF CreateDataset, OwnerInv, OwnersAct, RulesHaveMakers, RequestsTyped
  <1>2. ASSUME NEW r \in Requests,
               Commit(r) \/ CommitAckLost(r)
        PROVE  OwnerInv'
    <2>1. \A d \in Datasets : datasets'[d].owner = datasets[d].owner
      BY <1>2 DEF Commit, CommitAckLost, WriteRow, RequestsTyped
    <2> QED
      BY <1>0, <1>2, <2>1, OwnerFrame DEF Commit, CommitAckLost
  <1>3. ASSUME NEW r \in Requests, InsertRule(r) \/ InsertAckLost(r)
        PROVE  OwnerInv'
    <2>1. /\ pc[r] = "rule_locked" /\ pc' = [pc EXCEPT ![r] = pc'[r]]
          /\ pc'[r] \in {"done", "failed"}
          /\ UNCHANGED <<datasets, req>>
          /\ \A x \in validation_rules' : x \in validation_rules \/
                x = [id |-> r, ds |-> req[r].ds, def |-> req[r].def]
      BY <1>3 DEF InsertRule, InsertAckLost, AddRule
    <2>2. req[r] \in RuleReq
      BY <2>1 DEF RequestsTyped
    <2>3. OwnersAct'
      BY <2>1, <2>2 DEF OwnerInv, OwnersAct, RequestsTyped
    <2>4. RulesHaveMakers'
      BY <2>1, <2>2 DEF OwnerInv, RulesHaveMakers
    <2> QED
      BY <2>3, <2>4 DEF OwnerInv
  <1>4. ASSUME NEW r \in Requests, DeleteRule(r)
        PROVE  OwnerInv'
    BY <1>0, <1>4, OwnerFrame DEF DeleteRule
  <1>5. ASSUME NEW r \in Requests,
               \/ FinishCandidate(r) \/ TooLarge(r) \/ ScanCsv(r) \/ LockForUpload(r)
               \/ CheckRules(r) \/ Install(r) \/ WriteFails(r) \/ InstallFails(r)
        PROVE  OwnerInv'
    <2>1. CASE FinishCandidate(r) \/ TooLarge(r) \/ ScanCsv(r) \/ WriteFails(r)
      BY <1>0, <2>1, OwnerFrame DEF FinishCandidate, TooLarge, ScanCsv, WriteFails
    <2>2. CASE LockForUpload(r) \/ Install(r) \/ InstallFails(r)
      BY <1>0, <2>2, OwnerFrame DEF LockForUpload, Install, InstallFails
    <2>3. CASE CheckRules(r)
      BY <1>0, <2>3, OwnerFrame DEF CheckRules
    <2> QED
      BY <1>5, <2>1, <2>2, <2>3
  <1>6. ASSUME NEW r \in Requests,
               \/ DiscardCandidate(r) \/ DiscardFails(r) \/ RemoveInstalled(r)
               \/ RemoveInstalledFails(r) \/ RemoveOld(r) \/ RemoveOldFails(r)
               \/ PostCommitFailure(r)
        PROVE  OwnerInv'
    BY <1>0, <1>6, OwnerFrame DEF DiscardCandidate, DiscardFails, RemoveInstalled,
       RemoveInstalledFails, RemoveOld, RemoveOldFails, PostCommitFailure
  <1>7. ASSUME NEW r \in Requests,
               \/ RuleNotFound(r) \/ LockForRule(r) \/ LostTransactionRaises(r)
               \/ TransactionFails(r) \/ ConnectionLost(r)
        PROVE  OwnerInv'
    BY <1>0, <1>7, OwnerFrame DEF RuleNotFound, LockForRule, Owns, LostTransactionRaises,
       TransactionFails, ConnectionLost, AfterException
  <1>8. CASE Crash
    BY <1>0, <1>8, OwnerFrame DEF Crash, CrashRequests
  <1>9. CASE UNCHANGED vars
    BY <1>0, <1>9, OwnerFrame DEF vars
  <1> QED
    BY <1>1, <1>2, <1>3, <1>4, <1>5, <1>6, <1>7, <1>8, <1>9, OwnerStart
       DEF Next, RequestNext, Step, Mishap, Quiescent

LEMMA OwnerInit ==
  ASSUME Init
  PROVE  OwnerInv
  BY DEF Init, OwnerInv, OwnersAct, RulesHaveMakers

\* Which steps touch rows and rules.
LEMMA WhoWrites ==
  ASSUME [Next]_vars
  PROVE  \/ \E r \in Requests : Commit(r) \/ CommitAckLost(r)
         \/ \E r \in Requests : InsertRule(r) \/ InsertAckLost(r)
         \/ \E r \in Requests : DeleteRule(r)
         \/ \E u \in Users, e \in Datasets : CreateDataset(u, e)
         \/ UNCHANGED <<datasets, validation_rules>>
  BY DEF Next, RequestNext, Start, Step, Mishap, Crash, CrashRequests,
     Quiescent, vars, Refuse, StartUpload, StartRule, StartDelete,
     FinishCandidate, TooLarge, WriteFails, ScanCsv, LockForUpload,
     CheckRules, Install, InstallFails, DiscardCandidate, DiscardFails,
     RemoveInstalled, RemoveInstalledFails, RemoveOld, RemoveOldFails,
     PostCommitFailure, RuleNotFound, LockForRule,
     TransactionFails, ConnectionLost, LostTransactionRaises

\* What OwnerIsolation says of a step.
OwnStep ==
  /\ \A d \in Datasets :
        datasets[d].owner # Null /\ datasets'[d] # datasets[d] =>
           /\ datasets'[d].owner = datasets[d].owner
           /\ req[datasets'[d].key].user = datasets[d].owner
  /\ \A x \in validation_rules' \ validation_rules :
        req[x.id].user = datasets[x.ds].owner
  /\ \A x \in validation_rules \ validation_rules' :
        \E r \in Requests :
           /\ pc[r] = "rule_found" /\ pc'[r] # "rule_found"
           /\ req[r].rule = x.id /\ req[r].user = datasets[x.ds].owner

\* Every step of a request keeps to it.
LEMMA OwnersOnly ==
  ASSUME DatasetInv, OwnerInv, [Next]_vars
  PROVE  OwnStep
  <1> USE DatasetAssumption DEF OwnStep
  <1>1. ASSUME NEW r \in Requests, Commit(r) \/ CommitAckLost(r) PROVE OwnStep
    BY <1>1 DEF Commit, CommitAckLost, WriteRow, OwnerInv, OwnersAct, RequestsTyped
  <1>2. ASSUME NEW r \in Requests, InsertRule(r) \/ InsertAckLost(r) PROVE OwnStep
    BY <1>2 DEF InsertRule, InsertAckLost, AddRule, OwnerInv, OwnersAct, RequestsTyped
  <1>3. ASSUME NEW r \in Requests, DeleteRule(r) PROVE OwnStep
    BY <1>3 DEF DeleteRule, OwnerInv, OwnersAct, RulesHaveMakers, RequestsTyped
  <1>4. ASSUME NEW u \in Users, NEW e \in Datasets, CreateDataset(u, e) PROVE OwnStep
    BY <1>4 DEF CreateDataset
  <1>5. CASE UNCHANGED <<datasets, validation_rules>>
    BY <1>5
  <1> HIDE DEF OwnStep
  <1> QED
    BY <1>1, <1>2, <1>3, <1>4, <1>5, WhoWrites

\* Only its owner's requests change a dataset or its rules, although the
\* ownership check of upload_csv and delete_rule ends before the change: every
\* query of the repositories names the owner, and owners do not change.
THEOREM DatasetOwners == Spec => OwnerIsolation
  <1>1. DatasetInv /\ OwnerInv /\ [Next]_vars => OwnStep
    BY OwnersOnly
  <1>2. Init => DatasetInv /\ OwnerInv
    BY InvInit, OwnerInit
  <1>3. DatasetInv /\ OwnerInv /\ [Next]_vars => (DatasetInv /\ OwnerInv)'
    BY InvStep, OwnerStep
  <1> QED
    BY <1>1, <1>2, <1>3, PTL DEF Spec, OwnerIsolation, OwnStep

----------------------------------------------------------------------------
(* No handler goes round in circles: the safety half of RequestsEnd.       *)

\* How far a request is from its end, along the longest path of its handler.
StepsLeft(label) ==
  CASE label = "idle"            -> 10
    [] label = "writing"         -> 9
    [] label = "written"         -> 8
    [] label = "scanned"         -> 7
    [] label = "locked"          -> 6
    [] label = "checked"         -> 5
    [] label = "installed"       -> 4
    [] label \in {"committed", "abort_installed"}        -> 3
    [] label \in {"abort", "removing", "rule_wait"}      -> 2
    [] label \in {"rule_locked", "rule_found"}           -> 1
    [] label \in Terminal        -> 0

\* The step moves the request towards its end or does not move it.
Advances(r) ==
  pc'[r] = pc[r] \/ StepsLeft(pc'[r]) < StepsLeft(pc[r])

\* Refused at once, or started.
LEMMA StartsAdvance ==
  ASSUME DatasetInv, NEW r \in Requests, Start(r), NEW q \in Requests
  PROVE  Advances(q)
  BY DEF Start, Refuse, StartUpload, StartRule, StartDelete, Goto, Advances,
         StepsLeft, DatasetInv, TypeOK, Terminal

\* upload_csv up to its commit.
LEMMA UploadsAdvance ==
  ASSUME DatasetInv, NEW r \in Requests, NEW q \in Requests,
         \/ FinishCandidate(r) \/ TooLarge(r) \/ ScanCsv(r)
         \/ LockForUpload(r) \/ CheckRules(r) \/ Install(r) \/ Commit(r)
         \/ WriteFails(r) \/ InstallFails(r) \/ CommitAckLost(r)
  PROVE  Advances(q)
  BY DEF FinishCandidate, TooLarge, ScanCsv, LockForUpload, CheckRules, Install,
         Commit, WriteFails, InstallFails, CommitAckLost, Goto, Advances,
         StepsLeft, DatasetInv, TypeOK, Terminal

\* The exception handler of upload_csv, and the cleanup after its commit.
LEMMA CleanupsAdvance ==
  ASSUME DatasetInv, NEW r \in Requests, NEW q \in Requests,
         \/ DiscardCandidate(r) \/ RemoveInstalled(r) \/ RemoveOld(r)
         \/ DiscardFails(r) \/ RemoveInstalledFails(r) \/ RemoveOldFails(r)
         \/ PostCommitFailure(r)
  PROVE  Advances(q)
  BY DEF DiscardCandidate, RemoveInstalled, RemoveOld, DiscardFails,
         RemoveInstalledFails, RemoveOldFails, PostCommitFailure, Goto, Advances,
         StepsLeft, DatasetInv, TypeOK, Terminal

\* create_rule and delete_rule.
LEMMA RuleRequestsAdvance ==
  ASSUME DatasetInv, NEW r \in Requests, NEW q \in Requests,
         \/ RuleNotFound(r) \/ LockForRule(r) \/ InsertRule(r)
         \/ DeleteRule(r) \/ InsertAckLost(r)
  PROVE  Advances(q)
  BY DEF RuleNotFound, LockForRule, InsertRule, DeleteRule, InsertAckLost, Goto,
         Advances, StepsLeft, DatasetInv, TypeOK, Terminal

\* A statement that raises ends the handler or sends it into its cleanup.
LEMMA FailuresAdvance ==
  ASSUME DatasetInv, NEW r \in Requests, NEW q \in Requests,
         \/ LostTransactionRaises(r) \/ TransactionFails(r) \/ ConnectionLost(r)
  PROVE  Advances(q)
  BY DEF LostTransactionRaises, TransactionFails, ConnectionLost, AfterException,
         TxPcs, UploadTx, requestVars, Goto, Advances, StepsLeft, DatasetInv,
         TypeOK, Terminal

\* A crash ends every request in flight.
LEMMA CrashesAdvance ==
  ASSUME DatasetInv, Crash, NEW q \in Requests
  PROVE  Advances(q)
  BY DEF Crash, CrashRequests, InFlight, UploadPcs, UploadTx, RulePcs, Advances,
         StepsLeft, DatasetInv, TypeOK, Terminal

\* The steps together.
LEMMA EveryStepAdvances ==
  ASSUME DatasetInv, [Next]_vars, NEW q \in Requests
  PROVE  Advances(q)
  <1>1. ASSUME NEW u \in Users, NEW d \in Datasets, CreateDataset(u, d)
        PROVE  Advances(q)
    BY <1>1 DEF CreateDataset, requestVars, Advances
  <1>2. ASSUME NEW r \in Requests, Step(r)  PROVE  Advances(q)
    BY <1>2, UploadsAdvance, CleanupsAdvance, RuleRequestsAdvance, FailuresAdvance
       DEF Step
  <1>3. ASSUME NEW r \in Requests, Mishap(r)  PROVE  Advances(q)
    BY <1>3, UploadsAdvance, CleanupsAdvance, RuleRequestsAdvance, FailuresAdvance
       DEF Mishap
  <1>4. CASE UNCHANGED vars
    BY <1>4 DEF vars, requestVars, Advances
  <1> QED
    BY <1>1, <1>2, <1>3, <1>4, StartsAdvance, CrashesAdvance
       DEF Next, RequestNext, Quiescent

\* No handler of the dataset service, its exception handler and its cleanup
\* included, ever comes back to a place it has left: whatever fails, a request
\* moves at most ten times, so one that does not end waits at one place.
THEOREM RequestsOnlyAdvance ==
  Spec => [][\A r \in Requests : Advances(r)]_vars
  <1>1. DatasetInv /\ [Next]_vars => \A r \in Requests : Advances(r)
    BY EveryStepAdvances
  <1>2. Init => DatasetInv
    BY InvInit
  <1>3. DatasetInv /\ [Next]_vars => DatasetInv'
    BY InvStep
  <1> QED
    BY <1>1, <1>2, <1>3, PTL DEF Spec

=============================================================================
