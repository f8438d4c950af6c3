------------------------ MODULE AnalysisServiceProofs ------------------------
(***************************************************************************)
(* TLAPS proofs about AnalysisService, for every set of users, datasets,   *)
(* contents, rules, requests and analyses and for any number of faults.    *)
(*                                                                         *)
(* The inductive invariant AnalysisInv puts beside the dataset service's   *)
(* own invariants what an analysis knows: while it holds the row, no       *)
(* request changes the row (LockedSnapshotIsCurrent), a lock it lost is on *)
(* record (LostLocksAreRecorded), and the rules it read fit the upload it  *)
(* read (SnapshotsFit).  From it follows, step by step, that the two       *)
(* services implement the Catalog.                                         *)
(***************************************************************************)
EXTENDS AnalysisService, DatasetServiceProofs

----------------------------------------------------------------------------
(* The inductive invariant.                                                *)

AnalysesTyped ==
    \A a \in Analysts :
        /\ apc[a] # "idle" => areq[a] \in AnalysisReq
        /\ apc[a] \in ATxPcs \cup {"captured", "evaluated", "integrity_error"} =>
              snapshot[a] \in Snapshot

\* A row is locked only by an analysis inside its transaction on that row.
AnalystsHoldTheirRow ==
    \A d \in Datasets, a \in Analysts :
        row_lock[d] = a => apc[a] \in ATxPcs /\ areq[a].ds = d

LostLocksAreRecorded ==
    \A a \in Analysts : apc[a] \in ATxPcs /\ ~ATxAlive(a) => a \in disconnected

\* Upload and rules were read under one lock, so they fit each other, however
\* the dataset changes afterwards.
SnapshotsFit ==
    \A a \in Analysts :
        apc[a] \in {"rules_read", "captured", "evaluated"} =>
            \A x \in snapshot[a].rules :
                ColumnOf[x.def] \in HeaderOf[snapshot[a].content]

AnalysisInv ==
    /\ DatasetInv
    /\ OwnerInv
    /\ AnalysisTypeOK
    /\ AnalysesTyped
    /\ AnalystsHoldTheirRow
    /\ LostLocksAreRecorded
    /\ SnapshotsFit
    /\ LockedSnapshotIsCurrent
    /\ IntegrityErrorsAreReal

----------------------------------------------------------------------------
(* What requests and analyses leave alone of each other.                   *)

LEMMA AnalystFacts ==
    ASSUME NEW a \in Analysts
    PROVE  a \in Holders /\ a \notin Requests /\ a # Null
BY AnalysisAssumption, DatasetAssumption

\* A step of an analysis: only the row locks of analyses and the number of
\* faults change.
LEMMA DatasetFrame ==
    ASSUME DatasetInv, OwnerInv, UNCHANGED datasetVars,
           row_lock' \in [Datasets -> Holders \cup {Null}],
           faults' \in 0 .. MaxFaults,
           \A d \in Datasets, r \in Requests : row_lock'[d] = r => row_lock[d] = r
    PROVE  DatasetInv' /\ OwnerInv' /\ TypeOK'
<1> USE DEF datasetVars
<1>1. TypeOK'
    BY DEF DatasetInv, TypeOK
<1>2. RequestsTyped' /\ LocksBelongToTransactions' /\ RowsDescribeUploads'
    BY DEF DatasetInv, RequestsTyped, LocksBelongToTransactions, RowsDescribeUploads
<1>3. FilesHoldBodies' /\ ActiveFileIntact' /\ RulesTargetActiveHeader' /\ NoStrayFiles'
    BY DEF DatasetInv, FilesHoldBodies, ActiveFileIntact, RulesTargetActiveHeader,
       NoStrayFiles, ActiveKeys
<1>4. OldKeysSuperseded'
    <2>1. \A r \in Requests : pc[r] \in UploadTx => req[r].ds \in Datasets
        BY DEF DatasetInv, RequestsTyped, UploadPcs, UploadReq
    <2> QED
        BY <2>1 DEF DatasetInv, OldKeysSuperseded
<1>5. ChecksStillHold'
    <2>1. \A r \in Requests : pc[r] \in TxPcs => req[r].ds \in Datasets
        BY DEF DatasetInv, RequestsTyped, UploadPcs, UploadReq, RulePcs, RuleReq, TxPcs
    <2> QED
        BY <2>1 DEF DatasetInv, ChecksStillHold, ColumnKnown, TxPcs, UploadTx
<1>6. OwnerInv'
    BY DEF OwnerInv, OwnersAct, RulesHaveMakers
<1> QED
    BY <1>1, <1>2, <1>3, <1>4, <1>5, <1>6 DEF DatasetInv

\* A request takes only free rows and frees only its own.
LEMMA RequestsKeepLocks ==
    ASSUME DatasetInv, RequestNext, NEW a \in Analysts, NEW d \in Datasets
    PROVE  row_lock'[d] = a <=> row_lock[d] = a
<1>1. \/ UNCHANGED row_lock
      \/ \E r \in Requests : Release(r)
      \/ \E r \in Requests : /\ row_lock[req[r].ds] = Null
                             /\ row_lock' = [row_lock EXCEPT ![req[r].ds] = r]
    BY DEF RequestNext, Start, Step, Mishap, CreateDataset, Refuse, StartUpload, StartRule,
       StartDelete, FinishCandidate, TooLarge, WriteFails, ScanCsv, LockForUpload,
       CheckRules, Install, InstallFails, Commit, CommitAckLost, DiscardCandidate,
       DiscardFails, RemoveInstalled, RemoveInstalledFails, RemoveOld, RemoveOldFails,
       PostCommitFailure, RuleNotFound, LockForRule, InsertRule, InsertAckLost, DeleteRule,
       TransactionFails, ConnectionLost, LostTransactionRaises, requestVars
<1> QED
    BY <1>1, AnalystFacts DEF Release, DatasetInv, TypeOK

\* No request changes a row that an analysis holds.
LEMMA RequestsSpareHeldRows ==
    ASSUME DatasetInv, RequestNext, NEW a \in Analysts, NEW d \in Datasets,
           row_lock[d] = a, datasets[d].content # Null
    PROVE  datasets'[d] = datasets[d]
<1>1. [Next]_vars
    BY DEF Next
<1>2. ASSUME NEW r \in Requests, Commit(r) \/ CommitAckLost(r)
      PROVE  datasets'[d] = datasets[d]
    <2>1. /\ row_lock[req[r].ds] = r /\ req[r].ds \in Datasets
          /\ WriteRow(r)
        BY <1>2 DEF Commit, CommitAckLost, TxAlive, DatasetInv, RequestsTyped, UploadPcs,
           UploadTx, UploadReq
    <2> QED
        BY <2>1, AnalystFacts DEF WriteRow, DatasetInv, TypeOK
<1>3. ASSUME NEW u \in Users, NEW e \in Datasets, CreateDataset(u, e)
      PROVE  datasets'[d] = datasets[d]
    BY <1>3 DEF CreateDataset, NoRow, DatasetInv, TypeOK
<1>4. ASSUME NEW r \in Requests, InsertRule(r) \/ InsertAckLost(r) \/ DeleteRule(r)
      PROVE  datasets'[d] = datasets[d]
    BY <1>4 DEF InsertRule, InsertAckLost, DeleteRule
<1> QED
    BY <1>1, <1>2, <1>3, <1>4, WhoWrites

\* A commit stays in doubt.
LEMMA DoubtsStay ==
    ASSUME RequestNext
    PROVE  in_doubt \subseteq in_doubt'
BY DEF RequestNext, Start, Step, Mishap, CreateDataset, Refuse, StartUpload, StartRule,
   StartDelete, FinishCandidate, TooLarge, WriteFails, ScanCsv, LockForUpload,
   CheckRules, Install, InstallFails, Commit, CommitAckLost, DiscardCandidate,
   DiscardFails, RemoveInstalled, RemoveInstalledFails, RemoveOld, RemoveOldFails,
   PostCommitFailure, RuleNotFound, LockForRule, InsertRule, InsertAckLost, DeleteRule,
   TransactionFails, ConnectionLost, LostTransactionRaises, ghostVars

\* Every step of a request, whatever analyses are under way.
LEMMA RequestInv ==
    ASSUME AnalysisInv, RequestNext, UNCHANGED analysisVars
    PROVE  AnalysisInv'
<1> USE DEF analysisVars
<1>1. DatasetInv /\ OwnerInv /\ [Next]_vars
    BY DEF AnalysisInv, Next
<1>2. DatasetInv' /\ OwnerInv'
    BY <1>1, InvStep, OwnerStep
<1>3. \A a \in Analysts, d \in Datasets : row_lock'[d] = a <=> row_lock[d] = a
    BY <1>1, RequestsKeepLocks
<1>4. AnalysisTypeOK'
    BY <1>2 DEF DatasetInv, AnalysisInv, AnalysisTypeOK
<1>5. AnalysesTyped' /\ SnapshotsFit'
    BY DEF AnalysisInv, AnalysesTyped, SnapshotsFit
<1>6. AnalystsHoldTheirRow'
    BY <1>3 DEF AnalysisInv, AnalystsHoldTheirRow
<1>7. \A a \in Analysts : apc[a] \in ATxPcs => (ATxAlive(a)' <=> ATxAlive(a))
    BY <1>3 DEF ATxAlive, AnalysisInv, AnalysesTyped, AnalysisReq, ATxPcs
<1>8. LostLocksAreRecorded'
    BY <1>7 DEF AnalysisInv, LostLocksAreRecorded
<1>9. LockedSnapshotIsCurrent'
    <2> SUFFICES ASSUME NEW a \in Analysts, apc[a] \in ATxPcs, ATxAlive(a)'
                 PROVE  /\ snapshot[a].key = datasets'[areq[a].ds].key
                        /\ snapshot[a].content = datasets'[areq[a].ds].content
        BY DEF LockedSnapshotIsCurrent
    <2>1. /\ areq[a].ds \in Datasets /\ snapshot[a].content \in Contents
          /\ row_lock[areq[a].ds] = a
        BY <1>7 DEF AnalysisInv, AnalysesTyped, AnalysisReq, Snapshot, ATxAlive, ATxPcs
    <2>2. /\ snapshot[a].key = datasets[areq[a].ds].key
          /\ snapshot[a].content = datasets[areq[a].ds].content
        BY <1>7 DEF AnalysisInv, LockedSnapshotIsCurrent
    <2>3. datasets'[areq[a].ds] = datasets[areq[a].ds]
        BY <1>1, <2>1, <2>2, RequestsSpareHeldRows, DatasetAssumption
    <2> QED
        BY <2>2, <2>3
<1>10. IntegrityErrorsAreReal'
    BY DoubtsStay DEF AnalysisInv, IntegrityErrorsAreReal
<1> QED
    BY <1>2, <1>4, <1>5, <1>6, <1>8, <1>9, <1>10 DEF AnalysisInv

----------------------------------------------------------------------------
(* The steps of an analysis.                                               *)

\* The invariant's share of one analysis.
AnalystInv(a) ==
    /\ apc[a] # "idle" => areq[a] \in AnalysisReq
    /\ apc[a] \in ATxPcs \cup {"captured", "evaluated", "integrity_error"} =>
          snapshot[a] \in Snapshot
    /\ \A d \in Datasets : row_lock[d] = a => apc[a] \in ATxPcs /\ areq[a].ds = d
    /\ apc[a] \in ATxPcs /\ ~ATxAlive(a) => a \in disconnected
    /\ apc[a] \in {"rules_read", "captured", "evaluated"} =>
          \A x \in snapshot[a].rules : ColumnOf[x.def] \in HeaderOf[snapshot[a].content]
    /\ apc[a] \in ATxPcs /\ ATxAlive(a) =>
          /\ snapshot[a].key = datasets[areq[a].ds].key
          /\ snapshot[a].content = datasets[areq[a].ds].content
    /\ apc[a] = "integrity_error" => \/ snapshot[a].key \in in_doubt
                                     \/ a \in disconnected
                                     \/ a \in unread
                                     \/ snapshot[a].content \notin Parseable

LEMMA ByAnalyst ==
    AnalysisInv <=> /\ DatasetInv /\ OwnerInv /\ AnalysisTypeOK
                    /\ \A a \in Analysts : AnalystInv(a)
BY DEF AnalysisInv, AnalystInv, AnalysesTyped, AnalystsHoldTheirRow, LostLocksAreRecorded,
   SnapshotsFit, LockedSnapshotIsCurrent, IntegrityErrorsAreReal

\* What every step of one analysis leaves alone.
OnlyMoves(a) ==
    /\ UNCHANGED datasetVars
    /\ row_lock' \in [Datasets -> Holders \cup {Null}]
    /\ faults' \in 0 .. MaxFaults
    /\ \A d \in Datasets, h \in Holders : h # a => (row_lock'[d] = h <=> row_lock[d] = h)
    /\ analyses' \in SUBSET Recorded
    /\ apc' \in [Analysts -> AInFlight \cup AEnded \cup {"idle"}]
    /\ areq' \in [Analysts -> AnalysisReq \cup {Null}]
    /\ snapshot' \in [Analysts -> Snapshot \cup {Null}]
    /\ disconnected' \in SUBSET Analysts /\ disconnected \subseteq disconnected'
    /\ unread' \in SUBSET Analysts /\ unread \subseteq unread'
    /\ \A b \in Analysts : b # a =>
          apc'[b] = apc[b] /\ areq'[b] = areq[b] /\ snapshot'[b] = snapshot[b]

LEMMA AnalystFrame ==
    ASSUME AnalysisInv, NEW a \in Analysts, OnlyMoves(a), AnalystInv(a)'
    PROVE  AnalysisInv'
<1>1. DatasetInv' /\ OwnerInv' /\ TypeOK'
    BY AnalystFacts, DatasetFrame, DatasetAssumption DEF AnalysisInv, OnlyMoves
<1>2. AnalysisTypeOK'
    BY <1>1 DEF AnalysisTypeOK, OnlyMoves
<1>3. ASSUME NEW b \in Analysts, b # a
      PROVE  AnalystInv(b)'
    <2>1. AnalystInv(b)
        BY ByAnalyst
    <2>2. /\ apc'[b] = apc[b] /\ areq'[b] = areq[b] /\ snapshot'[b] = snapshot[b]
          /\ datasets' = datasets /\ in_doubt' = in_doubt
          /\ b \in disconnected => b \in disconnected'
          /\ b \in unread => b \in unread'
          /\ \A d \in Datasets : row_lock'[d] = b <=> row_lock[d] = b
        BY <1>3, AnalystFacts DEF OnlyMoves, datasetVars
    <2>3. apc[b] \in ATxPcs => (ATxAlive(b)' <=> ATxAlive(b))
        BY <2>1, <2>2 DEF AnalystInv, ATxAlive, AnalysisReq, ATxPcs
    <2> QED
        BY <2>1, <2>2, <2>3 DEF AnalystInv
<1>4. \A b \in Analysts : AnalystInv(b)'
    BY <1>3
<1>5. /\ AnalysesTyped' /\ AnalystsHoldTheirRow' /\ LostLocksAreRecorded' /\ SnapshotsFit'
      /\ LockedSnapshotIsCurrent' /\ IntegrityErrorsAreReal'
    BY <1>4 DEF AnalystInv, AnalysesTyped, AnalystsHoldTheirRow, LostLocksAreRecorded,
       SnapshotsFit, LockedSnapshotIsCurrent, IntegrityErrorsAreReal
<1> QED
    BY <1>1, <1>2, <1>5 DEF AnalysisInv

\* The end of an analysis' transaction.
LEMMA AnalystRelease ==
    ASSUME AnalysisInv, NEW a \in Analysts, Release(a)
    PROVE  /\ row_lock' \in [Datasets -> Holders \cup {Null}]
           /\ \A d \in Datasets, h \in Holders : h # a => (row_lock'[d] = h <=> row_lock[d] = h)
           /\ \A d \in Datasets : row_lock'[d] # a
BY AnalystFacts, DatasetAssumption DEF Release, AnalysisInv, DatasetInv, TypeOK

LEMMA StartAnalysisInv ==
    ASSUME AnalysisInv, NEW a \in Analysts, NEW u \in Users, NEW d \in Datasets,
           StartAnalysis(a, u, d), UNCHANGED datasetVars
    PROVE  AnalysisInv'
<1> USE DEF StartAnalysis, AGoto
<1>1. AnalystInv(a)
    BY ByAnalyst
<1>2. OnlyMoves(a)
    BY DEF OnlyMoves, AnalysisInv, AnalysisTypeOK, DatasetInv, TypeOK, AnalysisReq,
       AInFlight, ATxPcs
<1>3. AnalystInv(a)'
    BY <1>1 DEF AnalystInv, AnalysisInv, AnalysisTypeOK, AnalysisReq, ATxPcs
<1> QED
    BY <1>2, <1>3, AnalystFrame

LEMMA AnalysisNotFoundInv ==
    ASSUME AnalysisInv, NEW a \in Analysts, AnalysisNotFound(a), UNCHANGED datasetVars
    PROVE  AnalysisInv'
<1> USE DEF AnalysisNotFound, AGoto
<1>1. AnalystInv(a)
    BY ByAnalyst
<1>2. OnlyMoves(a)
    BY DEF OnlyMoves, AnalysisInv, AnalysisTypeOK, DatasetInv, TypeOK, AEnded
<1>3. AnalystInv(a)'
    BY <1>1 DEF AnalystInv, AnalysisInv, AnalysisTypeOK, ATxPcs
<1> QED
    BY <1>2, <1>3, AnalystFrame

LEMMA CaptureRowInv ==
    ASSUME AnalysisInv, NEW a \in Analysts, CaptureRow(a), UNCHANGED datasetVars
    PROVE  AnalysisInv'
<1> DEFINE d == areq[a].ds
           row == datasets[d]
<1>1. /\ AnalystInv(a) /\ apc[a] = "waiting" /\ d \in Datasets /\ row_lock[d] = Null
      /\ row \in Row /\ (row.key = Null <=> row.content = Null)
      /\ UNCHANGED <<faults, analyses, areq, disconnected, unread>>
    BY ByAnalyst DEF CaptureRow, AnalystInv, AnalysisReq, AnalysisInv, DatasetInv, TypeOK,
       RowsDescribeUploads
<1>2. CASE row.content = Null
    <2>1. apc' = [apc EXCEPT ![a] = "failed"] /\ UNCHANGED <<row_lock, snapshot>>
        BY <1>2 DEF CaptureRow, AGoto
    <2>2. OnlyMoves(a)
        BY <1>1, <2>1 DEF OnlyMoves, AnalysisInv, AnalysisTypeOK, DatasetInv, TypeOK, AEnded
    <2>3. AnalystInv(a)'
        BY <1>1, <2>1 DEF AnalystInv, AnalysisInv, AnalysisTypeOK, ATxPcs
    <2> QED
        BY <2>2, <2>3, AnalystFrame
<1>3. CASE row.content # Null
    <2> DEFINE s == [key |-> row.key, content |-> row.content, rules |-> {}]
    <2>1. /\ apc' = [apc EXCEPT ![a] = "locked"]
          /\ row_lock' = [row_lock EXCEPT ![d] = a]
          /\ snapshot' = [snapshot EXCEPT ![a] = s]
        BY <1>3 DEF CaptureRow, AGoto
    <2>2. s \in Snapshot /\ s.key = row.key /\ s.content = row.content
        BY <1>1, <1>3 DEF Snapshot, Row
    <2> HIDE DEF s, row
    <2>3. OnlyMoves(a)
        <3>1. /\ row_lock' \in [Datasets -> Holders \cup {Null}]
              /\ \A e \in Datasets, h \in Holders :
                    h # a => (row_lock'[e] = h <=> row_lock[e] = h)
            BY <1>1, <2>1, AnalystFacts, DatasetAssumption DEF AnalysisInv, DatasetInv, TypeOK
        <3> QED
            BY <1>1, <2>1, <2>2, <3>1 DEF OnlyMoves, AnalysisInv, AnalysisTypeOK, DatasetInv,
               TypeOK, AInFlight, ATxPcs
    <2>4. /\ apc'[a] = "locked" /\ snapshot'[a] = s /\ areq'[a] = areq[a]
          /\ \A e \in Datasets : row_lock'[e] = a <=> e = d
        BY <1>1, <2>1 DEF AnalystInv, AnalysisInv, AnalysisTypeOK, DatasetInv, TypeOK, ATxPcs
    <2>5. datasets'[areq'[a].ds] = row
        BY <2>4 DEF datasetVars, row
    <2>6. AnalystInv(a)'
        BY <1>1, <2>2, <2>4, <2>5 DEF AnalystInv, ATxAlive, ATxPcs
    <2> QED
        BY <2>3, <2>6, AnalystFrame
<1> QED
    BY <1>2, <1>3

LEMMA CaptureRulesInv ==
    ASSUME AnalysisInv, NEW a \in Analysts, CaptureRules(a), UNCHANGED datasetVars
    PROVE  AnalysisInv'
<1> DEFINE d == areq[a].ds
<1>1. /\ AnalystInv(a) /\ apc[a] = "locked" /\ ATxAlive(a) /\ d \in Datasets
      /\ snapshot[a] \in Snapshot
      /\ UNCHANGED <<faults, analyses, areq, disconnected, unread>>
    BY ByAnalyst DEF CaptureRules, AnalystInv, AnalysisReq, ATxPcs
<1>2. CASE RulesOf(d) = {}
    <2>1. apc' = [apc EXCEPT ![a] = "failed"] /\ Release(a) /\ UNCHANGED snapshot
        BY <1>2 DEF CaptureRules, AGoto
    <2>2. OnlyMoves(a)
        BY <1>1, <2>1, AnalystRelease DEF OnlyMoves, AnalysisInv, AnalysisTypeOK, DatasetInv,
           TypeOK, AEnded
    <2>3. AnalystInv(a)'
        BY <1>1, <2>1, AnalystRelease DEF AnalystInv, AnalysisInv, AnalysisTypeOK, ATxPcs
    <2> QED
        BY <2>2, <2>3, AnalystFrame
<1>3. CASE RulesOf(d) # {}
    <2>1. /\ apc' = [apc EXCEPT ![a] = "rules_read"]
          /\ snapshot' = [snapshot EXCEPT ![a].rules = RulesOf(d)]
          /\ UNCHANGED row_lock
        BY <1>3 DEF CaptureRules, AGoto
    <2>2. RulesOf(d) \in SUBSET Rule
        BY DEF RulesOf, AnalysisInv, DatasetInv, TypeOK
    <2>3. /\ snapshot'[a] \in Snapshot /\ snapshot'[a].key = snapshot[a].key
          /\ snapshot'[a].content = snapshot[a].content /\ snapshot'[a].rules = RulesOf(d)
        BY <1>1, <2>1, <2>2 DEF AnalysisInv, AnalysisTypeOK, Snapshot
    <2>4. snapshot' \in [Analysts -> Snapshot \cup {Null}]
        BY <2>1, <2>3 DEF AnalysisInv, AnalysisTypeOK
    <2>5. OnlyMoves(a)
        BY <1>1, <2>1, <2>4 DEF OnlyMoves, AnalysisInv, AnalysisTypeOK, DatasetInv, TypeOK,
           AInFlight, ATxPcs
    <2>6. \A x \in RulesOf(d) : ColumnOf[x.def] \in HeaderOf[snapshot[a].content]
        BY <1>1 DEF RulesOf, AnalystInv, ATxPcs, AnalysisInv, DatasetInv,
           RulesTargetActiveHeader
    <2>7. AnalystInv(a)'
        <3>1. /\ apc'[a] = "rules_read" /\ areq'[a] = areq[a] /\ (ATxAlive(a)' <=> ATxAlive(a))
              /\ UNCHANGED <<datasets, row_lock, disconnected, unread>>
            BY <1>1, <2>1 DEF AnalysisInv, AnalysisTypeOK, ATxAlive, datasetVars
        <3> QED
            BY <1>1, <2>3, <2>6, <3>1 DEF AnalystInv, ATxPcs
    <2> QED
        BY <2>5, <2>7, AnalystFrame
<1> QED
    BY <1>2, <1>3

\* The file is read under the lock, so it is the one the row names, unless the
\* commit that installed it is in doubt or the lock was lost.
LEMMA CaptureFileInv ==
    ASSUME AnalysisInv, NEW a \in Analysts, CaptureFile(a), UNCHANGED datasetVars
    PROVE  AnalysisInv'
<1>1. /\ AnalystInv(a) /\ apc[a] = "rules_read" /\ areq[a].ds \in Datasets
      /\ snapshot[a] \in Snapshot /\ Release(a)
      /\ UNCHANGED <<faults, analyses, areq, snapshot, disconnected, unread>>
    BY ByAnalyst DEF CaptureFile, AnalystInv, AnalysisReq, ATxPcs
<1>2. PICK label \in {"integrity_error", "failed", "captured"} :
         /\ apc' = [apc EXCEPT ![a] = label]
         /\ label = "integrity_error" => storage[snapshot[a].key] # snapshot[a].content
    <2>1. CASE storage[snapshot[a].key] # snapshot[a].content
        BY <2>1 DEF CaptureFile, AGoto
    <2>2. CASE storage[snapshot[a].key] = snapshot[a].content /\ ~ATxAlive(a)
        BY <2>2 DEF CaptureFile, AGoto
    <2>3. CASE storage[snapshot[a].key] = snapshot[a].content /\ ATxAlive(a)
        BY <2>3 DEF CaptureFile, AGoto
    <2> QED
        BY <2>1, <2>2, <2>3
<1>3. OnlyMoves(a)
    BY <1>1, <1>2, AnalystRelease DEF OnlyMoves, AnalysisInv, AnalysisTypeOK, DatasetInv,
       TypeOK, AEnded, AInFlight
<1>4. label = "integrity_error" => snapshot[a].key \in in_doubt \/ a \in disconnected
    <2>1. CASE ~ATxAlive(a)
        BY <1>1, <2>1 DEF AnalystInv, ATxPcs
    <2>2. CASE ATxAlive(a)
        <3>1. /\ snapshot[a].key = datasets[areq[a].ds].key
              /\ snapshot[a].content = datasets[areq[a].ds].content
              /\ snapshot[a].key # Null
            BY <1>1, <2>2, DatasetAssumption DEF AnalystInv, ATxPcs, Snapshot
        <3> QED
            BY <1>1, <1>2, <3>1 DEF AnalysisInv, DatasetInv, ActiveFileIntact
    <2> QED
        BY <2>1, <2>2
<1>5. AnalystInv(a)'
    <2>1. /\ apc'[a] = label /\ areq'[a] = areq[a] /\ snapshot'[a] = snapshot[a]
          /\ \A d \in Datasets : row_lock'[d] # a
          /\ UNCHANGED <<in_doubt, disconnected, unread>>
        BY <1>1, <1>2, AnalystRelease DEF AnalysisInv, AnalysisTypeOK, datasetVars
    <2> QED
        BY <1>1, <1>2, <1>4, <2>1 DEF AnalystInv, ATxPcs
<1> QED
    BY <1>3, <1>5, AnalystFrame

\* Rules and upload of a snapshot fit, so only a file that the two parsers read
\* differently ends in an integrity error here.
LEMMA EvaluateInv ==
    ASSUME AnalysisInv, NEW a \in Analysts, Evaluate(a), UNCHANGED datasetVars
    PROVE  AnalysisInv'
<1>1. /\ AnalystInv(a) /\ apc[a] = "captured"
      /\ UNCHANGED <<row_lock, faults, analyses, areq, snapshot, disconnected, unread>>
    BY ByAnalyst DEF Evaluate
<1>2. PICK label \in {"evaluated", "integrity_error"} :
         /\ apc' = [apc EXCEPT ![a] = label]
         /\ label = "integrity_error" => snapshot[a].content \notin Parseable
    BY <1>1 DEF Evaluate, AGoto, AnalystInv
<1>3. OnlyMoves(a)
    BY <1>1, <1>2 DEF OnlyMoves, AnalysisInv, AnalysisTypeOK, DatasetInv, TypeOK, AEnded,
       AInFlight
<1>4. AnalystInv(a)'
    BY <1>1, <1>2 DEF AnalystInv, AnalysisInv, AnalysisTypeOK, ATxPcs
<1> QED
    BY <1>3, <1>4, AnalystFrame

LEMMA FaultFact ==
    ASSUME AnalysisInv, Fault \/ UNCHANGED faults
    PROVE  faults' \in 0 .. MaxFaults
BY DatasetAssumption DEF Fault, AnalysisInv, DatasetInv, TypeOK

LEMMA PersistAnalysisInv ==
    ASSUME AnalysisInv, NEW a \in Analysts, PersistAnalysis(a), UNCHANGED datasetVars
    PROVE  AnalysisInv'
<1>1. /\ AnalystInv(a) /\ apc[a] = "evaluated" /\ Record(a)
      /\ areq[a] \in AnalysisReq /\ snapshot[a] \in Snapshot
      /\ Fault \/ UNCHANGED faults
      /\ UNCHANGED <<row_lock, areq, snapshot, disconnected, unread>>
    BY ByAnalyst DEF PersistAnalysis, AnalystInv
<1>2. PICK label \in {"done", "failed"} : apc' = [apc EXCEPT ![a] = label]
    BY DEF PersistAnalysis, AGoto
<1>3. analyses' \in SUBSET Recorded
    BY <1>1 DEF Record, Recorded, AnalysisReq, Snapshot, AnalysisInv, AnalysisTypeOK
<1>4. OnlyMoves(a)
    BY <1>1, <1>2, <1>3, FaultFact DEF OnlyMoves, AnalysisInv, AnalysisTypeOK, DatasetInv,
       TypeOK, AEnded
<1>5. AnalystInv(a)'
    BY <1>1, <1>2 DEF AnalystInv, AnalysisInv, AnalysisTypeOK, ATxPcs
<1> QED
    BY <1>4, <1>5, AnalystFrame

LEMMA LostAnalysisRaisesInv ==
    ASSUME AnalysisInv, NEW a \in Analysts, LostAnalysisRaises(a), UNCHANGED datasetVars
    PROVE  AnalysisInv'
<1>1. /\ AnalystInv(a) /\ apc[a] = "locked" /\ ~ATxAlive(a) /\ areq[a].ds \in Datasets
      /\ apc' = [apc EXCEPT ![a] = "failed"]
      /\ UNCHANGED <<row_lock, faults, analyses, areq, snapshot, disconnected, unread>>
    BY ByAnalyst DEF LostAnalysisRaises, AGoto, AnalystInv, AnalysisReq
<1>2. OnlyMoves(a)
    BY <1>1 DEF OnlyMoves, AnalysisInv, AnalysisTypeOK, DatasetInv, TypeOK, AEnded
<1>3. AnalystInv(a)'
    BY <1>1 DEF AnalystInv, AnalysisInv, AnalysisTypeOK, ATxPcs, ATxAlive
<1> QED
    BY <1>2, <1>3, AnalystFrame

LEMMA AnalysisFailsInv ==
    ASSUME AnalysisInv, NEW a \in Analysts, AnalysisFails(a), UNCHANGED datasetVars
    PROVE  AnalysisInv'
<1>1. /\ AnalystInv(a) /\ apc[a] # "idle" /\ Release(a) /\ Fault
      /\ apc' = [apc EXCEPT ![a] = "failed"]
      /\ UNCHANGED <<analyses, areq, snapshot, disconnected, unread>>
    BY ByAnalyst DEF AnalysisFails, AGoto
<1>2. OnlyMoves(a)
    BY <1>1, AnalystRelease, FaultFact DEF OnlyMoves, AnalysisInv, AnalysisTypeOK, AEnded
<1>3. AnalystInv(a)'
    BY <1>1, AnalystRelease DEF AnalystInv, AnalysisInv, AnalysisTypeOK, ATxPcs
<1> QED
    BY <1>2, <1>3, AnalystFrame

\* A read that raises is on record.
LEMMA ReadFailsInv ==
    ASSUME AnalysisInv, NEW a \in Analysts, ReadFails(a), UNCHANGED datasetVars
    PROVE  AnalysisInv'
<1>1. /\ AnalystInv(a) /\ apc[a] = "rules_read" /\ Release(a) /\ Fault
      /\ apc' = [apc EXCEPT ![a] = "integrity_error"] /\ unread' = unread \cup {a}
      /\ UNCHANGED <<analyses, areq, snapshot, disconnected>>
    BY ByAnalyst DEF ReadFails, AGoto
<1>2. OnlyMoves(a)
    BY <1>1, AnalystRelease, FaultFact DEF OnlyMoves, AnalysisInv, AnalysisTypeOK, AEnded
<1>3. AnalystInv(a)'
    BY <1>1, AnalystRelease DEF AnalystInv, AnalysisInv, AnalysisTypeOK, ATxPcs
<1> QED
    BY <1>2, <1>3, AnalystFrame

LEMMA AnalysisConnectionLostInv ==
    ASSUME AnalysisInv, NEW a \in Analysts, AnalysisConnectionLost(a), UNCHANGED datasetVars
    PROVE  AnalysisInv'
<1>1. /\ AnalystInv(a) /\ apc[a] \in ATxPcs /\ Release(a) /\ Fault
      /\ disconnected' = disconnected \cup {a} /\ areq[a].ds \in Datasets
      /\ UNCHANGED <<analyses, apc, areq, snapshot, unread>>
    BY ByAnalyst DEF AnalysisConnectionLost, AnalystInv, AnalysisReq, ATxPcs
<1>2. OnlyMoves(a)
    BY <1>1, AnalystRelease, FaultFact DEF OnlyMoves, AnalysisInv, AnalysisTypeOK
<1>3. AnalystInv(a)'
    BY <1>1, AnalystRelease DEF AnalystInv, ATxAlive, ATxPcs
<1> QED
    BY <1>2, <1>3, AnalystFrame

\* A crash frees every row; an analysis that was under way is not resumed.
LEMMA ProcessCrashInv ==
    ASSUME AnalysisInv, ProcessCrash
    PROVE  AnalysisInv'
<1>1. /\ CrashRequests /\ UNCHANGED <<analyses, areq, snapshot, disconnected, unread>>
      /\ apc' = [a \in Analysts |-> IF apc[a] \in AInFlight THEN "crashed" ELSE apc[a]]
    BY DEF ProcessCrash
<1>2. TypeOK'
    BY <1>1, DatasetAssumption DEF CrashRequests, Fault, AnalysisInv, DatasetInv, TypeOK, Pcs,
       Terminal, fileVars
<1>3. DatasetInv'
    BY <1>1, <1>2, CrashInv DEF AnalysisInv
<1>4. OwnerInv'
    BY <1>1, <1>2, OwnerFrame DEF CrashRequests, AnalysisInv, InFlight, UploadPcs, RulePcs,
       Terminal, UploadTx, DatasetInv, TypeOK
<1>5. AnalysisTypeOK'
    BY <1>1, <1>2 DEF AnalysisInv, AnalysisTypeOK, AEnded
<1>6. ASSUME NEW a \in Analysts
      PROVE  AnalystInv(a)'
    <2>1. AnalystInv(a)
        BY ByAnalyst
    <2>2. /\ apc'[a] \notin ATxPcs \cup {"captured", "evaluated"}
          /\ apc'[a] # "idle" => apc[a] # "idle"
          /\ apc'[a] = "integrity_error" => apc[a] = "integrity_error"
        BY <1>1 DEF AInFlight, ATxPcs
    <2>3. (\A d \in Datasets : row_lock'[d] # a) /\ in_doubt' = in_doubt
        BY <1>1, AnalystFacts DEF CrashRequests
    <2> QED
        BY <1>1, <2>1, <2>2, <2>3 DEF AnalystInv, ATxPcs
<1>7. /\ AnalysesTyped' /\ AnalystsHoldTheirRow' /\ LostLocksAreRecorded' /\ SnapshotsFit'
      /\ LockedSnapshotIsCurrent' /\ IntegrityErrorsAreReal'
    BY <1>6 DEF AnalystInv, AnalysesTyped, AnalystsHoldTheirRow, LostLocksAreRecorded,
       SnapshotsFit, LockedSnapshotIsCurrent, IntegrityErrorsAreReal
<1> QED
    BY <1>3, <1>4, <1>5, <1>7 DEF AnalysisInv

LEMMA QuietInv ==
    ASSUME AnalysisInv, UNCHANGED allVars
    PROVE  AnalysisInv'
<1>1. UNCHANGED vars /\ UNCHANGED analysisVars
    BY DEF allVars
<1>2. DatasetInv' /\ OwnerInv'
    BY <1>1, InvStep, OwnerStep DEF AnalysisInv
<1>3. AnalysisTypeOK'
    BY <1>1, <1>2 DEF AnalysisInv, AnalysisTypeOK, analysisVars, DatasetInv
<1>4. AnalysesTyped' /\ AnalystsHoldTheirRow' /\ LostLocksAreRecorded'
    BY <1>1 DEF AnalysisInv, AnalysesTyped, AnalystsHoldTheirRow, LostLocksAreRecorded,
       ATxAlive, analysisVars, vars
<1>5. SnapshotsFit' /\ LockedSnapshotIsCurrent' /\ IntegrityErrorsAreReal'
    BY <1>1 DEF AnalysisInv, SnapshotsFit, LockedSnapshotIsCurrent, IntegrityErrorsAreReal,
       ATxAlive, analysisVars, vars
<1> QED
    BY <1>2, <1>3, <1>4, <1>5 DEF AnalysisInv

----------------------------------------------------------------------------
(* The invariant and its consequences.                                     *)

LEMMA AnalysisInvInit == AnalysisInit => AnalysisInv
<1> SUFFICES ASSUME AnalysisInit
             PROVE  AnalysisInv
    OBVIOUS
<1>1. DatasetInv /\ OwnerInv
    BY InvInit, OwnerInit DEF AnalysisInit
<1>2. AnalysisTypeOK
    BY <1>1 DEF AnalysisInit, AnalysisTypeOK, DatasetInv
<1>3. \A a \in Analysts : AnalystInv(a)
    BY AnalystFacts DEF AnalysisInit, Init, AnalystInv, ATxPcs
<1> QED
    BY <1>1, <1>2, <1>3, ByAnalyst

LEMMA AnalysisInvStep == AnalysisInv /\ [AnalysisNext]_allVars => AnalysisInv'
<1> SUFFICES ASSUME AnalysisInv, [AnalysisNext]_allVars
             PROVE  AnalysisInv'
    OBVIOUS
<1>1. CASE RequestNext /\ UNCHANGED analysisVars
    BY <1>1, RequestInv
<1>2. ASSUME NEW a \in Analysts, NEW u \in Users, NEW d \in Datasets,
             StartAnalysis(a, u, d), UNCHANGED datasetVars
      PROVE  AnalysisInv'
    BY <1>2, StartAnalysisInv
<1>3. ASSUME NEW a \in Analysts, AnalysisStep(a)
      PROVE  AnalysisInv'
    BY <1>3, AnalysisNotFoundInv, CaptureRowInv, CaptureRulesInv, CaptureFileInv,
       EvaluateInv, PersistAnalysisInv, LostAnalysisRaisesInv DEF AnalysisStep
<1>4. ASSUME NEW a \in Analysts, AnalysisMishap(a)
      PROVE  AnalysisInv'
    BY <1>4, AnalysisFailsInv, ReadFailsInv, AnalysisConnectionLostInv DEF AnalysisMishap
<1>5. CASE ProcessCrash
    BY <1>5, ProcessCrashInv
<1>6. CASE UNCHANGED allVars
    BY <1>6, QuietInv
<1> QED
    BY <1>1, <1>2, <1>3, <1>4, <1>5, <1>6 DEF AnalysisNext, AllQuiescent

\* The inductive invariant holds of the two services together.
THEOREM AnalysisInvariance == AnalysisSpec => []AnalysisInv
BY AnalysisInvInit, AnalysisInvStep, PTL DEF AnalysisSpec

\* Type correctness of the two services together.
THEOREM AnalysisTypes == AnalysisSpec => []AnalysisTypeOK
<1>1. AnalysisInv => AnalysisTypeOK
    BY DEF AnalysisInv
<1> QED
    BY <1>1, AnalysisInvariance, PTL

\* _capture_snapshot reads the row, the rules and the file under one row lock:
\* as long as it is held, no upload, rule or cleanup of another request makes
\* the snapshot stale.
THEOREM AnalysisSnapshots == AnalysisSpec => []LockedSnapshotIsCurrent
<1>1. AnalysisInv => LockedSnapshotIsCurrent
    BY DEF AnalysisInv
<1> QED
    BY <1>1, AnalysisInvariance, PTL

\* AnalysisDataIntegrityError is never a race: an analysis that ends in one met
\* a file whose commit was in doubt, lost its own lock, could not read the
\* file, or has a file that the two parsers read differently.
THEOREM AnalysisErrorsReal == AnalysisSpec => []IntegrityErrorsAreReal
<1>1. AnalysisInv => IntegrityErrorsAreReal
    BY DEF AnalysisInv
<1> QED
    BY <1>1, AnalysisInvariance, PTL

\* What the dataset service promises it keeps while analyses lock its rows and read its
\* files: the file of a committed row is whole, rules fit the active header, no file is left
\* over and no row stays locked.
THEOREM DatasetsStaySafe ==
    AnalysisSpec => [](/\ ActiveFileIntact /\ RulesTargetActiveHeader
                       /\ NoStrayFiles /\ LocksBelongToTransactions)
<1>1. AnalysisInv => /\ ActiveFileIntact /\ RulesTargetActiveHeader
                     /\ NoStrayFiles /\ LocksBelongToTransactions
    BY DEF AnalysisInv, DatasetInv
<1> QED
    BY <1>1, AnalysisInvariance, PTL

\* An analysis, and a crash of the process, write no dataset and no rule.
LEMMA AnalysesOnlyRead ==
    ASSUME [AnalysisNext]_allVars
    PROVE  RequestNext \/ UNCHANGED <<datasets, validation_rules>>
BY DEF AnalysisNext, StartAnalysis, AnalysisStep, AnalysisMishap, ProcessCrash, AllQuiescent,
   allVars, datasetVars, vars, AnalysisNotFound, CaptureRow, CaptureRules, CaptureFile,
   Evaluate, PersistAnalysis, LostAnalysisRaises, AnalysisFails, ReadFails,
   AnalysisConnectionLost, CrashRequests

\* Also among analyses only its owner's requests change a dataset or its rules, and an
\* upload replaces the very file that it has read.
THEOREM DatasetsStayOwned == AnalysisSpec => OwnerIsolation /\ ReplacesWhatItRead
<1>1. AnalysisInv /\ [AnalysisNext]_allVars => [OwnStep]_vars
    <2> SUFFICES ASSUME AnalysisInv, [AnalysisNext]_allVars
                 PROVE  OwnStep
        OBVIOUS
    <2>1. CASE RequestNext
        BY <2>1, OwnersOnly DEF AnalysisInv, Next
    <2>2. CASE UNCHANGED <<datasets, validation_rules>>
        BY <2>2 DEF OwnStep
    <2> QED
        BY <2>1, <2>2, AnalysesOnlyRead
<1>2. AnalysisInv /\ [AnalysisNext]_allVars =>
         [\A d \in Datasets : datasets'[d].key # datasets[d].key =>
             old_key[datasets'[d].key] = datasets[d].key]_vars
    <2> SUFFICES ASSUME AnalysisInv, [AnalysisNext]_allVars, NEW d \in Datasets,
                        datasets'[d].key # datasets[d].key
                 PROVE  old_key[datasets'[d].key] = datasets[d].key
        OBVIOUS
    <2>1. RequestNext
        BY AnalysesOnlyRead
    <2> QED
        BY <2>1, ReplaceStep DEF AnalysisInv, Next
<1>3. AnalysisSpec => OwnerIsolation
    BY <1>1, AnalysisInvariance, PTL DEF AnalysisSpec, OwnerIsolation, OwnStep
<1>4. AnalysisSpec => ReplacesWhatItRead
    BY <1>2, AnalysisInvariance, PTL DEF AnalysisSpec, ReplacesWhatItRead
<1> QED
    BY <1>3, <1>4

----------------------------------------------------------------------------
(* The safety half of AnalysesEnd.                                         *)

\* How far an analysis is from its end.
AnalysisStepsLeft(label) ==
    CASE label = "idle"       -> 6
      [] label = "waiting"    -> 5
      [] label = "locked"     -> 4
      [] label = "rules_read" -> 3
      [] label = "captured"   -> 2
      [] label = "evaluated"  -> 1
      [] label \in AEnded     -> 0

AnalysisAdvances(a) ==
    apc'[a] = apc[a] \/ AnalysisStepsLeft(apc'[a]) < AnalysisStepsLeft(apc[a])

\* The steps of an analysis, one of its failures and a crash included.
LEMMA EveryAnalysisStepAdvances ==
    ASSUME AnalysisInv, [AnalysisNext]_allVars, NEW b \in Analysts
    PROVE  AnalysisAdvances(b)
<1> USE DEF AnalysisAdvances, AnalysisInv, AnalysisTypeOK
<1>1. CASE UNCHANGED apc
    BY <1>1
<1>2. ASSUME NEW a \in Analysts, NEW u \in Users, NEW d \in Datasets,
             StartAnalysis(a, u, d)
      PROVE  AnalysisAdvances(b)
    BY <1>2 DEF StartAnalysis, AGoto, AnalysisStepsLeft, AEnded
<1>3. ASSUME NEW a \in Analysts, AnalysisStep(a)
      PROVE  AnalysisAdvances(b)
    BY <1>3 DEF AnalysisStep, AnalysisNotFound, CaptureRow, CaptureRules, CaptureFile,
       Evaluate, PersistAnalysis, LostAnalysisRaises, AGoto, AnalysisStepsLeft, AEnded
<1>4. ASSUME NEW a \in Analysts, AnalysisFails(a) \/ ReadFails(a)
      PROVE  AnalysisAdvances(b)
    BY <1>4 DEF AnalysisFails, ReadFails, AGoto, AnalysisStepsLeft, AEnded
<1>5. CASE ProcessCrash
    BY <1>5 DEF ProcessCrash, AInFlight, ATxPcs, AnalysisStepsLeft, AEnded
<1> HIDE DEF AnalysisAdvances, AnalysisInv
<1> QED
    BY <1>1, <1>2, <1>3, <1>4, <1>5
       DEF AnalysisNext, AnalysisMishap, AnalysisConnectionLost, AllQuiescent,
           allVars, analysisVars

\* The analyses do not move a request, except in a crash.
LEMMA RequestsAdvanceAmongAnalyses ==
    ASSUME AnalysisInv, [AnalysisNext]_allVars, NEW r \in Requests
    PROVE  Advances(r)
<1>1. CASE RequestNext
    BY <1>1, EveryStepAdvances DEF AnalysisInv, Next
<1>2. CASE UNCHANGED pc
    BY <1>2 DEF Advances
<1>3. CASE ProcessCrash
    BY <1>3 DEF ProcessCrash, CrashRequests, InFlight, UploadPcs, UploadTx, RulePcs,
       Advances, StepsLeft, AnalysisInv, DatasetInv, TypeOK, Terminal
<1> QED
    BY <1>1, <1>2, <1>3
       DEF AnalysisNext, AnalysisStep, AnalysisMishap, AllQuiescent, allVars,
           datasetVars, vars, requestVars

\* No analysis and no request comes back to a place it has left, whatever fails: an
\* analysis that does not end waits at one place.
THEOREM AnalysesOnlyAdvance ==
    AnalysisSpec => [][/\ \A a \in Analysts : AnalysisAdvances(a)
                       /\ \A r \in Requests : Advances(r)]_allVars
<1>1. AnalysisInv /\ [AnalysisNext]_allVars =>
         /\ \A a \in Analysts : AnalysisAdvances(a)
         /\ \A r \in Requests : Advances(r)
    BY EveryAnalysisStepAdvances, RequestsAdvanceAmongAnalyses
<1> QED
    BY <1>1, AnalysisInvariance, PTL DEF AnalysisSpec

----------------------------------------------------------------------------
(* The two services implement the Catalog.                                 *)

\* The Catalog's variables, as the state of the services defines them.
CatalogUpload  == [d \in Datasets |-> datasets[d].content]
CatalogPending == [a \in Analysts |-> Pending(a)]
CatalogHistory ==
    {[id |-> x.id, result |-> [ds |-> x.ds, content |-> x.content, rules |-> x.rules]]
     : x \in analyses}

CatalogStep == [AbstractCatalog!Next]_(AbstractCatalog!vars)

LEMMA CatalogStutters ==
    ASSUME UNCHANGED <<CatalogUpload, validation_rules, CatalogPending, CatalogHistory>>
    PROVE  CatalogStep
BY DEF CatalogStep, AbstractCatalog!vars, CatalogUpload, CatalogPending, CatalogHistory

\* The check of the rules under the row lock still holds when the upload
\* commits, so the Catalog may replace the upload there.
LEMMA CommitReplaces ==
    ASSUME DatasetInv, NEW r \in Requests, Commit(r) \/ CommitAckLost(r),
           UNCHANGED <<CatalogPending, CatalogHistory>>
    PROVE  CatalogStep
<1>1. /\ pc[r] = "installed" /\ row_lock[req[r].ds] = r /\ req[r] \in UploadReq
      /\ WriteRow(r) /\ UNCHANGED validation_rules
    BY DEF Commit, CommitAckLost, TxAlive, DatasetInv, RequestsTyped, UploadPcs, UploadTx
<1>2. PICK d \in Datasets, c \in Contents : d = req[r].ds /\ c = req[r].body
    BY <1>1 DEF UploadReq
<1>3. \A x \in validation_rules : x.ds = d => ColumnOf[x.def] \in HeaderOf[c]
    BY <1>1, <1>2 DEF DatasetInv, ChecksStillHold, TxPcs, UploadTx
<1>4. CatalogUpload' = [CatalogUpload EXCEPT ![d] = c]
    BY <1>1, <1>2 DEF CatalogUpload, WriteRow, DatasetInv, TypeOK
<1>5. AbstractCatalog!Replace(d, c)
    BY <1>1, <1>3, <1>4 DEF AbstractCatalog!Replace, AbstractCatalog!RulesOf, CatalogUpload,
       CatalogPending, CatalogHistory
<1> QED
    BY <1>5 DEF CatalogStep, AbstractCatalog!Next

\* The rule's column is still in the header when the rule is inserted, and no
\* other rule has its id.
LEMMA InsertAdds ==
    ASSUME DatasetInv, OwnerInv, NEW r \in Requests, InsertRule(r) \/ InsertAckLost(r),
           UNCHANGED <<CatalogPending, CatalogHistory>>
    PROVE  CatalogStep
<1>1. /\ pc[r] = "rule_locked" /\ row_lock[req[r].ds] = r /\ req[r] \in RuleReq
      /\ UNCHANGED datasets
    BY DEF InsertRule, InsertAckLost, TxAlive, DatasetInv, RequestsTyped, RulePcs
<1>2. PICK d \in Datasets, f \in RuleDefs : d = req[r].ds /\ f = req[r].def
    BY <1>1 DEF RuleReq
<1>3. UNCHANGED CatalogUpload
    BY <1>1 DEF CatalogUpload
<1>4. CASE UNCHANGED validation_rules
    BY <1>3, <1>4, CatalogStutters
<1>5. CASE ~Duplicate(r) /\ AddRule(r)
    <2>1. datasets[d].content # Null /\ ColumnOf[f] \in HeaderOf[datasets[d].content]
        BY <1>1, <1>2 DEF DatasetInv, ChecksStillHold, TxPcs, ColumnKnown
    <2>2. CatalogUpload[d] = datasets[d].content
        BY DEF CatalogUpload
    <2>3. \A x \in validation_rules : x.id # r /\ ~(x.ds = d /\ x.def = f)
        BY <1>1, <1>2, <1>5 DEF Duplicate, OwnerInv, RulesHaveMakers, Terminal
    <2>4. validation_rules' = validation_rules \cup {[id |-> r, ds |-> d, def |-> f]}
        BY <1>2, <1>5 DEF AddRule
    <2>5. AbstractCatalog!AddRule(r, d, f)
        BY <1>3, <2>1, <2>2, <2>3, <2>4 DEF AbstractCatalog!AddRule, CatalogUpload,
           CatalogPending, CatalogHistory
    <2> QED
        BY <2>5 DEF CatalogStep, AbstractCatalog!Next
<1> QED
    BY <1>4, <1>5 DEF InsertRule, InsertAckLost

\* delete_rule takes out the one rule of that id, or none.
LEMMA DeleteDrops ==
    ASSUME DatasetInv, OwnerInv, NEW r \in Requests, DeleteRule(r),
           UNCHANGED <<CatalogPending, CatalogHistory>>
    PROVE  CatalogStep
<1>1. /\ validation_rules' = {x \in validation_rules : x.id # req[r].rule}
      /\ UNCHANGED CatalogUpload
    BY DEF DeleteRule, CatalogUpload
<1>2. CASE \A x \in validation_rules : x.id # req[r].rule
    <2>1. validation_rules' = validation_rules
        BY <1>1, <1>2
    <2> QED
        BY <1>1, <2>1, CatalogStutters
<1>3. CASE \E x \in validation_rules : x.id = req[r].rule
    <2>1. PICK x \in validation_rules : x.id = req[r].rule
        BY <1>3
    <2>2. \A y \in validation_rules : y.id = x.id => y = x
        BY DEF OwnerInv, RulesHaveMakers, DatasetInv, TypeOK, Rule
    <2>3. validation_rules' = validation_rules \ {x}
        BY <1>1, <2>1, <2>2
    <2>4. AbstractCatalog!DropRule(x)
        BY <1>1, <2>3 DEF AbstractCatalog!DropRule, CatalogUpload, CatalogPending,
           CatalogHistory
    <2> QED
        BY <2>4 DEF CatalogStep, AbstractCatalog!Next
<1> QED
    BY <1>2, <1>3

LEMMA RequestRefines ==
    ASSUME AnalysisInv, RequestNext, UNCHANGED analysisVars
    PROVE  CatalogStep
<1>1. DatasetInv /\ OwnerInv /\ [Next]_vars
    BY DEF AnalysisInv, Next
<1>2. UNCHANGED <<CatalogPending, CatalogHistory>>
    BY DEF CatalogPending, CatalogHistory, Pending, analysisVars
<1>3. ASSUME NEW u \in Users, NEW e \in Datasets, CreateDataset(u, e)
      PROVE  CatalogStep
    <2>1. UNCHANGED <<CatalogUpload, validation_rules>>
        BY <1>1, <1>3 DEF CreateDataset, NoRow, CatalogUpload, DatasetInv, TypeOK
    <2> QED
        BY <1>2, <2>1, CatalogStutters
<1>4. CASE UNCHANGED <<datasets, validation_rules>>
    <2>1. UNCHANGED CatalogUpload
        BY <1>4 DEF CatalogUpload
    <2> QED
        BY <1>2, <1>4, <2>1, CatalogStutters
<1> QED
    BY <1>1, <1>2, <1>3, <1>4, WhoWrites, CommitReplaces, InsertAdds, DeleteDrops

\* The rest of a step that leaves the dataset, its rules and the other
\* analyses alone and gives this analysis up, or keeps it as it is.
LEMMA GivenUp ==
    ASSUME NEW a \in Analysts, UNCHANGED <<datasets, validation_rules, analyses>>,
           \A b \in Analysts : b # a => Pending(b)' = Pending(b),
           Pending(a)' = Null \/ Pending(a)' = Pending(a)
    PROVE  CatalogStep
<1>1. UNCHANGED <<CatalogUpload, validation_rules, CatalogHistory>>
    BY DEF CatalogUpload, CatalogHistory
<1>2. CASE Pending(a)' = Pending(a)
    <2>1. UNCHANGED CatalogPending
        BY <1>2 DEF CatalogPending
    <2> QED
        BY <1>1, <2>1, CatalogStutters
<1>3. CASE Pending(a)' = Null
    <2>1. CatalogPending' = [b \in Analysts |-> IF b \in {a} THEN Null ELSE CatalogPending[b]]
        BY <1>3 DEF CatalogPending
    <2>2. AbstractCatalog!Abandon({a})
        BY <1>1, <2>1 DEF AbstractCatalog!Abandon, CatalogUpload, CatalogPending,
           CatalogHistory
    <2> QED
        BY <2>2 DEF CatalogStep, AbstractCatalog!Next
<1> QED
    BY <1>2, <1>3

\* A step of one analysis is invisible in the others.
LEMMA OthersKeepPending ==
    ASSUME AnalysisInv, NEW a \in Analysts, AnalysisStep(a) \/ AnalysisMishap(a),
           NEW b \in Analysts, b # a
    PROVE  Pending(b)' = Pending(b)
<1>1. apc'[b] = apc[b] /\ areq'[b] = areq[b] /\ snapshot'[b] = snapshot[b]
    BY DEF AnalysisStep, AnalysisMishap, AnalysisNotFound, CaptureRow, CaptureRules,
       CaptureFile, Evaluate, PersistAnalysis, LostAnalysisRaises, AnalysisFails,
       ReadFails, AnalysisConnectionLost, AGoto, AnalysisInv, AnalysisTypeOK
<1> QED
    BY <1>1 DEF Pending

\* Upload and rules are read at different moments, but under one lock: the
\* Catalog reads both when the rules are read.
LEMMA CaptureRulesCaptures ==
    ASSUME AnalysisInv, NEW a \in Analysts, CaptureRules(a), UNCHANGED datasetVars
    PROVE  CatalogStep
<1> DEFINE d == areq[a].ds
<1>1. /\ AnalystInv(a) /\ apc[a] = "locked" /\ ATxAlive(a) /\ d \in Datasets
      /\ snapshot[a] \in Snapshot
      /\ UNCHANGED <<datasets, validation_rules, analyses, areq>>
    BY ByAnalyst DEF CaptureRules, AnalystInv, AnalysisReq, ATxPcs, datasetVars
<1>2. \A b \in Analysts : b # a => Pending(b)' = Pending(b)
    BY OthersKeepPending DEF AnalysisStep
<1>3. Pending(a) = Null
    BY <1>1 DEF Pending
<1>4. CASE RulesOf(d) = {}
    <2>1. apc' = [apc EXCEPT ![a] = "failed"]
        BY <1>4 DEF CaptureRules, AGoto
    <2>2. Pending(a)' = Null
        BY <2>1 DEF Pending, AnalysisInv, AnalysisTypeOK
    <2> QED
        BY <1>1, <1>2, <2>2, GivenUp
<1>5. CASE RulesOf(d) # {}
    <2> DEFINE p == [ds |-> d, content |-> CatalogUpload[d], rules |-> RulesOf(d)]
    <2>1. /\ apc' = [apc EXCEPT ![a] = "rules_read"]
          /\ snapshot' = [snapshot EXCEPT ![a].rules = RulesOf(d)]
        BY <1>5 DEF CaptureRules, AGoto
    <2>2. /\ apc'[a] = "rules_read" /\ areq'[a].ds = d
          /\ snapshot'[a].content = snapshot[a].content
          /\ snapshot'[a].rules = RulesOf(d)
        BY <1>1, <2>1 DEF AnalysisInv, AnalysisTypeOK, Snapshot
    <2>3. snapshot[a].content = CatalogUpload[d] /\ CatalogUpload[d] # Null
        BY <1>1, DatasetAssumption DEF AnalystInv, CatalogUpload, ATxPcs, Snapshot
    <2>4. Pending(a)' = p
        BY <2>2, <2>3 DEF Pending
    <2>5. CatalogPending' = [CatalogPending EXCEPT ![a] = p]
        BY <1>2, <2>4 DEF CatalogPending
    <2>6. CatalogPending[a] = Null
        BY <1>3 DEF CatalogPending
    <2>7. UNCHANGED <<CatalogUpload, validation_rules, CatalogHistory>>
        BY <1>1 DEF CatalogUpload, CatalogHistory
    <2>8. AbstractCatalog!RulesOf(d) = RulesOf(d)
        BY DEF AbstractCatalog!RulesOf, RulesOf
    <2>9. AbstractCatalog!Capture(a, d)
        BY <1>5, <2>3, <2>5, <2>6, <2>7, <2>8 DEF AbstractCatalog!Capture, CatalogUpload,
           CatalogPending, CatalogHistory
    <2> QED
        BY <1>1, <2>9 DEF CatalogStep, AbstractCatalog!Next
<1> QED
    BY <1>4, <1>5

\* What is recorded is what was captured, whatever happened to the dataset
\* since.
LEMMA PersistAnalysisRecords ==
    ASSUME AnalysisInv, NEW a \in Analysts, PersistAnalysis(a), UNCHANGED datasetVars
    PROVE  CatalogStep
<1>1. /\ apc[a] = "evaluated" /\ Record(a) /\ areq[a] \in AnalysisReq
      /\ snapshot[a] \in Snapshot /\ UNCHANGED <<datasets, validation_rules>>
    BY ByAnalyst DEF PersistAnalysis, AnalystInv, datasetVars
<1>2. \A b \in Analysts : b # a => Pending(b)' = Pending(b)
    BY OthersKeepPending DEF AnalysisStep
<1>3. Pending(a)' = Null
    BY DEF PersistAnalysis, AGoto, Pending, AnalysisInv, AnalysisTypeOK
<1> DEFINE p == [ds |-> areq[a].ds, content |-> snapshot[a].content,
                 rules |-> snapshot[a].rules]
<1>4. Pending(a) = p
    BY <1>1 DEF Pending
<1>5. p \in [ds : Datasets, content : Contents, rules : SUBSET Rule]
    BY <1>1 DEF AnalysisReq, Snapshot
<1>6. CatalogPending[a] = p /\ CatalogPending[a] # Null
    BY <1>4, <1>5, AnalysisAssumption DEF CatalogPending
<1>7. CatalogPending' = [CatalogPending EXCEPT ![a] = Null]
    BY <1>2, <1>3 DEF CatalogPending
<1>8. CatalogHistory' = CatalogHistory \cup {[id |-> a, result |-> p]}
    <2> DEFINE y == [id |-> a, ds |-> areq[a].ds, content |-> snapshot[a].content,
                     rules |-> snapshot[a].rules]
               Shown(x) == [id |-> x.id, result |->
                               [ds |-> x.ds, content |-> x.content, rules |-> x.rules]]
    <2>1. Shown(y) = [id |-> a, result |-> p]
        OBVIOUS
    <2>2. analyses' = analyses \cup {y}
        BY <1>1 DEF Record
    <2>3. /\ CatalogHistory = {Shown(x) : x \in analyses}
          /\ CatalogHistory' = {Shown(x) : x \in analyses'}
        BY DEF CatalogHistory
    <2> HIDE DEF y, Shown, p
    <2>4. {Shown(x) : x \in analyses \cup {y}} = {Shown(x) : x \in analyses} \cup {Shown(y)}
        OBVIOUS
    <2> QED
        BY <2>1, <2>2, <2>3, <2>4
<1>9. UNCHANGED CatalogUpload
    BY <1>1 DEF CatalogUpload
<1> HIDE DEF p
<1>10. AbstractCatalog!Record(a)
    BY <1>1, <1>6, <1>7, <1>8, <1>9 DEF AbstractCatalog!Record, CatalogUpload,
       CatalogPending, CatalogHistory
<1> QED
    BY <1>10 DEF CatalogStep, AbstractCatalog!Next

\* Every other step of an analysis leaves the Catalog alone or gives up.
LEMMA AnalystRefines ==
    ASSUME AnalysisInv, NEW a \in Analysts, AnalysisStep(a) \/ AnalysisMishap(a)
    PROVE  CatalogStep
<1>1. UNCHANGED datasetVars
    BY DEF AnalysisStep, AnalysisMishap
<1>2. CASE CaptureRules(a)
    BY <1>1, <1>2, CaptureRulesCaptures
<1>3. CASE PersistAnalysis(a)
    BY <1>1, <1>3, PersistAnalysisRecords
<1>4. CASE \/ AnalysisNotFound(a) \/ CaptureRow(a) \/ CaptureFile(a) \/ Evaluate(a)
           \/ LostAnalysisRaises(a) \/ AnalysisFails(a) \/ ReadFails(a)
           \/ AnalysisConnectionLost(a)
    <2>1. UNCHANGED <<datasets, validation_rules, analyses>>
        BY <1>1, <1>4 DEF AnalysisNotFound, CaptureRow, CaptureFile, Evaluate,
           LostAnalysisRaises, AnalysisFails, ReadFails, AnalysisConnectionLost,
           datasetVars
    <2>2. \A b \in Analysts : b # a => Pending(b)' = Pending(b)
        BY OthersKeepPending
    <2>3. Pending(a)' = Null \/ Pending(a)' = Pending(a)
        <3> USE DEF AGoto, Pending, AnalysisInv, AnalysisTypeOK
        <3>1. CASE CaptureRow(a)
            BY <3>1 DEF CaptureRow
        <3>2. CASE CaptureFile(a)
            BY <3>2 DEF CaptureFile
        <3>3. CASE Evaluate(a)
            BY <3>3 DEF Evaluate
        <3>4. CASE AnalysisNotFound(a) \/ LostAnalysisRaises(a) \/ AnalysisFails(a)
                   \/ ReadFails(a)
            BY <3>4 DEF AnalysisNotFound, LostAnalysisRaises, AnalysisFails, ReadFails
        <3>5. CASE AnalysisConnectionLost(a)
            BY <3>5 DEF AnalysisConnectionLost
        <3> QED
            BY <1>4, <3>1, <3>2, <3>3, <3>4, <3>5
    <2> QED
        BY <2>1, <2>2, <2>3, GivenUp
<1> QED
    BY <1>2, <1>3, <1>4 DEF AnalysisStep, AnalysisMishap

LEMMA StartRefines ==
    ASSUME AnalysisInv, NEW a \in Analysts, NEW u \in Users, NEW d \in Datasets,
           StartAnalysis(a, u, d), UNCHANGED datasetVars
    PROVE  CatalogStep
<1>1. UNCHANGED <<datasets, validation_rules, analyses>>
    BY DEF StartAnalysis, datasetVars
<1>2. \A b \in Analysts : b # a => Pending(b)' = Pending(b)
    BY DEF StartAnalysis, AGoto, Pending, AnalysisInv, AnalysisTypeOK
<1>3. Pending(a)' = Null
    BY DEF StartAnalysis, AGoto, Pending, AnalysisInv, AnalysisTypeOK
<1> QED
    BY <1>1, <1>2, <1>3, GivenUp

\* A crash abandons every analysis under way, and changes neither rows nor
\* rules.
LEMMA CrashRefines ==
    ASSUME AnalysisInv, ProcessCrash
    PROVE  CatalogStep
<1>1. UNCHANGED <<CatalogUpload, validation_rules, CatalogHistory>>
    BY DEF ProcessCrash, CrashRequests, CatalogUpload, CatalogHistory
<1>2. \A a \in Analysts : Pending(a)' = Null
    BY DEF ProcessCrash, Pending, AInFlight, ATxPcs
<1>3. CatalogPending' = [b \in Analysts |-> IF b \in Analysts THEN Null ELSE CatalogPending[b]]
    BY <1>2 DEF CatalogPending
<1>4. AbstractCatalog!Abandon(Analysts)
    BY <1>1, <1>3 DEF AbstractCatalog!Abandon, CatalogUpload, CatalogPending, CatalogHistory
<1> QED
    BY <1>4 DEF CatalogStep, AbstractCatalog!Next

LEMMA NextRefines == AnalysisInv /\ [AnalysisNext]_allVars => CatalogStep
<1> SUFFICES ASSUME AnalysisInv, [AnalysisNext]_allVars
             PROVE  CatalogStep
    OBVIOUS
<1>1. CASE UNCHANGED allVars
    <2>1. UNCHANGED <<CatalogUpload, validation_rules, CatalogPending, CatalogHistory>>
        BY <1>1 DEF allVars, vars, analysisVars, CatalogUpload, CatalogPending,
           CatalogHistory, Pending
    <2> QED
        BY <2>1, CatalogStutters
<1> QED
    BY <1>1, RequestRefines, StartRefines, AnalystRefines, CrashRefines
       DEF AnalysisNext, AllQuiescent

LEMMA InitRefines == AnalysisInit => AbstractCatalog!Init
BY DEF AnalysisInit, Init, NoRow, Pending, AbstractCatalog!Init

\* Whatever interleaves, fails or crashes, the two services do what the Catalog
\* allows and no more: an upload, a rule and an analysis appear at one instant,
\* a rule always fits the upload of its dataset, and an analysis records the
\* upload and the rules of one instant.
THEOREM AnalysisRefinesCatalog == AnalysisSpec => ImplementsCatalog
<1>1. AnalysisInv /\ [AnalysisNext]_allVars => [AbstractCatalog!Next]_(AbstractCatalog!vars)
    BY NextRefines DEF CatalogStep
<1> QED
    BY <1>1, InitRefines, AnalysisInvariance, PTL
       DEF AnalysisSpec, ImplementsCatalog, AbstractCatalog!Spec

=============================================================================
