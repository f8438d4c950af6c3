--------------------------- MODULE ListingsProofs ---------------------------
(***************************************************************************)
(* TLAPS proofs about Listings, for any number of writers, ids and rows    *)
(* and any clock bound: the timestamps that are stored agree, and an       *)
(* analysis that is read in two statements is read whole.                  *)
(*                                                                         *)
(* Both rest on ids being given out once (IdsAreFresh): an upload or a     *)
(* detail refers to the row it found and to no row made since.  What a     *)
(* walk through the pages covers is proved in ListingPagesProofs.          *)
(***************************************************************************)
EXTENDS Listings, TLAPS

----------------------------------------------------------------------------
(* The inductive invariant.                                                *)

DatasetRow == [id : DatasetIds, created_at : Nat, updated_at : Nat,
               uploaded_at : Nat \cup {Null}]

AnalysisRow == [id : AnalysisIds, created_at : Nat, source_uploaded_at : Nat,
                measured : SUBSET RuleIds]

Operation ==
         [name : {"create_dataset"}, row : DatasetRow]
    \cup [name : {"upload_csv"}, id : DatasetIds, now : Nat]
    \cup [name : {"create_rule"}, row : [id : RuleIds, created_at : Nat]]
    \cup [name : {"capture"}, uploaded_at : Nat, rules : SUBSET RuleIds]
    \cup [name : {"persist"}, row : AnalysisRow]

ListingsTypeOK ==
    /\ clock \in Nat
    /\ datasets \subseteq DatasetRow
    /\ rules \subseteq [id : RuleIds, created_at : Nat]
    /\ analyses \subseteq AnalysisRow
    /\ results \subseteq [analysis_id : AnalysisIds, source_rule_id : RuleIds]
    /\ used \in [datasets : SUBSET DatasetIds, rules : SUBSET RuleIds,
                 analyses : SUBSET AnalysisIds]
    /\ op \in [Writers -> Operation \cup {Null}]
    /\ detail \in [analysis : analyses, results : {Null} \cup SUBSET RuleIds]
                  \cup {Null}

\* A row that is being created has an id no other row has, stored or being
\* created.
IdsAreFresh ==
    /\ \A d \in datasets : d.id \in used.datasets
    /\ \A a \in analyses : a.id \in used.analyses
    /\ \A w \in Writers :
          /\ Doing(w, "create_dataset") =>
                /\ op[w].row.id \in used.datasets
                /\ \A d \in datasets : d.id # op[w].row.id
          /\ Doing(w, "persist") =>
                /\ op[w].row.id \in used.analyses
                /\ \A a \in analyses : a.id # op[w].row.id
    /\ \A v, w \in Writers : v # w =>
          /\ Doing(v, "create_dataset") /\ Doing(w, "create_dataset") =>
                op[v].row.id # op[w].row.id
          /\ Doing(v, "persist") /\ Doing(w, "persist") => op[v].row.id # op[w].row.id
    /\ \A a, b \in analyses : a.id = b.id => a = b

\* What a row or a pending operation says of the time is in the past, and in
\* the order of the events.
StampsAreOrdered ==
    /\ \A d \in datasets :
          /\ d.created_at <= d.updated_at /\ d.updated_at <= clock
          /\ d.uploaded_at # Null =>
                d.created_at <= d.uploaded_at /\ d.uploaded_at <= d.updated_at
    /\ \A a \in analyses : a.source_uploaded_at <= a.created_at
    /\ \A w \in Writers :
          /\ Doing(w, "create_dataset") =>
                /\ op[w].row.created_at <= clock
                /\ op[w].row.updated_at = op[w].row.created_at
                /\ op[w].row.uploaded_at = Null
          /\ Doing(w, "upload_csv") =>
                /\ op[w].now <= clock
                /\ \E d \in datasets : d.id = op[w].id
                /\ \A d \in datasets : d.id = op[w].id => d.created_at <= op[w].now
          /\ Doing(w, "capture") => op[w].uploaded_at <= clock
          /\ Doing(w, "persist") => op[w].row.source_uploaded_at <= op[w].row.created_at

\* Every stored analysis has its results, and every result its analysis.
ResultsAreWhole ==
    /\ \A r \in results : \E a \in analyses : r.analysis_id = a.id
    /\ \A a \in analyses, k \in RuleIds :
          k \in a.measured <=> [analysis_id |-> a.id, source_rule_id |-> k] \in results

ListingsInv ==
    /\ ListingsTypeOK
    /\ IdsAreFresh
    /\ StampsAreOrdered
    /\ ResultsAreWhole
    /\ DetailsAreWhole

USE DEF ListingsTypeOK, DatasetRow, AnalysisRow, Operation, ListingsInv

\* The fields an operation in progress carries.
LEMMA OperationFacts ==
  ASSUME ListingsTypeOK, NEW w \in Writers
  PROVE  /\ Doing(w, "create_dataset") => op[w].row \in DatasetRow
         /\ Doing(w, "upload_csv") => op[w].id \in DatasetIds /\ op[w].now \in Nat
         /\ Doing(w, "create_rule") => op[w].row \in [id : RuleIds, created_at : Nat]
         /\ Doing(w, "capture") => op[w].uploaded_at \in Nat /\ op[w].rules \in SUBSET RuleIds
         /\ Doing(w, "persist") => op[w].row \in AnalysisRow
  <1>1. op[w] # Null => op[w] \in Operation
    OBVIOUS
  <1>2. Doing(w, "create_dataset") => op[w].row \in DatasetRow
    BY <1>1 DEF Doing
  <1>3. Doing(w, "upload_csv") => op[w].id \in DatasetIds /\ op[w].now \in Nat
    BY <1>1 DEF Doing
  <1>4. Doing(w, "create_rule") => op[w].row \in [id : RuleIds, created_at : Nat]
    BY <1>1 DEF Doing
  <1>5. Doing(w, "capture") => op[w].uploaded_at \in Nat /\ op[w].rules \in SUBSET RuleIds
    BY <1>1 DEF Doing
  <1>6. Doing(w, "persist") => op[w].row \in AnalysisRow
    BY <1>1 DEF Doing
  <1> HIDE DEF DatasetRow, AnalysisRow
  <1> QED
    BY <1>2, <1>3, <1>4, <1>5, <1>6

\* An analysis stays stored, so a detail that was read stays one of a stored
\* analysis.
LEMMA DetailKept ==
  ASSUME ListingsTypeOK, detail' = detail, analyses \subseteq analyses'
  PROVE  detail' \in [analysis : analyses', results : {Null} \cup SUBSET RuleIds]
                     \cup {Null}
  OBVIOUS

----------------------------------------------------------------------------
(* Preservation of the invariant, action by action.                        *)

\* Time passes: what lies in the past stays there.
LEMMA TickInv ==
  ASSUME ListingsInv, Tick
  PROVE  ListingsInv'
  <1>1. ListingsTypeOK'
    BY ListingsAssumption DEF Tick, tables
  <1>2. IdsAreFresh'
    BY ListingsAssumption DEF Tick, tables, IdsAreFresh, Doing
  <1>3. StampsAreOrdered'
    BY ListingsAssumption DEF Tick, tables, IdsAreFresh, StampsAreOrdered, Doing
  <1>4. ResultsAreWhole' /\ DetailsAreWhole'
    BY ListingsAssumption DEF Tick, tables, IdsAreFresh, ResultsAreWhole, DetailsAreWhole,
       Doing
  <1> QED
    BY <1>1, <1>2, <1>3, <1>4

\* The id of a new dataset is given out now.
LEMMA StartCreateDatasetInv ==
  ASSUME ListingsInv, NEW w \in Writers, NEW id \in DatasetIds,
         StartCreateDataset(w, id)
  PROVE  ListingsInv'
  <1>1. ListingsTypeOK'
    BY ListingsAssumption DEF StartCreateDataset, NewId, Begin, tables
  <1>2. IdsAreFresh'
    BY ListingsAssumption DEF StartCreateDataset, NewId, Begin, tables, IdsAreFresh, Doing
  <1>3. StampsAreOrdered'
    BY ListingsAssumption DEF StartCreateDataset, NewId, Begin, tables, IdsAreFresh, StampsAreOrdered, Doing
  <1>4. ResultsAreWhole' /\ DetailsAreWhole'
    BY ListingsAssumption DEF StartCreateDataset, NewId, Begin, tables, IdsAreFresh, ResultsAreWhole, DetailsAreWhole,
       Doing
  <1> QED
    BY <1>1, <1>2, <1>3, <1>4

\* Rules carry no timestamp that a property is about.
LEMMA StartCreateRuleInv ==
  ASSUME ListingsInv, NEW w \in Writers, NEW id \in RuleIds, StartCreateRule(w, id)
  PROVE  ListingsInv'
  <1>1. ListingsTypeOK'
    BY ListingsAssumption DEF StartCreateRule, NewId, Begin, tables
  <1>2. IdsAreFresh'
    BY ListingsAssumption DEF StartCreateRule, NewId, Begin, tables, IdsAreFresh, Doing
  <1>3. StampsAreOrdered'
    BY ListingsAssumption DEF StartCreateRule, NewId, Begin, tables, IdsAreFresh, StampsAreOrdered, Doing
  <1>4. ResultsAreWhole' /\ DetailsAreWhole'
    BY ListingsAssumption DEF StartCreateRule, NewId, Begin, tables, IdsAreFresh, ResultsAreWhole, DetailsAreWhole,
       Doing
  <1> QED
    BY <1>1, <1>2, <1>3, <1>4

\* The id and the date of a new analysis are taken after its upload was read.
LEMMA StartPersistInv ==
  ASSUME ListingsInv, NEW w \in Writers, NEW id \in AnalysisIds, StartPersist(w, id)
  PROVE  ListingsInv'
  <1>1. ListingsTypeOK'
    <2>1. op[w].uploaded_at \in Nat /\ op[w].rules \in SUBSET RuleIds
      BY OperationFacts DEF StartPersist
    <2>2. op' \in [Writers -> Operation \cup {Null}]
      BY <2>1 DEF StartPersist
    <2>3. used' \in [datasets : SUBSET DatasetIds, rules : SUBSET RuleIds,
                     analyses : SUBSET AnalysisIds]
      BY DEF StartPersist, NewId
    <2> QED
      BY <2>2, <2>3 DEF StartPersist, tables
  <1>2. IdsAreFresh'
    BY ListingsAssumption DEF StartPersist, NewId, tables, IdsAreFresh, Doing
  <1>3. StampsAreOrdered'
    BY ListingsAssumption DEF StartPersist, NewId, tables, IdsAreFresh, StampsAreOrdered, Doing
  <1>4. ResultsAreWhole' /\ DetailsAreWhole'
    BY ListingsAssumption DEF StartPersist, NewId, tables, IdsAreFresh, ResultsAreWhole, DetailsAreWhole,
       Doing
  <1> QED
    BY <1>1, <1>2, <1>3, <1>4

\* An upload reads the clock after its dataset was created.
LEMMA StartUploadInv ==
  ASSUME ListingsInv, NEW w \in Writers, NEW d \in datasets, StartUpload(w, d)
  PROVE  ListingsInv'
  <1>1. ListingsTypeOK'
    BY ListingsAssumption DEF StartUpload, Begin, tables
  <1>2. IdsAreFresh'
    BY ListingsAssumption DEF StartUpload, Begin, tables, IdsAreFresh, Doing
  <1>3. StampsAreOrdered'
    BY ListingsAssumption DEF StartUpload, Begin, tables, IdsAreFresh, StampsAreOrdered, Doing
  <1>4. ResultsAreWhole' /\ DetailsAreWhole'
    BY ListingsAssumption DEF StartUpload, Begin, tables, IdsAreFresh, ResultsAreWhole, DetailsAreWhole,
       Doing
  <1> QED
    BY <1>1, <1>2, <1>3, <1>4

\* The new row has an id that no upload in flight refers to.
LEMMA CreateDatasetInv ==
  ASSUME ListingsInv, NEW w \in Writers, CreateDataset(w)
  PROVE  ListingsInv'
  <1>1. ListingsTypeOK'
    <2>1. op[w].row \in DatasetRow
      BY OperationFacts DEF CreateDataset
    <2>2. datasets' \subseteq DatasetRow
      BY <2>1 DEF CreateDataset
    <2>3. op' \in [Writers -> Operation \cup {Null}]
      BY DEF CreateDataset, End
    <2> QED
      BY <2>2, <2>3 DEF CreateDataset
  <1>2. IdsAreFresh'
    BY ListingsAssumption DEF CreateDataset, End, IdsAreFresh, Doing
  <1>3. StampsAreOrdered'
    BY ListingsAssumption DEF CreateDataset, End, IdsAreFresh, StampsAreOrdered, Doing
  <1>4. ResultsAreWhole' /\ DetailsAreWhole'
    BY ListingsAssumption DEF CreateDataset, End, IdsAreFresh, ResultsAreWhole, DetailsAreWhole,
       Doing
  <1> QED
    BY <1>1, <1>2, <1>3, <1>4

\* The row is stamped with a time between its creation and now.
LEMMA UploadCsvInv ==
  ASSUME ListingsInv, NEW w \in Writers, UploadCsv(w)
  PROVE  ListingsInv'
  <1>1. /\ op[w].id \in DatasetIds /\ op[w].now \in Nat /\ op[w].now <= clock
        /\ \A d \in datasets : d.id = op[w].id => d.created_at <= op[w].now
    BY OperationFacts DEF UploadCsv, StampsAreOrdered
  <1>2. ASSUME NEW d \in datasets
        PROVE  /\ Stamp(d, op[w].now) \in DatasetRow
               /\ Stamp(d, op[w].now).id = d.id
               /\ Stamp(d, op[w].now).created_at = d.created_at
               /\ Stamp(d, op[w].now).updated_at = op[w].now
               /\ Stamp(d, op[w].now).uploaded_at = op[w].now
    BY <1>1 DEF Stamp
  <1>3. \A e \in datasets' : \E d \in datasets :
           /\ e \in DatasetRow /\ e.id = d.id /\ e.created_at = d.created_at
           /\ \/ e = d
              \/ d.id = op[w].id /\ e.updated_at = op[w].now /\ e.uploaded_at = op[w].now
    BY <1>2 DEF UploadCsv
  <1>4. \A d \in datasets : \E e \in datasets' :
           e.id = d.id /\ e.created_at = d.created_at
    BY <1>2 DEF UploadCsv
  <1>5. /\ op' = [op EXCEPT ![w] = Null]
        /\ UNCHANGED <<clock, rules, analyses, results, used, detail>>
    BY DEF UploadCsv, End
  <1>6. ListingsTypeOK'
    BY <1>3, <1>5
  <1>7. IdsAreFresh'
    BY <1>3, <1>5 DEF IdsAreFresh, Doing
  <1>8. StampsAreOrdered'
    <2>1. \A e \in datasets' :
             /\ e.created_at <= e.updated_at /\ e.updated_at <= clock
             /\ e.uploaded_at # Null =>
                   e.created_at <= e.uploaded_at /\ e.uploaded_at <= e.updated_at
      BY <1>1, <1>3 DEF StampsAreOrdered
    <2>2. ASSUME NEW v \in Writers, Doing(v, "upload_csv")'
          PROVE  /\ op'[v].now <= clock
                 /\ \E e \in datasets' : e.id = op'[v].id
                 /\ \A e \in datasets' : e.id = op'[v].id => e.created_at <= op'[v].now
      BY <1>3, <1>4, <1>5, <2>2 DEF StampsAreOrdered, Doing
    <2>3. \A v \in Writers :
             /\ Doing(v, "create_dataset")' => Doing(v, "create_dataset") /\ op'[v] = op[v]
             /\ Doing(v, "capture")' => Doing(v, "capture") /\ op'[v] = op[v]
             /\ Doing(v, "persist")' => Doing(v, "persist") /\ op'[v] = op[v]
      BY <1>5 DEF Doing
    <2> QED
      BY <1>5, <2>1, <2>2, <2>3 DEF StampsAreOrdered
  <1>9. ResultsAreWhole' /\ DetailsAreWhole'
    BY <1>5 DEF ResultsAreWhole, DetailsAreWhole
  <1> QED
    BY <1>6, <1>7, <1>8, <1>9

\* A new rule changes no timestamp.
LEMMA CreateRuleInv ==
  ASSUME ListingsInv, NEW w \in Writers, CreateRule(w)
  PROVE  ListingsInv'
  <1>1. ListingsTypeOK'
    <2>1. op[w].row \in [id : RuleIds, created_at : Nat]
      BY OperationFacts DEF CreateRule
    <2>2. rules' \subseteq [id : RuleIds, created_at : Nat]
      BY <2>1 DEF CreateRule
    <2>3. op' \in [Writers -> Operation \cup {Null}]
      BY DEF CreateRule, End
    <2> QED
      BY <2>2, <2>3 DEF CreateRule
  <1>2. IdsAreFresh'
    BY ListingsAssumption DEF CreateRule, End, IdsAreFresh, Doing
  <1>3. StampsAreOrdered'
    BY ListingsAssumption DEF CreateRule, End, IdsAreFresh, StampsAreOrdered, Doing
  <1>4. ResultsAreWhole' /\ DetailsAreWhole'
    BY ListingsAssumption DEF CreateRule, End, IdsAreFresh, ResultsAreWhole, DetailsAreWhole,
       Doing
  <1> QED
    BY <1>1, <1>2, <1>3, <1>4

\* The upload time that is captured is in the past.
LEMMA CaptureSnapshotInv ==
  ASSUME ListingsInv, NEW w \in Writers, CaptureSnapshot(w)
  PROVE  ListingsInv'
  <1>1. ListingsTypeOK'
    BY ListingsAssumption DEF CaptureSnapshot, UploadOf, Begin, tables
  <1>2. IdsAreFresh'
    BY ListingsAssumption DEF CaptureSnapshot, UploadOf, Begin, tables, IdsAreFresh, Doing
  <1>3. StampsAreOrdered'
    BY ListingsAssumption DEF CaptureSnapshot, UploadOf, Begin, tables, IdsAreFresh, StampsAreOrdered, Doing
  <1>4. ResultsAreWhole' /\ DetailsAreWhole'
    BY ListingsAssumption DEF CaptureSnapshot, UploadOf, Begin, tables, IdsAreFresh, ResultsAreWhole, DetailsAreWhole,
       Doing
  <1> QED
    BY <1>1, <1>2, <1>3, <1>4

\* A failed analysis stores nothing.
LEMMA FailAnalysisInv ==
  ASSUME ListingsInv, NEW w \in Writers, FailAnalysis(w)
  PROVE  ListingsInv'
  <1>1. ListingsTypeOK'
    BY ListingsAssumption DEF FailAnalysis, End, tables
  <1>2. IdsAreFresh'
    BY ListingsAssumption DEF FailAnalysis, End, tables, IdsAreFresh, Doing
  <1>3. StampsAreOrdered'
    BY ListingsAssumption DEF FailAnalysis, End, tables, IdsAreFresh, StampsAreOrdered, Doing
  <1>4. ResultsAreWhole' /\ DetailsAreWhole'
    BY ListingsAssumption DEF FailAnalysis, End, tables, IdsAreFresh, ResultsAreWhole, DetailsAreWhole,
       Doing
  <1> QED
    BY <1>1, <1>2, <1>3, <1>4

\* The analysis and exactly its results are stored, under an id of its own.
LEMMA PersistAnalysisInv ==
  ASSUME ListingsInv, NEW w \in Writers, PersistAnalysis(w)
  PROVE  ListingsInv'
  <1>1. ListingsTypeOK'
    <2>1. op[w].row \in AnalysisRow
      BY OperationFacts DEF PersistAnalysis
    <2>2. analyses' \subseteq AnalysisRow /\ analyses \subseteq analyses'
      BY <2>1 DEF PersistAnalysis
    <2>3. results' \subseteq [analysis_id : AnalysisIds, source_rule_id : RuleIds]
      BY <2>1 DEF PersistAnalysis, ResultModels
    <2>4. op' \in [Writers -> Operation \cup {Null}]
      BY DEF PersistAnalysis, End
    <2>5. detail' \in [analysis : analyses', results : {Null} \cup SUBSET RuleIds]
                      \cup {Null}
      BY <2>2, DetailKept DEF PersistAnalysis
    <2> QED
      BY <2>2, <2>3, <2>4, <2>5 DEF PersistAnalysis
  <1>2. IdsAreFresh'
    BY ListingsAssumption DEF PersistAnalysis, ResultModels, End, IdsAreFresh, Doing
  <1>3. StampsAreOrdered'
    BY ListingsAssumption DEF PersistAnalysis, ResultModels, End, IdsAreFresh, StampsAreOrdered, Doing
  <1>4. ResultsAreWhole' /\ DetailsAreWhole'
    BY ListingsAssumption DEF PersistAnalysis, ResultModels, End, IdsAreFresh, ResultsAreWhole, DetailsAreWhole,
       Doing
  <1> QED
    BY <1>1, <1>2, <1>3, <1>4

\* Deleting a rule leaves what was measured by it.
LEMMA DeleteRuleInv ==
  ASSUME ListingsInv, NEW r \in rules, DeleteRule(r)
  PROVE  ListingsInv'
  <1>1. ListingsTypeOK'
    BY ListingsAssumption DEF DeleteRule
  <1>2. IdsAreFresh'
    BY ListingsAssumption DEF DeleteRule, IdsAreFresh, Doing
  <1>3. StampsAreOrdered'
    BY ListingsAssumption DEF DeleteRule, IdsAreFresh, StampsAreOrdered, Doing
  <1>4. ResultsAreWhole' /\ DetailsAreWhole'
    BY ListingsAssumption DEF DeleteRule, IdsAreFresh, ResultsAreWhole, DetailsAreWhole,
       Doing
  <1> QED
    BY <1>1, <1>2, <1>3, <1>4

\* The first statement of get_analysis finds a stored analysis.
LEMMA GetForDatasetOwnerInv ==
  ASSUME ListingsInv, NEW a \in analyses, GetForDatasetOwner(a)
  PROVE  ListingsInv'
  <1>1. ListingsTypeOK'
    BY ListingsAssumption DEF GetForDatasetOwner, tables
  <1>2. IdsAreFresh'
    BY ListingsAssumption DEF GetForDatasetOwner, tables, IdsAreFresh, Doing
  <1>3. StampsAreOrdered'
    BY ListingsAssumption DEF GetForDatasetOwner, tables, IdsAreFresh, StampsAreOrdered, Doing
  <1>4. ResultsAreWhole' /\ DetailsAreWhole'
    BY ListingsAssumption DEF GetForDatasetOwner, tables, IdsAreFresh, ResultsAreWhole, DetailsAreWhole,
       Doing
  <1> QED
    BY <1>1, <1>2, <1>3, <1>4

\* The second statement finds exactly what the analysis measured.
LEMMA ListForAnalysisInv ==
  ASSUME ListingsInv, ListForAnalysis
  PROVE  ListingsInv'
  <1>1. ListingsTypeOK'
    BY ListingsAssumption DEF ListForAnalysis, tables
  <1>2. IdsAreFresh'
    BY ListingsAssumption DEF ListForAnalysis, tables, IdsAreFresh, Doing
  <1>3. StampsAreOrdered'
    BY ListingsAssumption DEF ListForAnalysis, tables, IdsAreFresh, StampsAreOrdered, Doing
  <1>4. ResultsAreWhole' /\ DetailsAreWhole'
    <2>1. detail \in [analysis : analyses, results : {Null} \cup SUBSET RuleIds]
      BY DEF ListForAnalysis
    <2>2. {r.source_rule_id : r \in {x \in results : x.analysis_id = detail.analysis.id}}
             = detail.analysis.measured
      <3>1. ASSUME NEW x \in results, x.analysis_id = detail.analysis.id
            PROVE  x.source_rule_id \in detail.analysis.measured
        <4>1. x = [analysis_id |-> detail.analysis.id,
                   source_rule_id |-> x.source_rule_id]
          BY <3>1
        <4> QED
          BY <2>1, <4>1 DEF ResultsAreWhole
      <3>2. ASSUME NEW k \in detail.analysis.measured
            PROVE  \E x \in results : x.analysis_id = detail.analysis.id
                                      /\ x.source_rule_id = k
        <4>1. detail.analysis \in analyses /\ k \in RuleIds
          BY <2>1
        <4>2. [analysis_id |-> detail.analysis.id, source_rule_id |-> k] \in results
          BY <4>1 DEF ResultsAreWhole
        <4> QED
          BY <4>2
      <3> QED
        BY <3>1, <3>2
    <2>3. detail' = [detail EXCEPT !.results = detail.analysis.measured]
      BY <2>2 DEF ListForAnalysis
    <2>4. DetailsAreWhole'
      BY <2>1, <2>3 DEF DetailsAreWhole
    <2>5. ResultsAreWhole'
      BY DEF ListForAnalysis, tables, ResultsAreWhole
    <2> QED
      BY <2>4, <2>5
  <1> QED
    BY <1>1, <1>2, <1>3, <1>4

----------------------------------------------------------------------------
(* The theorems.                                                           *)

\* Before the first operation every table is empty.
LEMMA InvInit == Init => ListingsInv
  BY ListingsAssumption DEF Init, IdsAreFresh, StampsAreOrdered, ResultsAreWhole,
     DetailsAreWhole, Doing

\* Every step of a writer, of the clock or of a reader preserves the invariant.
LEMMA InvStep == ListingsInv /\ [Next]_vars => ListingsInv'
  <1> SUFFICES ASSUME ListingsInv, [Next]_vars PROVE ListingsInv'
    OBVIOUS
  <1>1. CASE UNCHANGED <<clock, datasets, rules, analyses, results, used, op, detail>>
    BY <1>1 DEF IdsAreFresh, StampsAreOrdered, ResultsAreWhole, DetailsAreWhole, Doing
  <1>2. ASSUME NEW kind, StartWalk(kind)
        PROVE  UNCHANGED <<clock, datasets, rules, analyses, results, used, op, detail>>
    BY <1>2 DEF StartWalk, tables
  <1>3. ReadPage =>
          UNCHANGED <<clock, datasets, rules, analyses, results, used, op, detail>>
    BY DEF ReadPage, Advance, tables
  <1>4. UNCHANGED vars =>
          UNCHANGED <<clock, datasets, rules, analyses, results, used, op, detail>>
    BY DEF vars
  <1> HIDE DEF ListingsInv
  <1> QED
    BY <1>1, <1>2, <1>3, <1>4, TickInv, StartCreateDatasetInv, StartCreateRuleInv,
       StartPersistInv, StartUploadInv, CreateDatasetInv, UploadCsvInv,
       CreateRuleInv, CaptureSnapshotInv, FailAnalysisInv, PersistAnalysisInv,
       DeleteRuleInv, GetForDatasetOwnerInv, ListForAnalysisInv
       DEF Next

\* The invariant holds in every reachable state.
THEOREM ListingsInvariance == Spec => []ListingsInv
  BY InvInit, InvStep, PTL DEF Spec

\* The CHECK constraints on the timestamps of table datasets never fire,
\* although upload_csv commits in another order than it reads the clock, and
\* create_analysis never dates an analysis before the upload it measured.
THEOREM TimestampsAlwaysAgree == Spec => []TimestampsAgree
  <1>1. ListingsInv => TimestampsAgree
    BY DEF StampsAreOrdered, TimestampsAgree
  <1> QED
    BY <1>1, ListingsInvariance, PTL

\* get_analysis, in two statements at READ COMMITTED, returns with an analysis
\* exactly the results it was computed from.
THEOREM DetailsAlwaysWhole == Spec => []DetailsAreWhole
  BY ListingsInvariance, PTL DEF ListingsInv

=============================================================================
