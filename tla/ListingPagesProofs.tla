------------------------- MODULE ListingPagesProofs -------------------------
(***************************************************************************)
(* TLAPS proofs about the paged lists of Listings, for any number of       *)
(* writers and rows, any page size and any interleaving of commits,        *)
(* deletions and pages.                                                    *)
(*                                                                         *)
(* A row's place is the number of rows before it.  A commit moves a row at *)
(* most one place back, and a deletion at most one place forward, so each  *)
(* pushes at most one row over the offset that the client has reached: a   *)
(* commit one row that will be listed again, a deletion one row that will  *)
(* be missed (WalkSound).  An upload changes rows but not their keys.      *)
(***************************************************************************)
EXTENDS ListingsProofs, FiniteSetTheorems

----------------------------------------------------------------------------
(* Keys and places.                                                        *)

\* What a list is ordered by.
Key(x) == <<x.created_at, x.id>>

KeysOf(table) == {Key(x) : x \in table}

Less(j, k) == j[1] < k[1] \/ (j[1] = k[1] /\ j[2] < k[2])

\* The order of the list: analyses are listed newest first.
Before(kind, j, k) == IF kind = "analyses" THEN Less(k, j) ELSE Less(j, k)

Place(kind, K, k) == Cardinality({j \in K : Before(kind, j, k)})

\* The keys of a list: no two rows have one id.
KeySet(K) ==
    /\ K \subseteq Nat \X Nat
    /\ IsFiniteSet(K)
    /\ \A j, k \in K : j[2] = k[2] => j = k

\* The rows of a table.
RowSet(table) ==
    /\ IsFiniteSet(table)
    /\ \A x \in table : x.id \in Nat /\ x.created_at \in Nat
    /\ \A x, y \in table : x.id = y.id => x = y

IdsIn(K) == {k[2] : k \in K}

----------------------------------------------------------------------------
(* The inductive invariant.                                                *)

\* Rows the client has passed without seeing them, and rows it has seen that are before it
\* again.
Missed(kind, K, steady, listed, offset) ==
    {k \in K : k[2] \in steady \ listed /\ Place(kind, K, k) < offset}

Again(kind, K, listed, offset) ==
    {k \in K : k[2] \in listed /\ offset <= Place(kind, K, k)}

IdsListed(listed) == {listed[i] : i \in DOMAIN listed}

\* What has been missed and repeated so far, and what the rows that are over the offset will
\* add to it, is within what was deleted and committed.
WalkSound(K, wk) ==
    LET ids == IdsListed(wk.listed) IN
    /\ wk.steady \subseteq IdsIn(K)
    /\ ~wk.ended =>
          /\ Cardinality(Missed(wk.kind, K, wk.steady, ids, wk.offset)) <= wk.deleted
          /\ Len(wk.listed) + Cardinality(Again(wk.kind, K, ids, wk.offset))
                <= wk.inserted + Cardinality(ids)
    /\ wk.ended =>
          /\ Cardinality(wk.steady \ ids) <= wk.deleted
          /\ Len(wk.listed) <= wk.inserted + Cardinality(ids)

Kinds == {"datasets", "rules", "analyses"}

Walk == [kind : Kinds, offset : Nat, listed : Seq(Nat), ended : BOOLEAN,
         steady : SUBSET Nat, inserted : Nat, deleted : Nat]

Table(kind) == IF kind = "datasets" THEN datasets
               ELSE IF kind = "rules" THEN rules ELSE analyses

\* The operation whose commit adds a row to the list.
Maker(kind) == IF kind = "datasets" THEN "create_dataset"
               ELSE IF kind = "rules" THEN "create_rule" ELSE "persist"

\* An id is given out before its row is stored, to one writer.
IdsInOrder(kind) ==
    /\ RowSet(Table(kind))
    /\ \A x \in Table(kind) : x.id \in used[kind]
    /\ \A v \in Writers : Doing(v, Maker(kind)) =>
          /\ op[v].row.id \in used[kind]
          /\ \A x \in Table(kind) : x.id # op[v].row.id
    /\ \A v, w \in Writers :
          v # w /\ Doing(v, Maker(kind)) /\ Doing(w, Maker(kind)) =>
             op[v].row.id # op[w].row.id

\* The client has seen no id of a row that is still to be stored, and WalkSound.
WalkInOrder(kind) ==
    walk # Null /\ walk.kind = kind =>
        /\ IdsListed(walk.listed) \cup walk.steady \subseteq used[kind]
        /\ \A v \in Writers : Doing(v, Maker(kind)) =>
              op[v].row.id \notin IdsListed(walk.listed) \cup walk.steady
        /\ WalkSound(KeysOf(Table(kind)), walk)

PagesInv ==
    /\ walk \in Walk \cup {Null}
    /\ \A kind \in Kinds : IdsInOrder(kind) /\ WalkInOrder(kind)

----------------------------------------------------------------------------
(* Places.                                                                 *)

\* The order of a list is strict and total.
LEMMA BeforeFacts ==
    ASSUME NEW kind, NEW j \in Nat \X Nat, NEW k \in Nat \X Nat, NEW l \in Nat \X Nat
    PROVE  /\ ~Before(kind, k, k)
           /\ Before(kind, j, k) /\ Before(kind, k, l) => Before(kind, j, l)
           /\ j # k => Before(kind, j, k) \/ Before(kind, k, j)
BY DEF Before, Less

\* A place is within the list, grows along it, and is one row's.
LEMMA PlaceFacts ==
    ASSUME NEW kind, NEW K, KeySet(K), NEW k \in K
    PROVE  /\ Place(kind, K, k) \in 0 .. Cardinality(K) - 1
           /\ \A l \in K : Before(kind, k, l) => Place(kind, K, k) < Place(kind, K, l)
           /\ \A l \in K : Place(kind, K, k) = Place(kind, K, l) => k = l
<1> DEFINE B(l) == {j \in K : Before(kind, j, l)}
<1>1. ASSUME NEW l
      PROVE  IsFiniteSet(B(l)) /\ Cardinality(B(l)) \in Nat
    BY FS_Subset, FS_CardinalityType DEF KeySet
<1>2. ASSUME NEW l \in K, NEW m \in K, Before(kind, l, m)
      PROVE  Cardinality(B(l)) < Cardinality(B(m))
    <2>1. B(l) \in SUBSET B(m) /\ l \in B(m) /\ l \notin B(l)
        BY <1>2, BeforeFacts DEF KeySet
    <2> HIDE DEF B
    <2> QED
        BY <1>1, <2>1, FS_Subset
<1>3. Cardinality(B(k)) < Cardinality(K)
    <2>1. B(k) \in SUBSET K /\ k \notin B(k)
        BY BeforeFacts DEF KeySet
    <2>2. Cardinality(K) \in Nat /\ IsFiniteSet(K)
        BY FS_CardinalityType DEF KeySet
    <2> HIDE DEF B
    <2> QED
        BY <1>1, <2>1, <2>2, FS_Subset
<1>4. ASSUME NEW l \in K, Cardinality(B(k)) = Cardinality(B(l))
      PROVE  k = l
    <2>1. ~Before(kind, k, l) /\ ~Before(kind, l, k)
        <3> HIDE DEF B
        <3> QED
            BY <1>1, <1>2, <1>4
    <2> QED
        BY <2>1, BeforeFacts DEF KeySet
<1>5. \A l : Place(kind, K, l) = Cardinality(B(l))
    BY DEF Place
<1>6. Cardinality(K) \in Nat
    BY FS_CardinalityType DEF KeySet
<1> HIDE DEF B
<1> QED
    BY <1>1, <1>2, <1>3, <1>4, <1>5, <1>6

\* Every place is taken.
LEMMA PlacesTaken ==
    ASSUME NEW kind, NEW K, KeySet(K), NEW i \in 0 .. Cardinality(K) - 1
    PROVE  \E k \in K : Place(kind, K, k) = i
<1> DEFINE n == Cardinality(K)
           f == [k \in K |-> Place(kind, K, k)]
<1>1. n \in Nat /\ IsFiniteSet(K)
    BY FS_CardinalityType DEF KeySet
<1>2. IsFiniteSet(0 .. n - 1) /\ Cardinality(0 .. n - 1) = n
    <2> HIDE DEF n
    <2> QED
        BY <1>1, FS_Interval
<1>3. f \in Injection(K, 0 .. n - 1)
    <2>1. f \in [K -> 0 .. n - 1]
        BY PlaceFacts
    <2>2. \A a, b \in K : f[a] = f[b] => a = b
        BY PlaceFacts
    <2> HIDE DEF f, n
    <2> QED
        BY <2>1, <2>2 DEF Injection, IsInjective
<1>4. f \in Surjection(K, 0 .. n - 1)
    <2> HIDE DEF f
    <2> QED
        BY <1>1, <1>2, <1>3, FS_Injection
<1>5. \E k \in K : f[k] = i
    <2> HIDE DEF f
    <2> QED
        BY <1>4 DEF Surjection
<1> QED
    BY <1>5

\* A new key moves those after it one place back.
LEMMA PlaceAfterInsert ==
    ASSUME NEW kind, NEW K, IsFiniteSet(K), NEW y, y \notin K, NEW k
    PROVE  /\ Place(kind, K, k) \in Nat
           /\ Place(kind, K \cup {y}, k) =
                 IF Before(kind, y, k) THEN Place(kind, K, k) + 1 ELSE Place(kind, K, k)
<1> DEFINE B == {j \in K : Before(kind, j, k)}
<1>1. IsFiniteSet(B) /\ Cardinality(B) \in Nat /\ y \notin B
    BY FS_Subset, FS_CardinalityType
<1>2. {j \in K \cup {y} : Before(kind, j, k)} = IF Before(kind, y, k) THEN B \cup {y} ELSE B
    OBVIOUS
<1>3. Place(kind, K, k) = Cardinality(B)
    BY DEF Place
<1>4. Place(kind, K \cup {y}, k) = Cardinality(IF Before(kind, y, k) THEN B \cup {y} ELSE B)
    BY <1>2 DEF Place
<1> HIDE DEF B
<1> QED
    BY <1>1, <1>3, <1>4, FS_AddElement

----------------------------------------------------------------------------
(* Rows that are pushed over the offset.                                   *)

\* A set that has grown by at most one element.
LEMMA AtMostOneMore ==
    ASSUME NEW S, IsFiniteSet(S), NEW T, NEW x, T \subseteq S \cup {x}
    PROVE  /\ Cardinality(T) \in Nat /\ Cardinality(S) \in Nat
           /\ Cardinality(T) <= Cardinality(S) + 1
<1>1. IsFiniteSet(S \cup {x}) /\ Cardinality(S) \in Nat
      /\ Cardinality(S \cup {x}) <= Cardinality(S) + 1
    <2>1. Cardinality(S) \in Nat
        BY FS_CardinalityType
    <2>2. /\ IsFiniteSet(S \cup {x})
          /\ Cardinality(S \cup {x}) = IF x \in S THEN Cardinality(S) ELSE Cardinality(S) + 1
        BY FS_AddElement
    <2> QED
        BY <2>1, <2>2
<1>2. IsFiniteSet(T) /\ Cardinality(T) <= Cardinality(S \cup {x})
    BY <1>1, FS_Subset
<1>3. Cardinality(T) \in Nat /\ Cardinality(S \cup {x}) \in Nat
    BY <1>1, <1>2, FS_CardinalityType
<1> QED
    BY <1>1, <1>2, <1>3

\* A part of a finite set has no more elements.
LEMMA NoneMore ==
    ASSUME NEW S, IsFiniteSet(S), NEW T, T \subseteq S
    PROVE  /\ Cardinality(T) \in Nat /\ Cardinality(S) \in Nat
           /\ Cardinality(T) <= Cardinality(S)
BY FS_Subset, FS_CardinalityType

\* There are finitely many rows that were missed or are listed again.
LEMMA PartsAreFinite ==
    ASSUME NEW kind, NEW K, IsFiniteSet(K), NEW steady, NEW ids, NEW offset
    PROVE  /\ IsFiniteSet(Missed(kind, K, steady, ids, offset))
           /\ IsFiniteSet(Again(kind, K, ids, offset))
<1>1. Missed(kind, K, steady, ids, offset) \in SUBSET K
      /\ Again(kind, K, ids, offset) \in SUBSET K
    BY DEF Missed, Again
<1> QED
    BY <1>1, FS_Subset

\* A commit makes no row missed, and pushes back over the offset at most the row just
\* before it.
LEMMA CommitPushes ==
    ASSUME NEW kind, NEW K, NEW y, KeySet(K), KeySet(K \cup {y}), y \notin K,
           NEW steady, NEW ids, y[2] \notin steady, y[2] \notin ids, NEW offset \in Nat
    PROVE  /\ Cardinality(Missed(kind, K \cup {y}, steady, ids, offset))
                 <= Cardinality(Missed(kind, K, steady, ids, offset))
           /\ Cardinality(Again(kind, K \cup {y}, ids, offset))
                 <= Cardinality(Again(kind, K, ids, offset)) + 1
<1> DEFINE L == K \cup {y}
<1>1. ASSUME NEW k \in K
      PROVE  /\ Place(kind, K, k) \in Nat
             /\ Place(kind, L, k) \in {Place(kind, K, k), Place(kind, K, k) + 1}
    BY PlaceAfterInsert DEF KeySet
<1>2. Missed(kind, L, steady, ids, offset) \subseteq Missed(kind, K, steady, ids, offset)
    <2> SUFFICES ASSUME NEW k \in Missed(kind, L, steady, ids, offset)
                 PROVE  k \in Missed(kind, K, steady, ids, offset)
        OBVIOUS
    <2>1. k \in K /\ k[2] \in steady \ ids /\ Place(kind, L, k) < offset
        BY DEF Missed
    <2> HIDE DEF L
    <2> QED
        BY <1>1, <2>1 DEF Missed
<1>3. \E x : Again(kind, L, ids, offset) \subseteq Again(kind, K, ids, offset) \cup {x}
    <2>1. ASSUME NEW k \in Again(kind, L, ids, offset), k \notin Again(kind, K, ids, offset)
          PROVE  k \in K /\ Place(kind, K, k) = offset - 1
        <3>1. k \in K /\ k[2] \in ids /\ offset <= Place(kind, L, k)
            BY DEF Again
        <3>2. ~(offset <= Place(kind, K, k))
            BY <2>1, <3>1 DEF Again
        <3> HIDE DEF L
        <3> QED
            BY <1>1, <3>1, <3>2
    <2>2. \A j, k \in K : Place(kind, K, j) = Place(kind, K, k) => j = k
        BY PlaceFacts
    <2> HIDE DEF L
    <2> QED
        BY <2>1, <2>2
<1>4. IsFiniteSet(K)
    BY DEF KeySet
<1> HIDE DEF L
<1>5. /\ Cardinality(Missed(kind, L, steady, ids, offset))
            <= Cardinality(Missed(kind, K, steady, ids, offset))
    BY <1>2, <1>4, PartsAreFinite, NoneMore
<1>6. Cardinality(Again(kind, L, ids, offset)) <= Cardinality(Again(kind, K, ids, offset)) + 1
    BY <1>3, <1>4, PartsAreFinite, AtMostOneMore
<1> QED
    BY <1>5, <1>6 DEF L

\* A deletion makes no row repeated, and pulls over the offset at most the row just after it.
LEMMA DeletionPulls ==
    ASSUME NEW kind, NEW K, NEW y \in K, KeySet(K), NEW steady, NEW ids, NEW offset \in Nat
    PROVE  /\ Cardinality(Missed(kind, K \ {y}, steady \ {y[2]}, ids, offset))
                 <= Cardinality(Missed(kind, K, steady, ids, offset)) + 1
           /\ Cardinality(Again(kind, K \ {y}, ids, offset))
                 <= Cardinality(Again(kind, K, ids, offset))
<1> DEFINE L == K \ {y}
           less == steady \ {y[2]}
<1>1. KeySet(L) /\ L \cup {y} = K /\ y \notin L /\ IsFiniteSet(L) /\ IsFiniteSet(K)
    BY FS_RemoveElement DEF KeySet
<1>2. ASSUME NEW k \in L
      PROVE  /\ Place(kind, L, k) \in Nat
             /\ Place(kind, K, k) \in {Place(kind, L, k), Place(kind, L, k) + 1}
    <2> HIDE DEF L
    <2> QED
        BY <1>1, PlaceAfterInsert
<1>3. Again(kind, L, ids, offset) \subseteq Again(kind, K, ids, offset)
    <2> SUFFICES ASSUME NEW k \in Again(kind, L, ids, offset)
                 PROVE  k \in Again(kind, K, ids, offset)
        OBVIOUS
    <2>1. k \in L /\ k \in K /\ k[2] \in ids /\ offset <= Place(kind, L, k)
        BY DEF Again
    <2> HIDE DEF L
    <2> QED
        BY <1>2, <2>1 DEF Again
<1>4. \E x : Missed(kind, L, less, ids, offset) \subseteq Missed(kind, K, steady, ids, offset) \cup {x}
    <2>1. ASSUME NEW k \in Missed(kind, L, less, ids, offset),
                 k \notin Missed(kind, K, steady, ids, offset)
          PROVE  k \in K /\ Place(kind, K, k) = offset
        <3>1. k \in L /\ k \in K /\ k[2] \in steady \ ids /\ Place(kind, L, k) < offset
            BY DEF Missed
        <3>2. ~(Place(kind, K, k) < offset)
            BY <2>1, <3>1 DEF Missed
        <3> HIDE DEF L
        <3> QED
            BY <1>2, <3>1, <3>2
    <2>2. \A j, k \in K : Place(kind, K, j) = Place(kind, K, k) => j = k
        BY PlaceFacts
    <2> HIDE DEF L, less
    <2> QED
        BY <2>1, <2>2
<1> HIDE DEF L, less
<1>5. Cardinality(Again(kind, L, ids, offset)) <= Cardinality(Again(kind, K, ids, offset))
    BY <1>1, <1>3, PartsAreFinite, NoneMore
<1>6. Cardinality(Missed(kind, L, less, ids, offset))
         <= Cardinality(Missed(kind, K, steady, ids, offset)) + 1
    BY <1>1, <1>4, PartsAreFinite, AtMostOneMore
<1> QED
    BY <1>5, <1>6 DEF L, less

\* There are as many ids as keys.
LEMMA IdsCount ==
    ASSUME NEW K, KeySet(K), NEW P, P \subseteq K
    PROVE  /\ IsFiniteSet(P) /\ IsFiniteSet(IdsIn(P))
           /\ Cardinality(IdsIn(P)) = Cardinality(P) /\ Cardinality(P) \in Nat
<1> DEFINE f == [k \in P |-> k[2]]
<1>1. IsFiniteSet(P) /\ Cardinality(P) \in Nat
    BY FS_Subset, FS_CardinalityType DEF KeySet
<1>2. f \in Surjection(P, IdsIn(P))
    BY DEF Surjection, IdsIn
<1>3. \A a, b \in P : f[a] = f[b] => a = b
    BY DEF KeySet
<1>4. f \in Injection(P, IdsIn(P))
    <2>1. f \in [P -> IdsIn(P)]
        BY DEF IdsIn
    <2> HIDE DEF f
    <2> QED
        BY <1>3, <2>1 DEF Injection, IsInjective
<1> HIDE DEF f
<1> QED
    BY <1>1, <1>2, <1>4, FS_Surjection

\* The keys on the page at an offset.
OnPage(kind, K, offset) ==
    {k \in K : offset <= Place(kind, K, k) /\ Place(kind, K, k) < offset + Limit}

\* A page shows the rows it passes, and repeats only rows that were over the offset.
LEMMA PageReads ==
    ASSUME NEW kind, NEW K, KeySet(K), NEW steady, NEW ids, IsFiniteSet(ids),
           NEW offset \in Nat, NEW P, P = OnPage(kind, K, offset),
           NEW more, more = ids \cup IdsIn(P)
    PROVE  /\ Cardinality(Missed(kind, K, steady, more, offset + Limit))
                 <= Cardinality(Missed(kind, K, steady, ids, offset))
           /\ Cardinality(P) + Cardinality(Again(kind, K, more, offset + Limit))
                 + Cardinality(ids)
              <= Cardinality(Again(kind, K, ids, offset)) + Cardinality(more)
<1> DEFINE N == Again(kind, K, more, offset + Limit)
           A == Again(kind, K, ids, offset)
           R == {k \in P : k[2] \in ids}
<1>0. Limit \in Nat \ {0} /\ IsFiniteSet(K)
    BY ListingsAssumption DEF KeySet
<1>1. /\ P \subseteq K /\ R \subseteq K
      /\ \A k \in K : Place(kind, K, k) \in Nat
      /\ \A k \in K : k \in P <=>
            offset <= Place(kind, K, k) /\ Place(kind, K, k) < offset + Limit
      /\ \A k \in K : k[2] \in IdsIn(P) => k \in P
    <2>1. P \subseteq K
        BY DEF OnPage
    <2>2. \A k \in K : Place(kind, K, k) \in Nat
        BY PlaceFacts
    <2>3. \A k \in K : k \in P <=>
             offset <= Place(kind, K, k) /\ Place(kind, K, k) < offset + Limit
        BY DEF OnPage
    <2>4. \A k \in K : k[2] \in IdsIn(P) => k \in P
        BY <2>1 DEF IdsIn, KeySet
    <2> QED
        BY <2>1, <2>2, <2>3, <2>4
<1>2. Missed(kind, K, steady, more, offset + Limit) \subseteq Missed(kind, K, steady, ids, offset)
    <2> SUFFICES ASSUME NEW k \in Missed(kind, K, steady, more, offset + Limit)
                 PROVE  k \in Missed(kind, K, steady, ids, offset)
        OBVIOUS
    <2>1. /\ k \in K /\ k[2] \in steady /\ k[2] \notin ids /\ k[2] \notin IdsIn(P)
          /\ Place(kind, K, k) < offset + Limit
        BY DEF Missed
    <2>2. k \notin P
        BY <2>1 DEF IdsIn
    <2> QED
        BY <1>0, <1>1, <2>1, <2>2 DEF Missed
<1>3. R \cap N = {} /\ R \cup N \subseteq A
    <2>1. ASSUME NEW k \in N
          PROVE  k \in A /\ k \notin R
        <3>1. k \in K /\ offset + Limit <= Place(kind, K, k) /\ k[2] \in ids \cup IdsIn(P)
            BY DEF Again
        <3>2. k \notin P
            BY <1>0, <1>1, <3>1
        <3>3. k[2] \in ids /\ offset <= Place(kind, K, k)
            BY <1>0, <1>1, <3>1, <3>2
        <3> QED
            BY <3>1, <3>2, <3>3 DEF Again
    <2>2. ASSUME NEW k \in R
          PROVE  k \in A
        BY <1>1 DEF Again
    <2> HIDE DEF A, N, R
    <2> QED
        BY <2>1, <2>2
<1>4. IsFiniteSet(N) /\ IsFiniteSet(A)
    BY <1>0, PartsAreFinite
<1>5. IsFiniteSet(R) /\ Cardinality(R) = Cardinality(IdsIn(R)) /\ Cardinality(R) \in Nat
    <2> HIDE DEF R
    <2> QED
        BY <1>1, IdsCount
<1>6. /\ IsFiniteSet(IdsIn(P)) /\ Cardinality(IdsIn(P)) = Cardinality(P)
      /\ Cardinality(P) \in Nat
    BY <1>1, IdsCount
<1>7. IdsIn(R) = ids \cap IdsIn(P)
    BY DEF IdsIn
<1>8. Cardinality(Missed(kind, K, steady, more, offset + Limit))
         <= Cardinality(Missed(kind, K, steady, ids, offset))
    BY <1>0, <1>2, PartsAreFinite, NoneMore
<1> HIDE DEF N, A, R
<1>9. /\ Cardinality(N) \in Nat /\ Cardinality(A) \in Nat /\ Cardinality(ids) \in Nat
      /\ Cardinality(more) \in Nat
    <2>1. IsFiniteSet(more)
        BY <1>6, FS_Union
    <2> QED
        BY <1>4, <2>1, FS_CardinalityType
<1>10. Cardinality(R) + Cardinality(N) <= Cardinality(A)
    <2>1. IsFiniteSet(R \cup N) /\ Cardinality(R \cup N) = Cardinality(R) + Cardinality(N) - 0
        BY <1>3, <1>4, <1>5, FS_Union, FS_EmptySet
    <2>2. Cardinality(R \cup N) <= Cardinality(A)
        BY <1>3, <1>4, NoneMore
    <2> QED
        BY <1>5, <1>9, <2>1, <2>2
<1>11. Cardinality(more) = Cardinality(ids) + Cardinality(P) - Cardinality(R)
    BY <1>5, <1>6, <1>7, FS_Union
<1>12. Cardinality(P) + Cardinality(N) + Cardinality(ids) <= Cardinality(A) + Cardinality(more)
    BY <1>5, <1>6, <1>9, <1>10, <1>11
<1> QED
    BY <1>8, <1>12 DEF N, A

----------------------------------------------------------------------------
(* What a walk has seen stays sound.                                       *)

\* A client has seen at most as many ids as it has listed.
LEMMA ListedFinite ==
    ASSUME NEW listed \in Seq(Nat)
    PROVE  /\ IsFiniteSet(IdsListed(listed)) /\ Cardinality(IdsListed(listed)) \in Nat
           /\ Cardinality(IdsListed(listed)) <= Len(listed)
<1>0. PICK n \in Nat : n = Len(listed)
    OBVIOUS
<1> DEFINE S == 1 .. n
           f == [i \in S |-> listed[i]]
<1>1. DOMAIN listed = S
    BY <1>0
<1>2. IsFiniteSet(S) /\ Cardinality(S) = n
    BY FS_Interval
<1>3. f \in Surjection(S, IdsListed(listed))
    BY <1>1 DEF Surjection, IdsListed
<1> HIDE DEF f, S
<1> QED
    BY <1>0, <1>2, <1>3, FS_Surjection, FS_CardinalityType

\* The fields of a walk.
LEMMA WalkFields ==
    ASSUME NEW wk \in Walk
    PROVE  /\ wk.kind \in Kinds /\ wk.offset \in Nat /\ wk.listed \in Seq(Nat)
           /\ wk.ended \in BOOLEAN /\ wk.steady \in SUBSET Nat
           /\ wk.inserted \in Nat /\ wk.deleted \in Nat
BY DEF Walk

\* A commit or a deletion leaves a walk a walk.
LEMMA WalkCounts ==
    ASSUME NEW wk \in Walk, NEW S
    PROVE  /\ [wk EXCEPT !.inserted = @ + 1] \in Walk
           /\ [wk EXCEPT !.deleted = @ + 1, !.steady = @ \ S] \in Walk
<1>1. [wk EXCEPT !.inserted = @ + 1] \in Walk
    BY DEF Walk
<1>2. [wk EXCEPT !.deleted = @ + 1, !.steady = @ \ S] \in Walk
    <2>1. wk.steady \ S \in SUBSET Nat /\ wk.deleted + 1 \in Nat
        BY WalkFields
    <2> QED
        BY <2>1 DEF Walk
<1> QED
    BY <1>1, <1>2

\* A page leaves a walk a walk.
LEMMA WalkAdvances ==
    ASSUME NEW wk \in Walk, NEW o \in Nat, NEW l \in Seq(Nat), NEW e \in BOOLEAN
    PROVE  [wk EXCEPT !.offset = o, !.listed = l, !.ended = e] \in Walk
BY DEF Walk

\* At the first page nothing is missed or repeated.
LEMMA SoundStart ==
    ASSUME NEW kind \in Kinds, NEW K, KeySet(K), NEW wk,
           wk = [kind |-> kind, offset |-> 0, listed |-> <<>>, ended |-> FALSE,
                 steady |-> IdsIn(K), inserted |-> 0, deleted |-> 0]
    PROVE  wk \in Walk /\ WalkSound(K, wk)
<1>1. IdsIn(K) \in SUBSET Nat
    BY DEF IdsIn, KeySet
<1>2. IdsListed(<<>>) = {}
    BY DEF IdsListed
<1>3. /\ Missed(kind, K, IdsIn(K), {}, 0) = {}
      /\ Again(kind, K, {}, 0) = {}
    <2>1. \A k \in K : Place(kind, K, k) \in Nat
        <3> HIDE DEF Kinds
        <3>1. ASSUME NEW k \in K
              PROVE  Place(kind, K, k) \in Nat
            <4>1. Place(kind, K, k) \in 0 .. Cardinality(K) - 1
                BY PlaceFacts
            <4> QED
                BY <4>1
        <3> QED
            BY <3>1
    <2>2. Again(kind, K, {}, 0) = {}
        BY DEF Again
    <2>3. \A n \in Nat : ~(n < 0)
        OBVIOUS
    <2>4. Missed(kind, K, IdsIn(K), {}, 0) = {}
        BY <2>1, <2>3 DEF Missed
    <2> QED
        BY <2>2, <2>4
<1>4. Cardinality({}) = 0
    BY FS_EmptySet
<1>5. wk \in Walk
    BY <1>1 DEF Walk
<1>6. /\ wk.kind = kind /\ wk.offset = 0 /\ wk.listed = <<>> /\ wk.ended = FALSE
      /\ wk.steady = IdsIn(K) /\ wk.inserted = 0 /\ wk.deleted = 0
    OBVIOUS
<1>7. /\ Len(wk.listed) = 0 /\ ~wk.ended
      /\ IdsListed(wk.listed) = {}
      /\ Missed(wk.kind, K, wk.steady, {}, wk.offset) = {}
      /\ Again(wk.kind, K, {}, wk.offset) = {}
    BY <1>2, <1>3, <1>6
<1> HIDE DEF Walk
<1>8. /\ Cardinality(Missed(wk.kind, K, wk.steady, IdsListed(wk.listed), wk.offset)) <= wk.deleted
      /\ Len(wk.listed) + Cardinality(Again(wk.kind, K, IdsListed(wk.listed), wk.offset))
            <= wk.inserted + Cardinality(IdsListed(wk.listed))
    <2>1. 0 <= 0 /\ 0 + 0 <= 0 + 0
        OBVIOUS
    <2>2. /\ Cardinality(Missed(wk.kind, K, wk.steady, IdsListed(wk.listed), wk.offset)) = 0
          /\ Cardinality(Again(wk.kind, K, IdsListed(wk.listed), wk.offset)) = 0
          /\ Cardinality(IdsListed(wk.listed)) = 0
        BY <1>4, <1>7, Zenon
    <2> QED
        BY <1>6, <1>7, <2>1, <2>2, Zenon
<1>9. wk.steady \subseteq IdsIn(K)
    BY <1>6
<1> QED
    BY <1>5, <1>7, <1>8, <1>9, Zenon DEF WalkSound

\* Arithmetic of SoundPage.
LEMMA NatTransitive ==
    ASSUME NEW l \in Nat, NEW m \in Nat, NEW n \in Nat, l <= m, m <= n
    PROVE  l <= n
OBVIOUS

\* Arithmetic of SoundCommit.
LEMMA OneMoreCommitted ==
    ASSUME NEW l \in Nat, NEW a \in Nat, NEW i \in Nat, NEW c \in Nat, NEW b \in Nat,
           NEW m \in Nat, NEW n \in Nat, NEW d \in Nat,
           l + a <= i + c, b <= a + 1, m <= d, n <= m
    PROVE  n <= d /\ l + b <= i + 1 + c
OBVIOUS

\* A commit adds at most the repetition that it is counted for.
LEMMA SoundCommit ==
    ASSUME NEW wk \in Walk, NEW K, NEW y, KeySet(K), KeySet(K \cup {y}), y \notin K,
           y[2] \notin wk.steady, y[2] \notin IdsListed(wk.listed), WalkSound(K, wk),
           NEW wk2, wk2 = [wk EXCEPT !.inserted = @ + 1]
    PROVE  wk2 \in Walk /\ WalkSound(K \cup {y}, wk2)
<1> DEFINE ids == IdsListed(wk.listed)
           M == Cardinality(Missed(wk.kind, K, wk.steady, ids, wk.offset))
           A == Cardinality(Again(wk.kind, K, ids, wk.offset))
           M2 == Cardinality(Missed(wk.kind, K \cup {y}, wk.steady, ids, wk.offset))
           A2 == Cardinality(Again(wk.kind, K \cup {y}, ids, wk.offset))
<1>1. /\ wk2 \in Walk /\ wk2.inserted = wk.inserted + 1
      /\ wk2.kind = wk.kind /\ wk2.offset = wk.offset /\ wk2.listed = wk.listed
      /\ wk2.ended = wk.ended /\ wk2.steady = wk.steady /\ wk2.deleted = wk.deleted
    <2>1. wk2 \in Walk
        BY WalkCounts
    <2>2. wk2.ended = wk.ended
        BY DEF Walk
    <2>3. /\ wk2.inserted = wk.inserted + 1 /\ wk2.kind = wk.kind /\ wk2.offset = wk.offset
          /\ wk2.listed = wk.listed /\ wk2.steady = wk.steady /\ wk2.deleted = wk.deleted
        BY DEF Walk
    <2> QED
        BY <2>1, <2>2, <2>3
<1>fields. /\ wk.inserted \in Nat /\ wk.deleted \in Nat /\ wk.offset \in Nat
           /\ wk.listed \in Seq(Nat) /\ wk.ended \in BOOLEAN
    BY WalkFields
<1>len. Len(wk.listed) \in Nat
    BY <1>fields
<1>2. M2 <= M /\ A2 <= A + 1
    BY <1>fields, CommitPushes
<1>3. M \in Nat /\ A \in Nat /\ M2 \in Nat /\ A2 \in Nat
    BY PartsAreFinite, FS_CardinalityType DEF KeySet
<1>4. Cardinality(ids) \in Nat
    BY <1>fields, ListedFinite
<1>5. /\ wk.steady \subseteq IdsIn(K)
      /\ ~wk.ended => M <= wk.deleted /\ Len(wk.listed) + A <= wk.inserted + Cardinality(ids)
      /\ wk.ended => /\ Cardinality(wk.steady \ ids) <= wk.deleted
                     /\ Len(wk.listed) <= wk.inserted + Cardinality(ids)
    BY DEF WalkSound
<1>6. IdsIn(K) \subseteq IdsIn(K \cup {y})
    BY DEF IdsIn
<1> HIDE DEF ids, M, A, M2, A2
<1>7. ASSUME ~wk.ended
      PROVE  M2 <= wk.deleted /\ Len(wk.listed) + A2 <= wk.inserted + 1 + Cardinality(ids)
    <2>1. M <= wk.deleted /\ Len(wk.listed) + A <= wk.inserted + Cardinality(ids)
        BY <1>5, <1>7, Zenon
    <2>2. PICK l, i, d, c \in Nat : l = Len(wk.listed) /\ i = wk.inserted /\ d = wk.deleted
                                    /\ c = Cardinality(ids)
        BY <1>fields, <1>len, <1>4, Zenon
    <2>3. M <= d /\ l + A <= i + c
        BY <2>1, <2>2, Zenon
    <2>4. M2 <= d /\ l + A2 <= i + 1 + c
        BY <1>2, <1>3, <2>3, OneMoreCommitted, ZenonT(60)
    <2> QED
        BY <2>2, <2>4, Zenon
<1>8. wk.ended => Len(wk.listed) <= wk.inserted + 1 + Cardinality(ids)
    BY <1>fields, <1>len, <1>4, <1>5
<1> QED
    BY <1>1, <1>5, <1>6, <1>7, <1>8 DEF WalkSound, ids, M2, A2

\* A deletion adds at most the miss that it is counted for.
LEMMA SoundDeletion ==
    ASSUME NEW wk \in Walk, NEW K, NEW y \in K, KeySet(K), WalkSound(K, wk),
           NEW wk2, wk2 = [wk EXCEPT !.deleted = @ + 1, !.steady = @ \ {y[2]}]
    PROVE  wk2 \in Walk /\ WalkSound(K \ {y}, wk2)
<1> DEFINE ids == IdsListed(wk.listed)
           less == wk.steady \ {y[2]}
           M == Cardinality(Missed(wk.kind, K, wk.steady, ids, wk.offset))
           A == Cardinality(Again(wk.kind, K, ids, wk.offset))
           M2 == Cardinality(Missed(wk.kind, K \ {y}, less, ids, wk.offset))
           A2 == Cardinality(Again(wk.kind, K \ {y}, ids, wk.offset))
<1>1. /\ wk2 \in Walk /\ wk2.deleted = wk.deleted + 1 /\ wk2.steady = less
      /\ wk2.kind = wk.kind /\ wk2.offset = wk.offset /\ wk2.listed = wk.listed
      /\ wk2.ended = wk.ended /\ wk2.inserted = wk.inserted
    <2>1. wk2 \in Walk
        BY WalkCounts
    <2>2. wk2.ended = wk.ended
        BY DEF Walk
    <2>3. /\ wk2.deleted = wk.deleted + 1 /\ wk2.steady = less
          /\ wk2.kind = wk.kind /\ wk2.offset = wk.offset
          /\ wk2.listed = wk.listed /\ wk2.inserted = wk.inserted
        BY DEF Walk
    <2> QED
        BY <2>1, <2>2, <2>3
<1>fields. /\ wk.inserted \in Nat /\ wk.deleted \in Nat /\ wk.offset \in Nat
           /\ wk.listed \in Seq(Nat) /\ wk.ended \in BOOLEAN
    BY WalkFields
<1>len. Len(wk.listed) \in Nat
    BY <1>fields
<1>2. M2 <= M + 1 /\ A2 <= A
    BY <1>fields, DeletionPulls
<1>3. M \in Nat /\ A \in Nat /\ M2 \in Nat /\ A2 \in Nat
    BY PartsAreFinite, FS_CardinalityType, FS_RemoveElement DEF KeySet
<1>4. Cardinality(ids) \in Nat
    BY <1>fields, ListedFinite
<1>5. /\ wk.steady \subseteq IdsIn(K)
      /\ ~wk.ended => M <= wk.deleted /\ Len(wk.listed) + A <= wk.inserted + Cardinality(ids)
      /\ wk.ended => /\ Cardinality(wk.steady \ ids) <= wk.deleted
                     /\ Len(wk.listed) <= wk.inserted + Cardinality(ids)
    BY DEF WalkSound
<1>6. less \subseteq IdsIn(K \ {y})
    BY <1>5 DEF IdsIn
<1>7. Cardinality(less \ ids) <= Cardinality(wk.steady \ ids)
      /\ Cardinality(less \ ids) \in Nat /\ Cardinality(wk.steady \ ids) \in Nat
    <2>1. IsFiniteSet(IdsIn(K))
        BY IdsCount
    <2>2. IsFiniteSet(wk.steady \ ids)
        BY <1>5, <2>1, FS_Subset
    <2> QED
        BY <2>2, NoneMore
<1> HIDE DEF ids, less, M, A, M2, A2
<1>8. ASSUME ~wk.ended
      PROVE  M2 <= wk.deleted + 1 /\ Len(wk.listed) + A2 <= wk.inserted + Cardinality(ids)
    <2>1. M <= wk.deleted /\ Len(wk.listed) + A <= wk.inserted + Cardinality(ids)
        BY <1>5, <1>8, Zenon
    <2> QED
        BY <1>fields, <1>len, <1>2, <1>3, <1>4, <2>1
<1>9. wk.ended => Cardinality(less \ ids) <= wk.deleted + 1
    BY <1>fields, <1>5, <1>7
<1> QED
    BY <1>1, <1>5, <1>6, <1>8, <1>9 DEF WalkSound, ids, M2, A2

\* The ids on the page at an offset, each once; a page that is not full is the last.
IsPage(kind, K, offset, ids) ==
    LET P == OnPage(kind, K, offset) IN
    /\ ids \in Seq(Nat)
    /\ Len(ids) = Cardinality(P)
    /\ IdsListed(ids) = IdsIn(P)
    /\ Len(ids) < Limit => \A k \in K : Place(kind, K, k) < offset + Limit

\* What a client has seen after a page is what it had seen and what is on the page.
LEMMA ListedMore ==
    ASSUME NEW s \in Seq(Nat), NEW t \in Seq(Nat)
    PROVE  /\ s \o t \in Seq(Nat) /\ Len(s \o t) = Len(s) + Len(t)
           /\ IdsListed(s \o t) = IdsListed(s) \cup IdsListed(t)
<1>1. s \o t \in Seq(Nat) /\ Len(s \o t) = Len(s) + Len(t)
    OBVIOUS
<1>2. PICK m, n \in Nat : m = Len(s) /\ n = Len(t)
    OBVIOUS
<1>3. /\ DOMAIN s = 1 .. m /\ DOMAIN t = 1 .. n /\ DOMAIN (s \o t) = 1 .. m + n
      /\ \A i \in 1 .. m + n : (s \o t)[i] = IF i <= m THEN s[i] ELSE t[i - m]
    BY <1>1, <1>2
<1>4. PICK u : u = s \o t
    OBVIOUS
<1>5. /\ IdsListed(s) = {s[i] : i \in 1 .. m} /\ IdsListed(t) = {t[i] : i \in 1 .. n}
      /\ IdsListed(u) = {u[i] : i \in 1 .. m + n}
    BY <1>3, <1>4 DEF IdsListed
<1>6. \A i \in 1 .. m + n : u[i] = IF i <= m THEN s[i] ELSE t[i - m]
    BY <1>3, <1>4
<1>7. \A x : x \in IdsListed(u) => x \in IdsListed(s) \cup IdsListed(t)
    BY <1>5, <1>6
<1>8. \A x : x \in IdsListed(s) => x \in IdsListed(u)
    BY <1>5, <1>6
<1>9. \A x : x \in IdsListed(t) => x \in IdsListed(u)
    <2> SUFFICES ASSUME NEW i \in 1 .. n
                 PROVE  t[i] \in IdsListed(u)
        BY <1>5
    <2>1. m + i \in 1 .. m + n /\ ~(m + i <= m) /\ (m + i) - m = i
        OBVIOUS
    <2> QED
        BY <1>5, <1>6, <2>1
<1> QED
    BY <1>1, <1>4, <1>7, <1>8, <1>9

\* At the end of the list, the rows that were passed unseen are all that were missed.
LEMMA MissedAtEnd ==
    ASSUME NEW kind, NEW K, KeySet(K), NEW steady, steady \subseteq IdsIn(K), NEW ids,
           NEW offset, \A k \in K : Place(kind, K, k) < offset
    PROVE  Cardinality(steady \ ids) = Cardinality(Missed(kind, K, steady, ids, offset))
<1>1. IdsIn(Missed(kind, K, steady, ids, offset)) = steady \ ids
    BY DEF Missed, IdsIn
<1>2. Missed(kind, K, steady, ids, offset) \subseteq K
    BY DEF Missed
<1> QED
    BY <1>1, <1>2, IdsCount

\* Arithmetic of SoundPage.
LEMMA PageCounts ==
    ASSUME NEW l \in Nat, NEW a \in Nat, NEW i \in Nat, NEW c \in Nat, NEW p \in Nat,
           NEW b \in Nat, NEW c2 \in Nat, l + a <= i + c, p + b + c <= a + c2
    PROVE  /\ (l + p) + b <= i + c2
           /\ l + p <= i + c2
OBVIOUS

\* The client after a page.
Advanced(wk, s) ==
    [wk EXCEPT !.offset = @ + Limit, !.listed = @ \o s, !.ended = Len(s) < Limit]

\* A page shows each of its rows, and repeats one only if it was counted before.
LEMMA SoundPage ==
    ASSUME NEW wk \in Walk, ~wk.ended, NEW K, KeySet(K), WalkSound(K, wk),
           NEW s, IsPage(wk.kind, K, wk.offset, s), NEW wk2, wk2 = Advanced(wk, s)
    PROVE  /\ wk2 \in Walk /\ WalkSound(K, wk2)
           /\ wk2.kind = wk.kind /\ wk2.steady = wk.steady
           /\ IdsListed(wk2.listed) \subseteq IdsListed(wk.listed) \cup IdsIn(K)
<1> DEFINE P == OnPage(wk.kind, K, wk.offset)
           ids == IdsListed(wk.listed)
           more == ids \cup IdsIn(P)
           M == Cardinality(Missed(wk.kind, K, wk.steady, ids, wk.offset))
           A == Cardinality(Again(wk.kind, K, ids, wk.offset))
           M2 == Cardinality(Missed(wk.kind, K, wk.steady, more, wk.offset + Limit))
           A2 == Cardinality(Again(wk.kind, K, more, wk.offset + Limit))
<1>fields. /\ wk.inserted \in Nat /\ wk.deleted \in Nat /\ wk.offset \in Nat
           /\ wk.listed \in Seq(Nat) /\ wk.ended \in BOOLEAN /\ wk.steady \in SUBSET Nat
           /\ wk.kind \in Kinds
    BY WalkFields
<1>page. /\ s \in Seq(Nat) /\ Len(s) = Cardinality(P) /\ IdsListed(s) = IdsIn(P)
         /\ Len(s) < Limit => \A k \in K : Place(wk.kind, K, k) < wk.offset + Limit
    BY DEF IsPage
<1>0. Limit \in Nat /\ wk.offset + Limit \in Nat
    BY <1>fields, ListingsAssumption
<1>1. /\ wk2.offset = wk.offset + Limit /\ wk2.listed = wk.listed \o s
      /\ wk2.kind = wk.kind /\ wk2.steady = wk.steady
      /\ wk2.inserted = wk.inserted /\ wk2.deleted = wk.deleted
    BY DEF Walk, Advanced
<1>2. wk2.ended = (Len(s) < Limit)
    BY DEF Walk, Advanced
<1>3. /\ wk.listed \o s \in Seq(Nat) /\ Len(wk.listed \o s) = Len(wk.listed) + Len(s)
      /\ IdsListed(wk.listed \o s) = more
    BY <1>fields, <1>page, ListedMore
<1>4. wk2 \in Walk
    <2>1. (Len(s) < Limit) \in BOOLEAN
        OBVIOUS
    <2>2. PICK o \in Nat, l \in Seq(Nat), e \in BOOLEAN :
             o = wk.offset + Limit /\ l = wk.listed \o s /\ e = (Len(s) < Limit)
        BY <1>0, <1>3, <2>1, Zenon
    <2>3. [wk EXCEPT !.offset = o, !.listed = l, !.ended = e] \in Walk
        BY WalkAdvances
    <2>4. wk2 = [wk EXCEPT !.offset = o, !.listed = l, !.ended = e]
        BY <2>2, Zenon DEF Advanced
    <2> QED
        BY <2>3, <2>4, Zenon
<1>5. M2 <= M /\ Cardinality(P) + A2 + Cardinality(ids) <= A + Cardinality(more)
    <2>1. IsFiniteSet(ids)
        BY <1>fields, ListedFinite
    <2> QED
        BY <1>fields, <2>1, PageReads
<1>6. M \in Nat /\ A \in Nat /\ M2 \in Nat /\ A2 \in Nat
    BY PartsAreFinite, FS_CardinalityType DEF KeySet
<1>7. Cardinality(ids) \in Nat /\ Cardinality(more) \in Nat /\ Cardinality(P) \in Nat
    <2>1. P \subseteq K
        BY DEF OnPage
    <2>2. Cardinality(P) \in Nat
        BY <2>1, IdsCount
    <2>3. Cardinality(ids) \in Nat
        BY <1>fields, ListedFinite
    <2>4. Cardinality(more) \in Nat
        BY <1>3, ListedFinite
    <2> QED
        BY <2>2, <2>3, <2>4
<1>8. wk.steady \subseteq IdsIn(K)
    BY DEF WalkSound
<1>9. M <= wk.deleted /\ Len(wk.listed) + A <= wk.inserted + Cardinality(ids)
    BY Zenon DEF WalkSound
<1>10. more \subseteq ids \cup IdsIn(K)
    BY DEF IdsIn, OnPage
<1>11. ASSUME Len(s) < Limit
       PROVE  Cardinality(wk.steady \ more) = M2
    <2>1. \A k \in K : Place(wk.kind, K, k) < wk.offset + Limit
        BY <1>page, <1>11
    <2> QED
        BY <1>8, <2>1, MissedAtEnd
<1> HIDE DEF P, ids, more, M, A, M2, A2
<1>12. /\ M2 <= wk.deleted
       /\ Len(wk2.listed) + A2 <= wk2.inserted + Cardinality(more)
       /\ Len(wk2.listed) <= wk2.inserted + Cardinality(more)
    <2>0. Len(wk.listed) \in Nat
        BY <1>fields
    <2>1. PICK l, i, d, p \in Nat : l = Len(wk.listed) /\ i = wk.inserted /\ d = wk.deleted
                                    /\ p = Cardinality(P)
        BY <1>fields, <1>7, <2>0, Zenon
    <2>2. /\ Len(wk2.listed) = l + p /\ wk2.inserted = i
        BY <1>1, <1>3, <1>page, <2>1, Zenon
    <2>3. M <= d /\ l + A <= i + Cardinality(ids)
        BY <1>9, <2>1, Zenon
    <2>4. p + A2 + Cardinality(ids) <= A + Cardinality(more)
        BY <1>5, <2>1, Zenon
    <2>5. (l + p) + A2 <= i + Cardinality(more) /\ l + p <= i + Cardinality(more)
        BY <1>6, <1>7, <2>3, <2>4, PageCounts, ZenonT(60)
    <2>6. M2 <= d
        BY <1>5, <1>6, <2>3, NatTransitive, ZenonT(60)
    <2> QED
        BY <2>1, <2>2, <2>5, <2>6, Zenon
<1>13. WalkSound(K, wk2)
    <2>1. IdsListed(wk2.listed) = more
        BY <1>1, <1>3, Zenon
    <2>2. /\ Missed(wk2.kind, K, wk2.steady, more, wk2.offset)
                = Missed(wk.kind, K, wk.steady, more, wk.offset + Limit)
          /\ Again(wk2.kind, K, more, wk2.offset) = Again(wk.kind, K, more, wk.offset + Limit)
        BY <1>1, Zenon
    <2>3. /\ Cardinality(Missed(wk2.kind, K, wk2.steady, more, wk2.offset)) <= wk2.deleted
          /\ Len(wk2.listed) + Cardinality(Again(wk2.kind, K, more, wk2.offset))
                <= wk2.inserted + Cardinality(more)
        BY <1>1, <1>12, <2>2, Zenon DEF M2, A2
    <2>4. ASSUME wk2.ended
          PROVE  /\ Cardinality(wk2.steady \ more) <= wk2.deleted
                 /\ Len(wk2.listed) <= wk2.inserted + Cardinality(more)
        <3>1. Len(s) < Limit
            BY <1>2, <2>4, Zenon
        <3> QED
            BY <1>1, <1>11, <1>12, <3>1, Zenon
    <2>5. wk2.steady \subseteq IdsIn(K)
        BY <1>1, <1>8, Zenon
    <2> QED
        BY <2>1, <2>3, <2>4, <2>5, Zenon DEF WalkSound
<1> QED
    BY <1>1, <1>3, <1>4, <1>10, <1>13, Zenon DEF ids

----------------------------------------------------------------------------
(* The lists have every row at its place, a page the rows of its places.   *)

\* A row is known by its key.
LEMMA KeyFacts ==
    ASSUME NEW T, RowSet(T)
    PROVE  /\ \A x \in T : Key(x) \in Nat \X Nat /\ Key(x)[1] = x.created_at /\ Key(x)[2] = x.id
           /\ \A x, y \in T : Key(x) = Key(y) => x = y
           /\ \A k \in KeysOf(T) : \E x \in T : k = Key(x)
           /\ \A x \in T : Key(x) \in KeysOf(T)
BY DEF RowSet, Key, KeysOf

\* There are as many keys as rows.
LEMMA KeysCount ==
    ASSUME NEW T, RowSet(T), NEW S, S \subseteq T
    PROVE  /\ IsFiniteSet(KeysOf(S)) /\ Cardinality(KeysOf(S)) = Cardinality(S)
           /\ Cardinality(S) \in Nat
<1> DEFINE f == [x \in S |-> Key(x)]
<1>1. IsFiniteSet(S) /\ Cardinality(S) \in Nat
    BY FS_Subset, FS_CardinalityType DEF RowSet
<1>2. f \in Surjection(S, KeysOf(S))
    BY DEF Surjection, KeysOf
<1>3. \A a, b \in S : f[a] = f[b] => a = b
    BY KeyFacts
<1>4. f \in Injection(S, KeysOf(S))
    <2>1. f \in [S -> KeysOf(S)]
        BY DEF KeysOf
    <2> HIDE DEF f
    <2> QED
        BY <1>3, <2>1 DEF Injection, IsInjective
<1> HIDE DEF f
<1> QED
    BY <1>1, <1>2, <1>4, FS_Surjection

\* The keys of a table.
LEMMA KeysAreKeys ==
    ASSUME NEW T, RowSet(T)
    PROVE  KeySet(KeysOf(T))
<1>1. IsFiniteSet(KeysOf(T))
    BY KeysCount
<1>2. KeysOf(T) \subseteq Nat \X Nat
    BY KeyFacts
<1>3. ASSUME NEW j \in KeysOf(T), NEW k \in KeysOf(T), j[2] = k[2]
      PROVE  j = k
    <2>1. PICK x \in T, y \in T : j = Key(x) /\ k = Key(y)
        BY KeyFacts
    <2>2. x.id = y.id
        BY <1>3, <2>1, KeyFacts
    <2>3. x = y
        BY <2>2 DEF RowSet
    <2> QED
        BY <2>1, <2>3
<1> QED
    BY <1>1, <1>2, <1>3 DEF KeySet

\* The rows before a row are counted by their keys.
LEMMA RowPlace ==
    ASSUME NEW T, RowSet(T), NEW kind, kind # "analyses", NEW x \in T
    PROVE  Cardinality({y \in T : Earlier(y, x)}) = Place(kind, KeysOf(T), Key(x))
<1> DEFINE S == {y \in T : Earlier(y, x)}
<1>1. \A y \in T : Earlier(y, x) <=> Before(kind, Key(y), Key(x))
    BY KeyFacts DEF Earlier, Before, Less
<1>2. KeysOf(S) = {j \in KeysOf(T) : Before(kind, j, Key(x))}
    BY <1>1 DEF KeysOf
<1>3. Cardinality(KeysOf(S)) = Cardinality(S)
    BY KeysCount
<1> QED
    BY <1>2, <1>3 DEF Place

\* Newest first, a row has before it what oldest first is after it.
LEMMA PlaceReversed ==
    ASSUME NEW K, KeySet(K), NEW k \in K
    PROVE  Place("analyses", K, k) = Cardinality(K) - 1 - Place("datasets", K, k)
<1> DEFINE L == {j \in K : Less(j, k)}
           G == {j \in K : Less(k, j)}
<1>1. /\ L \cap G = {} /\ k \notin L \cup G /\ (L \cup G) \cup {k} = K
    BY DEF KeySet, Less
<1>2. IsFiniteSet(L) /\ IsFiniteSet(G)
    BY FS_Subset DEF KeySet
<1>3. Place("analyses", K, k) = Cardinality(G) /\ Place("datasets", K, k) = Cardinality(L)
    BY DEF Place, Before
<1> HIDE DEF L, G
<1>4. Cardinality(L) \in Nat /\ Cardinality(G) \in Nat
    BY <1>2, FS_CardinalityType
<1>5. IsFiniteSet(L \cup G) /\ Cardinality(L \cup G) = Cardinality(L) + Cardinality(G)
    <2>1. Cardinality(L \cup G) = Cardinality(L) + Cardinality(G) - Cardinality({})
        BY <1>1, <1>2, FS_Union
    <2>2. Cardinality({}) = 0
        BY FS_EmptySet
    <2>3. IsFiniteSet(L \cup G)
        BY <1>2, FS_Union
    <2>4. PICK a, b \in Nat : a = Cardinality(L) /\ b = Cardinality(G)
        BY <1>4
    <2>5. a + b - 0 = a + b
        OBVIOUS
    <2> QED
        BY <2>1, <2>2, <2>3, <2>4, <2>5, Zenon
<1>6. Cardinality(K) = Cardinality(L \cup G) + 1
    BY <1>1, <1>5, FS_AddElement
<1> QED
    BY <1>3, <1>4, <1>5, <1>6

\* A list: the row at i has i - 1 rows before it.
IsList(kind, T, q) ==
    /\ q \in Seq(T)
    /\ Len(q) = Cardinality(T)
    /\ \A i \in 1 .. Len(q) : q[i] \in T /\ Place(kind, KeysOf(T), Key(q[i])) = i - 1

\* ORDER BY created_at, id has every row at its place.
LEMMA OldestFirstIsList ==
    ASSUME NEW T, RowSet(T), NEW kind, kind # "analyses"
    PROVE  IsList(kind, T, OldestFirst(T))
<1>0. PICK n \in Nat : n = Cardinality(T)
    BY KeysCount
<1>1. ASSUME NEW i \in 1 .. n
      PROVE  /\ OldestFirst(T)[i] \in T
             /\ Place(kind, KeysOf(T), Key(OldestFirst(T)[i])) = i - 1
    <2>1. \E k \in KeysOf(T) : Place(kind, KeysOf(T), k) = i - 1
        <3>1. Cardinality(KeysOf(T)) = n
            BY <1>0, KeysCount
        <3>2. i - 1 \in 0 .. n - 1
            OBVIOUS
        <3> QED
            BY <3>1, <3>2, KeysAreKeys, PlacesTaken
    <2>2. \E x \in T : Cardinality({y \in T : Earlier(y, x)}) = i - 1
        BY <2>1, KeyFacts, RowPlace
    <2>3. OldestFirst(T)[i] = CHOOSE x \in T : Cardinality({y \in T : Earlier(y, x)}) = i - 1
        BY <1>0 DEF OldestFirst
    <2>4. /\ OldestFirst(T)[i] \in T
          /\ Cardinality({y \in T : Earlier(y, OldestFirst(T)[i])}) = i - 1
        BY <2>2, <2>3
    <2> QED
        BY <2>4, RowPlace
<1>2. OldestFirst(T) \in [1 .. n -> T]
    <2> DEFINE At(i) == CHOOSE x \in T : Cardinality({y \in T : Earlier(y, x)}) = i - 1
    <2>1. OldestFirst(T) = [i \in 1 .. n |-> At(i)]
        BY <1>0, Zenon DEF OldestFirst
    <2> HIDE DEF At
    <2> QED
        BY <1>1, <2>1
<1>3. OldestFirst(T) \in Seq(T) /\ Len(OldestFirst(T)) = n
    BY <1>2
<1> QED
    BY <1>0, <1>1, <1>3 DEF IsList

\* ORDER BY created_at DESC, id DESC has every row at its place.
LEMMA NewestFirstIsList ==
    ASSUME NEW T, RowSet(T)
    PROVE  IsList("analyses", T, NewestFirst(T))
<1>0. PICK n \in Nat : n = Cardinality(T)
    BY KeysCount
<1>1. PICK q : q = OldestFirst(T)
    OBVIOUS
<1>2. /\ q \in Seq(T) /\ Len(q) = n
      /\ \A i \in 1 .. n : q[i] \in T /\ Place("datasets", KeysOf(T), Key(q[i])) = i - 1
    <2>1. "datasets" # "analyses"
        OBVIOUS
    <2>2. IsList("datasets", T, q)
        BY <1>1, <2>1, OldestFirstIsList, Zenon
    <2> QED
        BY <1>0, <2>2 DEF IsList
<1>3. PICK r : r = NewestFirst(T)
    OBVIOUS
<1>4. r = [i \in 1 .. n |-> q[(n - i) + 1]]
    BY <1>1, <1>2, <1>3 DEF NewestFirst, Reverse
<1>5. \A i \in 1 .. n : (n - i) + 1 \in 1 .. n
    OBVIOUS
<1>6. r \in [1 .. n -> T]
    BY <1>2, <1>4, <1>5
<1>7. r \in Seq(T) /\ Len(r) = n
    BY <1>6
<1>8. ASSUME NEW i \in 1 .. n
      PROVE  r[i] \in T /\ Place("analyses", KeysOf(T), Key(r[i])) = i - 1
    <2>1. PICK m \in 1 .. n : m = (n - i) + 1
        BY <1>5
    <2>2. r[i] = q[m] /\ q[m] \in T /\ Place("datasets", KeysOf(T), Key(q[m])) = m - 1
        BY <1>2, <1>4, <2>1
    <2>3. Key(q[m]) \in KeysOf(T) /\ Cardinality(KeysOf(T)) = n /\ KeySet(KeysOf(T))
        BY <1>0, <2>2, KeyFacts, KeysCount, KeysAreKeys
    <2>4. Place("analyses", KeysOf(T), Key(q[m])) = n - 1 - (m - 1)
        BY <2>2, <2>3, PlaceReversed
    <2>5. n - 1 - (m - 1) = i - 1
        BY <2>1
    <2> QED
        BY <2>2, <2>4, <2>5
<1> QED
    BY <1>0, <1>3, <1>7, <1>8 DEF IsList

\* What LIMIT and OFFSET take of a list: m rows.
Shows(T, q, offset, page, m) ==
    /\ page \in [1 .. m -> T] /\ Len(page) = m
    /\ \A i \in 1 .. m : offset + i <= Len(q) /\ page[i] = q[offset + i]
    /\ m <= Limit
    /\ \A i \in 1 .. Len(q) : offset < i /\ i <= offset + Limit => i - offset \in 1 .. m
    /\ m < Limit => Len(q) <= offset + m \/ Len(q) <= offset

\* LIMIT and OFFSET show the rows after the offset, as many as there are up to the limit.
LEMMA PageRows ==
    ASSUME NEW T, NEW q \in Seq(T), NEW offset \in Nat, NEW page, page = Page(q, offset)
    PROVE  \E m \in Nat : Shows(T, q, offset, page, m)
<1>0. Limit \in Nat
    BY ListingsAssumption
<1>1. PICK n \in Nat : n = Len(q)
    OBVIOUS
<1>2. PICK e \in Nat : e = IF offset + Limit < n THEN offset + Limit ELSE n
    BY <1>0
<1>3. page = SubSeq(q, offset + 1, e)
    BY <1>1, <1>2 DEF Page
<1>4. CASE offset < e
    <2>1. PICK m \in Nat : m = e - offset
        BY <1>4
    <2>2. offset + 1 \in 1 .. Len(q) + 1 /\ e \in (offset + 1) - 1 .. Len(q)
        BY <1>0, <1>1, <1>2, <1>4
    <2>3. /\ SubSeq(q, offset + 1, e) \in Seq(T) /\ Len(SubSeq(q, offset + 1, e)) = m
          /\ \A i \in 1 .. m : SubSeq(q, offset + 1, e)[i] = q[offset + i]
        BY <1>0, <1>1, <1>2, <1>4, <2>1, <2>2
    <2>4. /\ page \in Seq(T) /\ Len(page) = m
          /\ \A i \in 1 .. m : page[i] = q[offset + i]
        BY <1>3, <2>3, Zenon
    <2>5. page \in [1 .. m -> T]
        <3> HIDE <1>3
        <3> QED
            BY <2>4
    <2>6. /\ \A i \in 1 .. m : offset + i <= n
          /\ m <= Limit
          /\ \A i \in 1 .. n : offset < i /\ i <= offset + Limit => i - offset \in 1 .. m
          /\ m < Limit => n <= offset + m \/ n <= offset
        BY <1>0, <1>2, <1>4, <2>1
    <2> QED
        BY <1>1, <2>4, <2>5, <2>6, Zenon DEF Shows
<1>5. CASE ~(offset < e)
    <2>1. page = <<>>
        BY <1>0, <1>1, <1>2, <1>3, <1>5
    <2>2. page \in [1 .. 0 -> T] /\ Len(page) = 0
        BY <2>1
    <2>3. /\ \A i \in 1 .. 0 : offset + i <= n /\ page[i] = q[offset + i]
          /\ 0 <= Limit
          /\ \A i \in 1 .. n : offset < i /\ i <= offset + Limit => i - offset \in 1 .. 0
          /\ 0 < Limit => n <= offset + 0 \/ n <= offset
        BY <1>0, <1>2, <1>5
    <2>4. 0 \in Nat
        OBVIOUS
    <2> QED
        BY <1>1, <2>2, <2>3, <2>4, Zenon DEF Shows
<1> QED
    BY <1>4, <1>5

\* The page of a list has the rows of its places, and is not full only at the end.
LEMMA PageOfList ==
    ASSUME NEW kind, NEW T, RowSet(T), NEW q, IsList(kind, T, q), NEW offset \in Nat,
           NEW page, page = Page(q, offset), NEW s, s = [i \in DOMAIN page |-> page[i].id]
    PROVE  IsPage(kind, KeysOf(T), offset, s) /\ Len(s) = Len(page)
<1> DEFINE K == KeysOf(T)
           P == OnPage(kind, K, offset)
<1>0. Limit \in Nat /\ KeySet(K) /\ Cardinality(K) = Len(q)
    BY ListingsAssumption, KeysAreKeys, KeysCount DEF IsList
<1>1. PICK n \in Nat : n = Len(q)
    BY DEF IsList
<1>2. /\ q \in Seq(T)
      /\ \A i \in 1 .. n : q[i] \in T /\ Place(kind, K, Key(q[i])) = i - 1
    BY <1>1 DEF IsList
<1>3. PICK m \in Nat :
         /\ page \in [1 .. m -> T] /\ Len(page) = m
         /\ \A i \in 1 .. m : offset + i <= n /\ page[i] = q[offset + i]
         /\ m <= Limit
         /\ \A i \in 1 .. n : offset < i /\ i <= offset + Limit => i - offset \in 1 .. m
         /\ m < Limit => n <= offset + m \/ n <= offset
    <2>1. PICK m \in Nat : Shows(T, q, offset, page, m)
        BY <1>2, PageRows, Zenon
    <2> QED
        BY <1>1, <2>1, Zenon DEF Shows
<1>4. s = [i \in 1 .. m |-> page[i].id]
    BY <1>3
<1>5. s \in Seq(Nat) /\ Len(s) = m
    <2>1. \A i \in 1 .. m : page[i].id \in Nat
        BY <1>3 DEF RowSet
    <2>2. s \in [1 .. m -> Nat]
        BY <1>4, <2>1
    <2> QED
        BY <2>2
<1>6. ASSUME NEW i \in 1 .. m
      PROVE  /\ page[i] \in T /\ Key(page[i]) \in K
             /\ Place(kind, K, Key(page[i])) = offset + i - 1
             /\ Key(page[i]) \in P
             /\ s[i] = Key(page[i])[2]
    <2>1. PICK j \in 1 .. n : j = offset + i
        BY <1>3
    <2>2. page[i] = q[j] /\ q[j] \in T /\ Place(kind, K, Key(q[j])) = j - 1
        BY <1>2, <1>3, <2>1
    <2>3. Key(page[i]) \in K /\ Key(page[i])[2] = page[i].id
        BY <2>2, KeyFacts
    <2>4. offset <= j - 1 /\ j - 1 < offset + Limit /\ j - 1 = offset + i - 1
        BY <1>0, <1>3, <2>1
    <2>5. Key(page[i]) \in P
        BY <2>2, <2>3, <2>4 DEF OnPage
    <2> QED
        BY <1>4, <2>2, <2>3, <2>4, <2>5
<1>7. ASSUME NEW k \in P
      PROVE  \E i \in 1 .. m : k = Key(page[i])
    <2>1. /\ k \in K /\ offset <= Place(kind, K, k) /\ Place(kind, K, k) < offset + Limit
        BY DEF OnPage
    <2>2. PICK p \in 0 .. n - 1 : p = Place(kind, K, k)
        BY <1>0, <1>1, <2>1, PlaceFacts
    <2>3. PICK i \in 1 .. m : i = p + 1 - offset
        BY <1>0, <1>3, <2>1, <2>2
    <2>4. Key(page[i]) \in K /\ Place(kind, K, Key(page[i])) = p
        BY <1>6, <2>3
    <2> QED
        BY <1>0, <2>1, <2>2, <2>4, PlaceFacts
<1>8. Cardinality(P) = m
    <2> DEFINE f == [i \in 1 .. m |-> Key(page[i])]
    <2>1. f \in Surjection(1 .. m, P)
        BY <1>6, <1>7 DEF Surjection
    <2>2. \A a, b \in 1 .. m : f[a] = f[b] => a = b
        BY <1>6
    <2>3. f \in Injection(1 .. m, P)
        <3>1. f \in [1 .. m -> P]
            BY <1>6
        <3> HIDE DEF f, P
        <3> QED
            BY <2>2, <3>1 DEF Injection, IsInjective
    <2>4. IsFiniteSet(1 .. m) /\ Cardinality(1 .. m) = m
        BY FS_Interval
    <2> HIDE DEF f, P
    <2> QED
        BY <2>1, <2>3, <2>4, FS_Surjection
<1>9. IdsListed(s) = IdsIn(P)
    <2>1. DOMAIN s = 1 .. m
        BY <1>4
    <2>2. \A x : x \in IdsListed(s) => x \in IdsIn(P)
        BY <1>6, <2>1 DEF IdsListed, IdsIn
    <2>3. \A x : x \in IdsIn(P) => x \in IdsListed(s)
        <3> SUFFICES ASSUME NEW k \in P
                     PROVE  k[2] \in IdsListed(s)
            BY DEF IdsIn
        <3>1. PICK i \in 1 .. m : k = Key(page[i])
            BY <1>7
        <3>2. s[i] = k[2]
            BY <1>6, <3>1
        <3> QED
            BY <2>1, <3>2 DEF IdsListed
    <2> QED
        BY <2>2, <2>3
<1>10. ASSUME m < Limit, NEW k \in K
       PROVE  Place(kind, K, k) < offset + Limit
    <2>1. Place(kind, K, k) \in 0 .. n - 1
        BY <1>0, <1>1, PlaceFacts
    <2> QED
        BY <1>0, <1>3, <1>10, <2>1
<1> HIDE DEF K, P
<1>11. IsPage(kind, K, offset, s)
    BY <1>5, <1>8, <1>9, <1>10 DEF IsPage, P
<1> QED
    BY <1>3, <1>5, <1>11 DEF K

----------------------------------------------------------------------------
(* Preservation of the invariant, list by list.                            *)

\* Nothing happens to the list of this kind.
LEMMA KindKept ==
    ASSUME NEW kind, IdsInOrder(kind), WalkInOrder(kind),
           Table(kind)' = Table(kind), used'[kind] = used[kind],
           walk' = walk \/ walk'.kind # kind,
           \A v \in Writers :
              Doing(v, Maker(kind))' => Doing(v, Maker(kind)) /\ op'[v] = op[v]
    PROVE  IdsInOrder(kind)' /\ WalkInOrder(kind)'
<1>1. IdsInOrder(kind)'
    BY DEF IdsInOrder
<1>2. WalkInOrder(kind)'
    BY DEF WalkInOrder
<1> QED
    BY <1>1, <1>2

\* An id is given out that no row has and no client has seen.
LEMMA KindGiven ==
    ASSUME NEW kind, IdsInOrder(kind), WalkInOrder(kind),
           Table(kind)' = Table(kind), walk' = walk, NEW w \in Writers, NEW id,
           id \notin used[kind], used'[kind] = used[kind] \cup {id},
           op'[w].row.id = id, \A v \in Writers : v # w => op'[v] = op[v]
    PROVE  IdsInOrder(kind)' /\ WalkInOrder(kind)'
<1>1. \A v \in Writers : v # w /\ Doing(v, Maker(kind))' => Doing(v, Maker(kind))
    BY DEF Doing
<1>2. IdsInOrder(kind)'
    BY <1>1 DEF IdsInOrder
<1>3. WalkInOrder(kind)'
    BY <1>1 DEF WalkInOrder
<1> QED
    BY <1>2, <1>3

\* A row is committed.
LEMMA KindStored ==
    ASSUME NEW kind, IdsInOrder(kind), WalkInOrder(kind), walk \in Walk \cup {Null},
           NEW w \in Writers, Doing(w, Maker(kind)),
           NEW row, row = op[w].row, row.id \in Nat, row.created_at \in Nat,
           Table(kind)' = Table(kind) \cup {row}, used' = used, Inserted(kind),
           ~Doing(w, Maker(kind))', \A v \in Writers : v # w => op'[v] = op[v]
    PROVE  IdsInOrder(kind)' /\ WalkInOrder(kind)' /\ walk' \in Walk \cup {Null}
<1> DEFINE T == Table(kind)
           y == Key(row)
<1>1. \A v \in Writers : Doing(v, Maker(kind))' =>
         v # w /\ Doing(v, Maker(kind)) /\ op'[v] = op[v]
    BY DEF Doing
<1>2. /\ RowSet(T) /\ \A x \in T : x.id \in used[kind] /\ x.id # row.id
      /\ row.id \in used[kind]
    BY DEF IdsInOrder
<1>3. RowSet(T \cup {row})
    <2>1. IsFiniteSet(T \cup {row})
        BY <1>2, FS_AddElement DEF RowSet
    <2> QED
        BY <1>2, <2>1 DEF RowSet
<1>4. IdsInOrder(kind)'
    BY <1>1, <1>2, <1>3 DEF IdsInOrder
<1>5. CASE ~(walk # Null /\ walk.kind = kind)
    <2>1. walk' = walk
        BY <1>5 DEF Inserted
    <2> QED
        BY <1>4, <1>5, <2>1 DEF WalkInOrder
<1>6. CASE walk # Null /\ walk.kind = kind
    <2>1. walk \in Walk /\ walk' = [walk EXCEPT !.inserted = @ + 1]
        BY <1>6 DEF Inserted
    <2>2. /\ IdsListed(walk.listed) \cup walk.steady \subseteq used[kind]
          /\ row.id \notin IdsListed(walk.listed) \cup walk.steady
          /\ \A v \in Writers : Doing(v, Maker(kind)) =>
                op[v].row.id \notin IdsListed(walk.listed) \cup walk.steady
          /\ WalkSound(KeysOf(T), walk)
        BY <1>6 DEF WalkInOrder
    <2>3. y[2] = row.id /\ y \notin KeysOf(T) /\ KeysOf(T \cup {row}) = KeysOf(T) \cup {y}
        BY <1>2 DEF Key, KeysOf
    <2>4. KeySet(KeysOf(T)) /\ KeySet(KeysOf(T) \cup {y})
        <3>1. KeySet(KeysOf(T)) /\ KeySet(KeysOf(T \cup {row}))
            BY <1>2, <1>3, KeysAreKeys
        <3> QED
            BY <2>3, <3>1
    <2>5. walk' \in Walk /\ WalkSound(KeysOf(T) \cup {y}, walk')
        <3> HIDE DEF T, y
        <3> QED
            BY <2>1, <2>2, <2>3, <2>4, SoundCommit
    <2>6. walk'.listed = walk.listed /\ walk'.steady = walk.steady
        BY <2>1 DEF Walk
    <2>7. WalkInOrder(kind)'
        BY <1>1, <2>2, <2>3, <2>5, <2>6 DEF WalkInOrder
    <2> QED
        BY <1>4, <2>5, <2>7
<1> QED
    BY <1>5, <1>6

\* A row is deleted.
LEMMA KindDeleted ==
    ASSUME NEW kind, IdsInOrder(kind), WalkInOrder(kind), walk \in Walk \cup {Null},
           NEW row \in Table(kind), Table(kind)' = Table(kind) \ {row},
           used' = used, op' = op, Deleted(kind, row.id)
    PROVE  IdsInOrder(kind)' /\ WalkInOrder(kind)' /\ walk' \in Walk \cup {Null}
<1> DEFINE T == Table(kind)
           y == Key(row)
<1>1. \A v \in Writers : Doing(v, Maker(kind))' <=> Doing(v, Maker(kind))
    BY DEF Doing
<1>2. RowSet(T) /\ RowSet(T \ {row})
    BY FS_RemoveElement DEF IdsInOrder, RowSet
<1>3. IdsInOrder(kind)'
    BY <1>1, <1>2 DEF IdsInOrder
<1>4. CASE ~(walk # Null /\ walk.kind = kind)
    <2>1. walk' = walk
        BY <1>4 DEF Deleted
    <2> QED
        BY <1>3, <1>4, <2>1 DEF WalkInOrder
<1>5. CASE walk # Null /\ walk.kind = kind
    <2>1. walk \in Walk /\ walk' = [walk EXCEPT !.deleted = @ + 1, !.steady = @ \ {row.id}]
        BY <1>5 DEF Deleted
    <2>2. /\ IdsListed(walk.listed) \cup walk.steady \subseteq used[kind]
          /\ \A v \in Writers : Doing(v, Maker(kind)) =>
                op[v].row.id \notin IdsListed(walk.listed) \cup walk.steady
          /\ WalkSound(KeysOf(T), walk)
        BY <1>5 DEF WalkInOrder
    <2>3. y[2] = row.id /\ y \in KeysOf(T) /\ KeysOf(T \ {row}) = KeysOf(T) \ {y}
        <3>1. y[2] = row.id /\ y \in KeysOf(T)
            BY DEF Key, KeysOf
        <3>2. \A x \in T : Key(x) = y => x = row
            BY <1>2, KeyFacts
        <3>3. KeysOf(T \ {row}) = KeysOf(T) \ {y}
            <4> HIDE DEF T
            <4> QED
                BY <3>2 DEF KeysOf
        <3> QED
            BY <3>1, <3>3
    <2>4. KeySet(KeysOf(T))
        BY <1>2, KeysAreKeys
    <2>5. walk' \in Walk /\ WalkSound(KeysOf(T) \ {y}, walk')
        <3> HIDE DEF T, y
        <3> QED
            BY <2>1, <2>2, <2>3, <2>4, SoundDeletion
    <2>6. walk'.listed = walk.listed /\ walk'.steady = walk.steady \ {row.id}
        BY <2>1 DEF Walk
    <2>7. WalkInOrder(kind)'
        BY <1>1, <2>2, <2>3, <2>5, <2>6 DEF WalkInOrder
    <2> QED
        BY <1>3, <2>5, <2>7
<1> QED
    BY <1>4, <1>5

\* Rows change but not their keys.
LEMMA KindRestamped ==
    ASSUME NEW kind, IdsInOrder(kind), WalkInOrder(kind),
           RowSet(Table(kind)'), KeysOf(Table(kind)') = KeysOf(Table(kind)),
           used' = used, walk' = walk,
           \A v \in Writers :
              Doing(v, Maker(kind))' => Doing(v, Maker(kind)) /\ op'[v] = op[v]
    PROVE  IdsInOrder(kind)' /\ WalkInOrder(kind)'
<1>1. \A x \in Table(kind)' : \E z \in Table(kind) : z.id = x.id
    <2>1. RowSet(Table(kind))
        BY DEF IdsInOrder
    <2>2. PICK S, T : S = Table(kind)' /\ T = Table(kind)
        OBVIOUS
    <2>3. \A x \in S : \E z \in T : z.id = x.id
        BY <2>1, <2>2, KeyFacts
    <2> QED
        BY <2>2, <2>3
<1>2. IdsInOrder(kind)'
    BY <1>1 DEF IdsInOrder
<1>3. WalkInOrder(kind)'
    BY DEF WalkInOrder
<1> QED
    BY <1>2, <1>3

\* The rows after the transaction of an upload.
Restamped(T, id, now) == {IF d.id = id THEN Stamp(d, now) ELSE d : d \in T}

\* An upload changes neither the ids nor the dates of creation.
LEMMA StampKeepsKeys ==
    ASSUME NEW T, RowSet(T), T \subseteq DatasetRow, NEW id, NEW now \in Nat,
           NEW S, S = Restamped(T, id, now)
    PROVE  RowSet(S) /\ KeysOf(S) = KeysOf(T)
<1> DEFINE st(d) == IF d.id = id THEN Stamp(d, now) ELSE d
           f == [d \in T |-> st(d)]
<1>1. ASSUME NEW d \in T
      PROVE  st(d).id = d.id /\ st(d).created_at = d.created_at
    BY DEF Stamp, DatasetRow
<1>2. S = {st(d) : d \in T}
    BY DEF Restamped
<1>3. f \in Surjection(T, S)
    BY <1>2 DEF Surjection
<1> HIDE DEF st
<1>4. IsFiniteSet(S)
    <2> HIDE DEF f
    <2> QED
        BY <1>3, FS_Surjection DEF RowSet
<1>5. RowSet(S)
    <2>1. \A x \in S : x.id \in Nat /\ x.created_at \in Nat
        BY <1>1, <1>2 DEF RowSet
    <2>2. ASSUME NEW x \in S, NEW y \in S, x.id = y.id
          PROVE  x = y
        <3>1. PICK d \in T, e \in T : x = st(d) /\ y = st(e)
            BY <1>2
        <3>2. d.id = e.id
            BY <1>1, <2>2, <3>1
        <3>3. d = e
            BY <3>2 DEF RowSet
        <3> QED
            BY <3>1, <3>3
    <2> QED
        BY <1>4, <2>1, <2>2 DEF RowSet
<1>6. KeysOf(S) = KeysOf(T)
    <2>1. \A d \in T : Key(st(d)) = Key(d)
        BY <1>1 DEF Key
    <2> QED
        BY <1>2, <2>1 DEF KeysOf
<1> QED
    BY <1>5, <1>6

\* A client starts on the first page.
LEMMA KindStarted ==
    ASSUME NEW kind \in Kinds, IdsInOrder(kind), StartWalk(kind)
    PROVE  walk' \in Walk /\ WalkInOrder(kind)'
<1> DEFINE T == Table(kind)
<1>1. RowSet(T) /\ \A x \in T : x.id \in used[kind]
    BY DEF IdsInOrder
<1>2. IdsOf(kind) = IdsIn(KeysOf(T))
    <2>1. IdsOf(kind) = {x.id : x \in T}
        BY DEF IdsOf, Table, Kinds
    <2>2. \A x \in T : Key(x)[2] = x.id
        BY DEF Key
    <2> HIDE DEF T
    <2> QED
        BY <2>1, <2>2 DEF IdsIn, KeysOf
<1>3. walk' = [kind |-> kind, offset |-> 0, listed |-> <<>>, ended |-> FALSE,
               steady |-> IdsIn(KeysOf(T)), inserted |-> 0, deleted |-> 0]
    BY <1>2 DEF StartWalk
<1>4. walk' \in Walk /\ WalkSound(KeysOf(T), walk')
    <2>1. KeySet(KeysOf(T))
        BY <1>1, KeysAreKeys
    <2> HIDE DEF T
    <2> QED
        BY <1>3, <2>1, SoundStart
<1>5. Table(kind)' = T /\ used' = used /\ op' = op
    BY DEF StartWalk, tables, Table
<1>6. walk'.listed = <<>> /\ walk'.steady = IdsIn(KeysOf(T)) /\ IdsListed(<<>>) = {}
    BY <1>3 DEF IdsListed
<1>7. \A i \in IdsIn(KeysOf(T)) : \E x \in T : x.id = i
    BY DEF IdsIn, KeysOf, Key
<1>8. \A v \in Writers : Doing(v, Maker(kind))' <=> Doing(v, Maker(kind))
    BY <1>5 DEF Doing
<1>9. IdsListed(walk'.listed) \cup walk'.steady \subseteq used[kind]
    BY <1>1, <1>6, <1>7
<1>10. \A v \in Writers : Doing(v, Maker(kind)) =>
          op[v].row.id \notin IdsListed(walk'.listed) \cup walk'.steady
    BY <1>6, <1>7 DEF IdsInOrder
<1> HIDE DEF T
<1> QED
    BY <1>4, <1>5, <1>8, <1>9, <1>10 DEF WalkInOrder

\* A client reads the page at its offset.
LEMMA KindRead ==
    ASSUME NEW kind, IdsInOrder(kind), WalkInOrder(kind), walk \in Walk,
           walk # Null, walk.kind = kind, ~walk.ended, Table(kind)' = Table(kind),
           NEW q, IsList(kind, Table(kind), q), Advance(Page(q, walk.offset))
    PROVE  walk' \in Walk /\ walk'.kind = kind /\ WalkInOrder(kind)'
<1> DEFINE T == Table(kind)
           page == Page(q, walk.offset)
           s == [i \in DOMAIN page |-> page[i].id]
<1>1. RowSet(T) /\ \A x \in T : x.id \in used[kind]
    BY DEF IdsInOrder
<1>2. walk.offset \in Nat
    BY WalkFields
<1>3. IsPage(kind, KeysOf(T), walk.offset, s) /\ Len(s) = Len(page)
    <2> HIDE DEF T
    <2> QED
        BY <1>1, <1>2, PageOfList DEF T
<1>4. /\ walk' = Advanced(walk, s)
      /\ used' = used /\ op' = op
    BY <1>3 DEF Advance, Advanced
<1>5. /\ IdsListed(walk.listed) \cup walk.steady \subseteq used[kind]
      /\ \A v \in Writers : Doing(v, Maker(kind)) =>
            op[v].row.id \notin IdsListed(walk.listed) \cup walk.steady
      /\ WalkSound(KeysOf(T), walk)
    BY DEF WalkInOrder
<1>6. KeySet(KeysOf(T))
    BY <1>1, KeysAreKeys
<1> HIDE DEF s, page, T
<1>7. /\ walk' \in Walk /\ WalkSound(KeysOf(T), walk')
      /\ walk'.kind = kind /\ walk'.steady = walk.steady
      /\ IdsListed(walk'.listed) \subseteq IdsListed(walk.listed) \cup IdsIn(KeysOf(T))
    <2>1. IsPage(walk.kind, KeysOf(T), walk.offset, s)
        BY <1>3
    <2>2. PICK wk \in Walk : wk = walk
        OBVIOUS
    <2>3. /\ ~wk.ended /\ WalkSound(KeysOf(T), wk) /\ IsPage(wk.kind, KeysOf(T), wk.offset, s)
          /\ walk' = Advanced(wk, s)
        BY <1>4, <1>5, <2>1, <2>2, Zenon
    <2>4. /\ walk' \in Walk /\ WalkSound(KeysOf(T), walk')
          /\ walk'.kind = wk.kind /\ walk'.steady = wk.steady
          /\ IdsListed(walk'.listed) \subseteq IdsListed(wk.listed) \cup IdsIn(KeysOf(T))
        BY <1>6, <2>3, SoundPage, ZenonT(60)
    <2> QED
        BY <2>2, <2>4, Zenon
<1>8. \A i \in IdsIn(KeysOf(T)) : \E x \in T : x.id = i
    BY DEF IdsIn, KeysOf, Key
<1>9. \A v \in Writers : Doing(v, Maker(kind))' <=> Doing(v, Maker(kind))
    BY <1>4 DEF Doing
<1>10. IdsListed(walk'.listed) \cup walk'.steady \subseteq used[kind]
    BY <1>1, <1>5, <1>7, <1>8
<1>11. \A v \in Writers : Doing(v, Maker(kind)) =>
          op[v].row.id \notin IdsListed(walk'.listed) \cup walk'.steady
    BY <1>5, <1>7, <1>8 DEF IdsInOrder, T
<1> QED
    BY <1>4, <1>7, <1>9, <1>10, <1>11 DEF WalkInOrder, T

----------------------------------------------------------------------------
(* Preservation of the invariant, action by action.                        *)

\* A list changes only with its table.
LEMMA TableKept ==
    ASSUME NEW kind \in Kinds, kind = "datasets" => datasets' = datasets,
           kind = "rules" => rules' = rules, kind = "analyses" => analyses' = analyses
    PROVE  Table(kind)' = Table(kind)
BY DEF Table, Kinds

\* One writer's operation changes.
LEMMA OpSet ==
    ASSUME ListingsTypeOK, NEW w \in Writers, NEW o, op' = [op EXCEPT ![w] = o]
    PROVE  op'[w] = o /\ \A v \in Writers : v # w => op'[v] = op[v]
BY DEF ListingsTypeOK

\* An operation that ends is none that will store a row.
LEMMA OpEnds ==
    ASSUME ListingsTypeOK, NEW w \in Writers, End(w), NEW name
    PROVE  /\ ~Doing(w, name)' /\ \A v \in Writers : v # w => op'[v] = op[v]
           /\ \A v \in Writers : Doing(v, name)' => Doing(v, name) /\ op'[v] = op[v]
BY OpSet DEF End, Doing

\* An operation that stores no row of its own begins.
LEMMA OpBegins ==
    ASSUME ListingsTypeOK, NEW w \in Writers, NEW o, op' = [op EXCEPT ![w] = o],
           NEW kind \in Kinds, o.name # Maker(kind)
    PROVE  \A v \in Writers :
              Doing(v, Maker(kind))' => Doing(v, Maker(kind)) /\ op'[v] = op[v]
BY OpSet DEF Doing

\* The lists and the client are left alone.
LEMMA PagesKept ==
    ASSUME PagesInv, datasets' = datasets, rules' = rules, analyses' = analyses,
           used' = used, walk' = walk,
           \A kind \in Kinds, v \in Writers :
              Doing(v, Maker(kind))' => Doing(v, Maker(kind)) /\ op'[v] = op[v]
    PROVE  PagesInv'
<1>1. ASSUME NEW kind \in Kinds
      PROVE  IdsInOrder(kind)' /\ WalkInOrder(kind)'
    <2>1. Table(kind)' = Table(kind)
        BY TableKept
    <2>2. IdsInOrder(kind) /\ WalkInOrder(kind)
        BY DEF PagesInv
    <2>3. used'[kind] = used[kind]
        OBVIOUS
    <2>4. \A v \in Writers :
             Doing(v, Maker(kind))' => Doing(v, Maker(kind)) /\ op'[v] = op[v]
        OBVIOUS
    <2> QED
        BY <2>1, <2>2, <2>3, <2>4, KindKept
<1> QED
    BY <1>1 DEF PagesInv

\* uuid4 for one table.
LEMMA IdGiven ==
    ASSUME ListingsTypeOK, NEW kind \in Kinds, NEW id, NewId(kind, id)
    PROVE  /\ id \notin used[kind] /\ used'[kind] = used[kind] \cup {id}
           /\ \A k \in Kinds : k # kind => used'[k] = used[k]
BY DEF ListingsTypeOK, NewId, Kinds

\* An id is given out for one list.
LEMMA PagesGiven ==
    ASSUME ListingsTypeOK, PagesInv, NEW made \in Kinds, NEW w \in Writers, NEW id, NEW o,
           datasets' = datasets, rules' = rules, analyses' = analyses, walk' = walk,
           op' = [op EXCEPT ![w] = o], o.name = Maker(made), o.row.id = id,
           id \notin used[made], used'[made] = used[made] \cup {id},
           \A k \in Kinds : k # made => used'[k] = used[k]
    PROVE  PagesInv'
<1>1. op'[w] = o /\ \A v \in Writers : v # w => op'[v] = op[v]
    BY OpSet
<1>2. \A kind \in Kinds : Table(kind)' = Table(kind)
    BY TableKept
<1>3. \A kind \in Kinds : IdsInOrder(kind) /\ WalkInOrder(kind)
    BY DEF PagesInv
<1>4. IdsInOrder(made)' /\ WalkInOrder(made)'
    <2>1. op'[w].row.id = id
        BY <1>1
    <2> QED
        BY <1>1, <1>2, <1>3, <2>1, KindGiven
<1>5. ASSUME NEW kind \in Kinds, kind # made
      PROVE  IdsInOrder(kind)' /\ WalkInOrder(kind)'
    <2>1. o.name # Maker(kind)
        BY <1>5 DEF Maker, Kinds
    <2>2. \A v \in Writers :
             Doing(v, Maker(kind))' => Doing(v, Maker(kind)) /\ op'[v] = op[v]
        BY <2>1, OpBegins
    <2>3. used'[kind] = used[kind]
        BY <1>5
    <2> QED
        BY <1>2, <1>3, <2>2, <2>3, KindKept
<1> QED
    BY <1>4, <1>5 DEF PagesInv

\* A commit or a deletion concerns the walk through its own list.
LEMMA OtherWalk ==
    ASSUME walk \in Walk \cup {Null}, NEW kind, NEW other, other # kind,
           Inserted(kind) \/ \E id : Deleted(kind, id)
    PROVE  walk' = walk \/ walk'.kind # other
BY DEF Inserted, Deleted, Walk

\* A row is committed to one list.
LEMMA PagesStored ==
    ASSUME ListingsTypeOK, PagesInv, NEW made \in Kinds, NEW w \in Writers,
           Doing(w, Maker(made)), End(w), Inserted(made), used' = used,
           NEW row, row = op[w].row, row.id \in Nat, row.created_at \in Nat,
           Table(made)' = Table(made) \cup {row},
           \A k \in Kinds : k # made => Table(k)' = Table(k)
    PROVE  PagesInv'
<1>1. \A kind \in Kinds : IdsInOrder(kind) /\ WalkInOrder(kind)
    BY DEF PagesInv
<1>2. walk \in Walk \cup {Null}
    BY DEF PagesInv
<1>3. ~Doing(w, Maker(made))' /\ \A v \in Writers : v # w => op'[v] = op[v]
    BY OpEnds
<1>4. IdsInOrder(made)' /\ WalkInOrder(made)' /\ walk' \in Walk \cup {Null}
    <2>1. IdsInOrder(made) /\ WalkInOrder(made)
        BY <1>1
    <2> QED
        BY <1>2, <1>3, <2>1, KindStored
<1>5. ASSUME NEW kind \in Kinds, kind # made
      PROVE  IdsInOrder(kind)' /\ WalkInOrder(kind)'
    <2>1. \A v \in Writers :
             Doing(v, Maker(kind))' => Doing(v, Maker(kind)) /\ op'[v] = op[v]
        BY OpEnds
    <2>2. walk' = walk \/ walk'.kind # kind
        BY <1>2, <1>5, OtherWalk
    <2>3. used'[kind] = used[kind] /\ Table(kind)' = Table(kind)
        BY <1>5
    <2>4. IdsInOrder(kind) /\ WalkInOrder(kind)
        BY <1>1
    <2> QED
        BY <2>1, <2>2, <2>3, <2>4, KindKept
<1> QED
    BY <1>4, <1>5 DEF PagesInv

\* create_dataset makes an id.
LEMMA StartCreateDatasetPages ==
    ASSUME ListingsTypeOK, PagesInv, NEW w \in Writers, NEW id \in DatasetIds, StartCreateDataset(w, id)
    PROVE  PagesInv'
<1> DEFINE o == [name |-> "create_dataset",
                 row |-> [id |-> id, created_at |-> clock, updated_at |-> clock,
                            uploaded_at |-> Null]]
<1>1. op' = [op EXCEPT ![w] = o]
    BY DEF StartCreateDataset, Begin
<1>2. o.name = "create_dataset" /\ o.row.id = id
    OBVIOUS
<1>3. "datasets" \in Kinds /\ Maker("datasets") = "create_dataset"
    BY DEF Kinds, Maker
<1>4. NewId("datasets", id)
    BY DEF StartCreateDataset
<1>5. /\ id \notin used["datasets"] /\ used'["datasets"] = used["datasets"] \cup {id}
      /\ \A k \in Kinds : k # "datasets" => used'[k] = used[k]
    BY <1>3, <1>4, IdGiven, Zenon
<1>6. walk' = walk /\ datasets' = datasets /\ rules' = rules /\ analyses' = analyses
    BY DEF StartCreateDataset, tables
<1> HIDE DEF o
<1>7. o.name = Maker("datasets") /\ o.row.id = id
    BY <1>2, <1>3
<1> QED
    BY <1>1, <1>3, <1>5, <1>6, <1>7, PagesGiven, ZenonT(60)

\* create_rule makes an id.
LEMMA StartCreateRulePages ==
    ASSUME ListingsTypeOK, PagesInv, NEW w \in Writers, NEW id \in RuleIds, StartCreateRule(w, id)
    PROVE  PagesInv'
<1> DEFINE o == [name |-> "create_rule",
                 row |-> [id |-> id, created_at |-> clock]]
<1>1. op' = [op EXCEPT ![w] = o]
    BY DEF StartCreateRule, Begin
<1>2. o.name = "create_rule" /\ o.row.id = id
    OBVIOUS
<1>3. "rules" \in Kinds /\ Maker("rules") = "create_rule"
    BY DEF Kinds, Maker
<1>4. NewId("rules", id)
    BY DEF StartCreateRule
<1>5. /\ id \notin used["rules"] /\ used'["rules"] = used["rules"] \cup {id}
      /\ \A k \in Kinds : k # "rules" => used'[k] = used[k]
    BY <1>3, <1>4, IdGiven, Zenon
<1>6. walk' = walk /\ datasets' = datasets /\ rules' = rules /\ analyses' = analyses
    BY DEF StartCreateRule, tables
<1> HIDE DEF o
<1>7. o.name = Maker("rules") /\ o.row.id = id
    BY <1>2, <1>3
<1> QED
    BY <1>1, <1>3, <1>5, <1>6, <1>7, PagesGiven, ZenonT(60)

\* _persist_analysis makes an id.
LEMMA StartPersistPages ==
    ASSUME ListingsTypeOK, PagesInv, NEW w \in Writers, NEW id \in AnalysisIds, StartPersist(w, id)
    PROVE  PagesInv'
<1> DEFINE o == [name |-> "persist",
                 row |-> [id |-> id, created_at |-> clock,
                            source_uploaded_at |-> op[w].uploaded_at,
                            measured |-> op[w].rules]]
<1>1. op' = [op EXCEPT ![w] = o]
    BY DEF StartPersist
<1>2. o.name = "persist" /\ o.row.id = id
    OBVIOUS
<1>3. "analyses" \in Kinds /\ Maker("analyses") = "persist"
    BY DEF Kinds, Maker
<1>4. NewId("analyses", id)
    BY DEF StartPersist
<1>5. /\ id \notin used["analyses"] /\ used'["analyses"] = used["analyses"] \cup {id}
      /\ \A k \in Kinds : k # "analyses" => used'[k] = used[k]
    BY <1>3, <1>4, IdGiven, Zenon
<1>6. walk' = walk /\ datasets' = datasets /\ rules' = rules /\ analyses' = analyses
    BY DEF StartPersist, tables
<1> HIDE DEF o
<1>7. o.name = Maker("analyses") /\ o.row.id = id
    BY <1>2, <1>3
<1> QED
    BY <1>1, <1>3, <1>5, <1>6, <1>7, PagesGiven, ZenonT(60)

\* A dataset is committed.
LEMMA CreateDatasetPages ==
    ASSUME ListingsTypeOK, PagesInv, NEW w \in Writers, CreateDataset(w)
    PROVE  PagesInv'
<1>1. "datasets" \in Kinds /\ Maker("datasets") = "create_dataset"
    BY DEF Kinds, Maker
<1>2. Doing(w, "create_dataset") /\ End(w) /\ Inserted("datasets") /\ used' = used
    BY DEF CreateDataset
<1>3. op[w].row.id \in Nat /\ op[w].row.created_at \in Nat
    BY <1>2, OperationFacts, ListingsAssumption DEF DatasetRow, AnalysisRow
<1>4. Table("datasets")' = Table("datasets") \cup {op[w].row}
    BY DEF CreateDataset, Table
<1>5. \A k \in Kinds : k # "datasets" => Table(k)' = Table(k)
    BY DEF CreateDataset, Table, Kinds
<1>6. PICK row : row = op[w].row
    OBVIOUS
<1>7. Doing(w, Maker("datasets")) /\ row.id \in Nat /\ row.created_at \in Nat
      /\ Table("datasets")' = Table("datasets") \cup {row}
    BY <1>1, <1>2, <1>3, <1>4, <1>6
<1> QED
    BY <1>1, <1>2, <1>5, <1>6, <1>7, PagesStored, ZenonT(60)

\* An analysis is committed.
LEMMA PersistAnalysisPages ==
    ASSUME ListingsTypeOK, PagesInv, NEW w \in Writers, PersistAnalysis(w)
    PROVE  PagesInv'
<1>1. "analyses" \in Kinds /\ Maker("analyses") = "persist"
    BY DEF Kinds, Maker
<1>2. Doing(w, "persist") /\ End(w) /\ Inserted("analyses") /\ used' = used
    BY DEF PersistAnalysis
<1>3. op[w].row.id \in Nat /\ op[w].row.created_at \in Nat
    BY <1>2, OperationFacts, ListingsAssumption DEF DatasetRow, AnalysisRow
<1>4. Table("analyses")' = Table("analyses") \cup {op[w].row}
    BY DEF PersistAnalysis, Table
<1>5. \A k \in Kinds : k # "analyses" => Table(k)' = Table(k)
    BY DEF PersistAnalysis, Table, Kinds
<1>6. PICK row : row = op[w].row
    OBVIOUS
<1>7. Doing(w, Maker("analyses")) /\ row.id \in Nat /\ row.created_at \in Nat
      /\ Table("analyses")' = Table("analyses") \cup {row}
    BY <1>1, <1>2, <1>3, <1>4, <1>6
<1> QED
    BY <1>1, <1>2, <1>5, <1>6, <1>7, PagesStored, ZenonT(60)

\* A rule is committed.
LEMMA CreateRuleStores ==
    ASSUME ListingsTypeOK, PagesInv, NEW w \in Writers, CreateRule(w),
           rules' # rules \/ walk' # walk
    PROVE  PagesInv'
<1>1. "rules" \in Kinds /\ Maker("rules") = "create_rule"
    BY DEF Kinds, Maker
<1>2. Doing(w, "create_rule") /\ End(w) /\ Inserted("rules") /\ used' = used
    BY DEF CreateRule
<1>3. op[w].row.id \in Nat /\ op[w].row.created_at \in Nat
    BY <1>2, OperationFacts, ListingsAssumption DEF DatasetRow, AnalysisRow
<1>4. Table("rules")' = Table("rules") \cup {op[w].row}
    BY DEF CreateRule, Table
<1>5. \A k \in Kinds : k # "rules" => Table(k)' = Table(k)
    BY DEF CreateRule, Table, Kinds
<1>6. PICK row : row = op[w].row
    OBVIOUS
<1>7. Doing(w, Maker("rules")) /\ row.id \in Nat /\ row.created_at \in Nat
      /\ Table("rules")' = Table("rules") \cup {row}
    BY <1>1, <1>2, <1>3, <1>4, <1>6
<1> QED
    BY <1>1, <1>2, <1>5, <1>6, <1>7, PagesStored, ZenonT(60)

\* A rule is committed or refused.
LEMMA CreateRulePages ==
    ASSUME ListingsTypeOK, PagesInv, NEW w \in Writers, CreateRule(w)
    PROVE  PagesInv'
<1>1. CASE rules' # rules \/ walk' # walk
    BY <1>1, CreateRuleStores
<1>2. CASE rules' = rules /\ walk' = walk
    <2>1. End(w) /\ datasets' = datasets /\ analyses' = analyses /\ used' = used
        BY DEF CreateRule
    <2>2. \A kind \in Kinds, v \in Writers :
             Doing(v, Maker(kind))' => Doing(v, Maker(kind)) /\ op'[v] = op[v]
        BY <2>1, OpEnds
    <2> QED
        BY <1>2, <2>1, <2>2, PagesKept
<1> QED
    BY <1>1, <1>2

\* A rule is deleted.
LEMMA DeleteRulePages ==
    ASSUME PagesInv, NEW r \in rules, DeleteRule(r)
    PROVE  PagesInv'
<1>1. /\ "rules" \in Kinds /\ r \in Table("rules") /\ Table("rules")' = Table("rules") \ {r}
      /\ used' = used /\ op' = op /\ Deleted("rules", r.id)
      /\ \A k \in Kinds : k # "rules" => Table(k)' = Table(k)
    BY DEF DeleteRule, Table, Kinds
<1>2. walk \in Walk \cup {Null} /\ \A kind \in Kinds : IdsInOrder(kind) /\ WalkInOrder(kind)
    BY DEF PagesInv
<1>3. IdsInOrder("rules")' /\ WalkInOrder("rules")' /\ walk' \in Walk \cup {Null}
    <2>1. IdsInOrder("rules") /\ WalkInOrder("rules")
        BY <1>1, <1>2
    <2> QED
        BY <1>1, <1>2, <2>1, KindDeleted
<1>4. ASSUME NEW kind \in Kinds, kind # "rules"
      PROVE  IdsInOrder(kind)' /\ WalkInOrder(kind)'
    <2>1. \A v \in Writers :
             Doing(v, Maker(kind))' => Doing(v, Maker(kind)) /\ op'[v] = op[v]
        BY <1>1 DEF Doing
    <2>2. walk' = walk \/ walk'.kind # kind
        BY <1>1, <1>2, <1>4, OtherWalk
    <2>3. used'[kind] = used[kind] /\ Table(kind)' = Table(kind)
        BY <1>1, <1>4
    <2>4. IdsInOrder(kind) /\ WalkInOrder(kind)
        BY <1>2
    <2> QED
        BY <2>1, <2>2, <2>3, <2>4, KindKept
<1> QED
    BY <1>3, <1>4 DEF PagesInv

\* An upload is committed: its row keeps its place.
LEMMA UploadCsvPages ==
    ASSUME ListingsTypeOK, PagesInv, NEW w \in Writers, UploadCsv(w)
    PROVE  PagesInv'
<1>1. /\ End(w) /\ used' = used /\ walk' = walk /\ rules' = rules /\ analyses' = analyses
      /\ op[w].now \in Nat
    BY OperationFacts DEF UploadCsv
<1>2. \A kind \in Kinds : IdsInOrder(kind) /\ WalkInOrder(kind)
    BY DEF PagesInv
<1>3. ASSUME NEW kind \in Kinds
      PROVE  \A v \in Writers :
                Doing(v, Maker(kind))' => Doing(v, Maker(kind)) /\ op'[v] = op[v]
    BY <1>1, OpEnds
<1>4. ASSUME NEW kind \in Kinds, kind # "datasets"
      PROVE  IdsInOrder(kind)' /\ WalkInOrder(kind)'
    <2>1. used'[kind] = used[kind] /\ Table(kind)' = Table(kind)
        BY <1>1, <1>4 DEF Table, Kinds
    <2>2. IdsInOrder(kind) /\ WalkInOrder(kind)
        BY <1>2
    <2> QED
        BY <1>1, <1>3, <2>1, <2>2, KindKept
<1>5. IdsInOrder("datasets")' /\ WalkInOrder("datasets")'
    <2>1. "datasets" \in Kinds
        BY DEF Kinds
    <2>2. IdsInOrder("datasets") /\ WalkInOrder("datasets")
        BY <1>2, <2>1
    <2>3. RowSet(datasets) /\ datasets \subseteq DatasetRow
        BY <2>2 DEF IdsInOrder, Table, ListingsTypeOK
    <2>4. RowSet(datasets') /\ KeysOf(datasets') = KeysOf(datasets)
        <3>1. PICK id, now : id = op[w].id /\ now = op[w].now
            OBVIOUS
        <3>2. now \in Nat
            BY <1>1, <3>1
        <3>3. datasets' = Restamped(datasets, id, now)
            BY <3>1, Zenon DEF UploadCsv, Restamped
        <3> QED
            BY <2>3, <3>2, <3>3, StampKeepsKeys, ZenonT(60)
    <2>5. Table("datasets") = datasets /\ Table("datasets")' = datasets'
        BY DEF Table
    <2>6. RowSet(Table("datasets")') /\ KeysOf(Table("datasets")') = KeysOf(Table("datasets"))
        BY <2>4, <2>5
    <2>7. \A v \in Writers : Doing(v, Maker("datasets"))' =>
             Doing(v, Maker("datasets")) /\ op'[v] = op[v]
        BY <1>3, <2>1
    <2> QED
        BY <1>1, <2>2, <2>6, <2>7, KindRestamped
<1> QED
    BY <1>1, <1>4, <1>5 DEF PagesInv

\* A client starts, on the ids that are listed.
LEMMA StartWalkPages ==
    ASSUME PagesInv, NEW kind \in Kinds, StartWalk(kind)
    PROVE  PagesInv'
<1>1. /\ datasets' = datasets /\ rules' = rules /\ analyses' = analyses
      /\ used' = used /\ op' = op /\ walk'.kind = kind
    BY DEF StartWalk, tables
<1>2. \A k \in Kinds : IdsInOrder(k) /\ WalkInOrder(k)
    BY DEF PagesInv
<1>3. ASSUME NEW k \in Kinds
      PROVE  IdsInOrder(k)'
    <2>1. Table(k)' = Table(k)
        BY <1>1, TableKept
    <2> QED
        BY <1>1, <1>2, <2>1 DEF IdsInOrder, Doing
<1>4. walk' \in Walk /\ WalkInOrder(kind)'
    BY <1>2, KindStarted
<1>5. ASSUME NEW k \in Kinds, k # kind
      PROVE  WalkInOrder(k)'
    BY <1>1, <1>5 DEF WalkInOrder
<1> QED
    BY <1>3, <1>4, <1>5 DEF PagesInv

\* A client reads a page.
LEMMA ReadPagePages ==
    ASSUME PagesInv, ReadPage
    PROVE  PagesInv'
<1>1. /\ datasets' = datasets /\ rules' = rules /\ analyses' = analyses
      /\ used' = used /\ op' = op /\ walk # Null /\ ~walk.ended
    BY DEF ReadPage, Advance, tables
<1>2. \A k \in Kinds : IdsInOrder(k) /\ WalkInOrder(k)
    BY DEF PagesInv
<1>3. walk \in Walk
    BY <1>1 DEF PagesInv
<1>4. ASSUME NEW k \in Kinds
      PROVE  IdsInOrder(k)' /\ Table(k)' = Table(k)
    <2>1. Table(k)' = Table(k)
        BY <1>1, TableKept
    <2> QED
        BY <1>1, <1>2, <2>1 DEF IdsInOrder, Doing
<1>5. \E kind \in Kinds : \E q : /\ walk.kind = kind /\ IsList(kind, Table(kind), q)
                                 /\ Advance(Page(q, walk.offset))
    <2>1. \A k \in Kinds : RowSet(Table(k))
        BY <1>2 DEF IdsInOrder
    <2>2. RowSet(datasets) /\ RowSet(rules) /\ RowSet(analyses)
        BY <2>1 DEF Table, Kinds
    <2>3. "datasets" # "analyses" /\ "rules" # "analyses"
        OBVIOUS
    <2>4. /\ IsList("datasets", datasets, OldestFirst(datasets))
          /\ IsList("rules", rules, OldestFirst(rules))
          /\ IsList("analyses", analyses, NewestFirst(analyses))
        BY <2>2, <2>3, OldestFirstIsList, NewestFirstIsList
    <2>5. /\ Table("datasets") = datasets /\ Table("rules") = rules
          /\ Table("analyses") = analyses
          /\ "datasets" \in Kinds /\ "rules" \in Kinds /\ "analyses" \in Kinds
        BY DEF Table, Kinds
    <2>6. \/ walk.kind = "datasets" /\ Advance(Page(OldestFirst(datasets), walk.offset))
          \/ walk.kind = "rules" /\ Advance(Page(OldestFirst(rules), walk.offset))
          \/ walk.kind = "analyses" /\ Advance(Page(NewestFirst(analyses), walk.offset))
        BY DEF ReadPage, ListDatasets, ListRules, ListAnalyses
    <2> QED
        BY <2>4, <2>5, <2>6, Zenon
<1>kind. PICK kind \in Kinds : \E q : /\ walk.kind = kind /\ IsList(kind, Table(kind), q)
                                      /\ Advance(Page(q, walk.offset))
    BY <1>5
<1>6. PICK q : /\ walk.kind = kind /\ IsList(kind, Table(kind), q)
               /\ Advance(Page(q, walk.offset))
    BY <1>kind
<1>7. walk' \in Walk /\ walk'.kind = kind /\ WalkInOrder(kind)'
    <2>1. IdsInOrder(kind) /\ WalkInOrder(kind) /\ Table(kind)' = Table(kind)
        BY <1>2, <1>4
    <2> QED
        BY <1>1, <1>3, <1>6, <2>1, KindRead
<1>8. ASSUME NEW k \in Kinds, k # kind
      PROVE  WalkInOrder(k)'
    BY <1>7, <1>8 DEF WalkInOrder
<1> QED
    BY <1>4, <1>7, <1>8 DEF PagesInv

----------------------------------------------------------------------------
(* The theorem.                                                            *)

\* Before the first operation every list is empty and no client reads.
LEMMA PagesInit == Init => PagesInv
<1> SUFFICES ASSUME Init
             PROVE  PagesInv
    OBVIOUS
<1>1. walk = Null /\ \A w \in Writers : \A name : ~Doing(w, name)
    BY DEF Init, Doing
<1>2. ASSUME NEW kind \in Kinds
      PROVE  Table(kind) = {}
    BY DEF Init, Table, Kinds
<1>3. RowSet({})
    BY FS_EmptySet DEF RowSet
<1>4. \A kind \in Kinds : IdsInOrder(kind)
    BY <1>1, <1>2, <1>3 DEF IdsInOrder
<1> QED
    BY <1>1, <1>4 DEF PagesInv, WalkInOrder

\* The steps that give out no id, change no list and read no page.
LEMMA OtherPages ==
    ASSUME ListingsTypeOK, PagesInv,
           \/ Tick \/ ListForAnalysis \/ UNCHANGED vars
           \/ \E a \in analyses : GetForDatasetOwner(a)
           \/ \E w \in Writers : \/ CaptureSnapshot(w) \/ FailAnalysis(w)
                                 \/ \E d \in datasets : StartUpload(w, d)
    PROVE  PagesInv'
<1>1. /\ datasets' = datasets /\ rules' = rules /\ analyses' = analyses
      /\ used' = used /\ walk' = walk
    BY DEF Tick, ListForAnalysis, GetForDatasetOwner, CaptureSnapshot, FailAnalysis,
       StartUpload, tables, vars
<1>2. \/ op' = op \/ \E w \in Writers : End(w)
      \/ \E w \in Writers : \E o : /\ op' = [op EXCEPT ![w] = o]
                                   /\ o.name \in {"capture", "upload_csv"}
    <2>1. ASSUME NEW w \in Writers, CaptureSnapshot(w)
          PROVE  \E o : op' = [op EXCEPT ![w] = o] /\ o.name = "capture"
        <3>1. PICK d \in UploadOf(Subject) :
                 Begin(w, [name |-> "capture", uploaded_at |-> d.uploaded_at,
                           rules |-> {r.id : r \in rules}])
            BY <2>1 DEF CaptureSnapshot
        <3> DEFINE o == [name |-> "capture", uploaded_at |-> d.uploaded_at,
                         rules |-> {r.id : r \in rules}]
        <3>2. op' = [op EXCEPT ![w] = o] /\ o.name = "capture"
            BY <3>1 DEF Begin
        <3> HIDE DEF o
        <3> QED
            BY <3>2
    <2>2. ASSUME NEW w \in Writers, NEW d \in datasets, StartUpload(w, d)
          PROVE  \E o : op' = [op EXCEPT ![w] = o] /\ o.name = "upload_csv"
        <3> DEFINE o == [name |-> "upload_csv", id |-> d.id, now |-> clock]
        <3>1. op' = [op EXCEPT ![w] = o] /\ o.name = "upload_csv"
            BY <2>2 DEF StartUpload, Begin
        <3> HIDE DEF o
        <3> QED
            BY <3>1
    <2>3. (\E w \in Writers : FailAnalysis(w)) => \E w \in Writers : End(w)
        BY DEF FailAnalysis
    <2>4. Tick \/ ListForAnalysis \/ UNCHANGED vars \/ (\E a \in analyses : GetForDatasetOwner(a))
             => op' = op
        BY DEF Tick, ListForAnalysis, GetForDatasetOwner, vars
    <2> QED
        BY <2>1, <2>2, <2>3, <2>4
<1>3. ASSUME NEW kind \in Kinds
      PROVE  \A v \in Writers :
                Doing(v, Maker(kind))' => Doing(v, Maker(kind)) /\ op'[v] = op[v]
    <2>1. CASE op' = op
        BY <2>1 DEF Doing
    <2>2. CASE \E w \in Writers : End(w)
        BY <2>2, OpEnds
    <2>3. ASSUME NEW w \in Writers, NEW o, op' = [op EXCEPT ![w] = o],
                 o.name \in {"capture", "upload_csv"}
          PROVE  \A v \in Writers :
                    Doing(v, Maker(kind))' => Doing(v, Maker(kind)) /\ op'[v] = op[v]
        <3>1. o.name # Maker(kind)
            BY <2>3 DEF Maker, Kinds
        <3> QED
            BY <2>3, <3>1, OpBegins
    <2> QED
        BY <1>2, <2>1, <2>2, <2>3
<1> QED
    BY <1>1, <1>3, PagesKept

\* Every step of a writer or a reader preserves the invariant.
LEMMA PagesStep == ListingsTypeOK /\ PagesInv /\ [Next]_vars => PagesInv'
<1> SUFFICES ASSUME ListingsTypeOK, PagesInv, [Next]_vars
             PROVE  PagesInv'
    OBVIOUS
<1>1. \A kind \in {"datasets", "rules", "analyses"} : StartWalk(kind) => PagesInv'
    BY StartWalkPages DEF Kinds
<1> QED
    BY <1>1, StartCreateDatasetPages, StartCreateRulePages, StartPersistPages,
       CreateDatasetPages, UploadCsvPages, CreateRulePages, PersistAnalysisPages,
       DeleteRulePages, ReadPagePages, OtherPages DEF Next

\* The invariant holds in every reachable state.
THEOREM PagesInvariance == Spec => []PagesInv
<1>1. ListingsInv => ListingsTypeOK
    BY DEF ListingsInv
<1> QED
    BY <1>1, ListingsInvariance, PagesInit, PagesStep, PTL DEF Spec

\* A client that pages through a list to its end, of any length, with any page size and
\* among any number of writers, misses no more rows than were deleted under it and sees no
\* more rows twice than were committed under it.
THEOREM PagesAlwaysCover == Spec => []PagesCoverTheList
<1>1. PagesInv => PagesCoverTheList
    <2> SUFFICES ASSUME PagesInv, walk # Null, walk.ended
                 PROVE  PagesCoverTheList
        BY Zenon DEF PagesCoverTheList
    <2>1. walk \in Walk
        BY DEF PagesInv
    <2>2. PICK kind \in Kinds : kind = walk.kind
        BY <2>1, WalkFields
    <2>3. WalkSound(KeysOf(Table(kind)), walk)
        BY <2>2 DEF PagesInv, WalkInOrder
    <2>4. /\ Cardinality(walk.steady \ IdsListed(walk.listed)) <= walk.deleted
          /\ Len(walk.listed) <= walk.inserted + Cardinality(IdsListed(walk.listed))
        BY <2>3, Zenon DEF WalkSound
    <2>5. walk.listed \in Seq(Nat) /\ walk.inserted \in Nat
        BY <2>1, WalkFields
    <2>6. Len(walk.listed) - Cardinality(IdsListed(walk.listed)) <= walk.inserted
        <3>1. PICK l, i, c \in Nat : l = Len(walk.listed) /\ i = walk.inserted
                                     /\ c = Cardinality(IdsListed(walk.listed))
            BY <2>5, ListedFinite
        <3>2. l <= i + c
            BY <2>4, <3>1, Zenon
        <3>3. l - c <= i
            BY <3>2
        <3> QED
            BY <3>1, <3>3, Zenon
    <2> QED
        BY <2>4, <2>6, Zenon DEF PagesCoverTheList, IdsListed
<1> QED
    BY <1>1, PagesInvariance, PTL

=============================================================================
