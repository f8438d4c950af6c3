------------------------------- MODULE Catalog -------------------------------
(***************************************************************************)
(* What the dataset and analysis services promise, with no files, locks,   *)
(* transactions or crashes: a dataset has one current upload, rules that   *)
(* fit it, and a history of analyses.  An analysis works on a snapshot of  *)
(* the upload and of all its rules taken at one instant, and is recorded   *)
(* whole or not at all.                                                    *)
(***************************************************************************)
CONSTANTS Datasets, Contents, HeaderOf, RuleDefs, ColumnOf, RuleIds, Analysts,
          Null

VARIABLES
    upload,     \* the content each dataset currently has, or Null
    rules,      \* the rules in force
    pending,    \* the snapshot an analysis is working on, or Null
    history     \* the recorded analyses

vars == <<upload, rules, pending, history>>

RulesOf(d) == {x \in rules : x.ds = d}

Init ==
    /\ upload = [d \in Datasets |-> Null]
    /\ rules = {}
    /\ pending = [a \in Analysts |-> Null]
    /\ history = {}

Replace(d, c) ==
    /\ \A x \in RulesOf(d) : ColumnOf[x.def] \in HeaderOf[c]
    /\ upload' = [upload EXCEPT ![d] = c]
    /\ UNCHANGED <<rules, pending, history>>

AddRule(i, d, f) ==
    /\ upload[d] # Null
    /\ ColumnOf[f] \in HeaderOf[upload[d]]
    /\ \A x \in rules : x.id # i /\ ~(x.ds = d /\ x.def = f)
    /\ rules' = rules \cup {[id |-> i, ds |-> d, def |-> f]}
    /\ UNCHANGED <<upload, pending, history>>

DropRule(x) ==
    /\ rules' = rules \ {x}
    /\ UNCHANGED <<upload, pending, history>>

Capture(a, d) ==
    /\ pending[a] = Null
    /\ upload[d] # Null
    /\ RulesOf(d) # {}
    /\ pending' = [pending EXCEPT ![a] =
                      [ds |-> d, content |-> upload[d], rules |-> RulesOf(d)]]
    /\ UNCHANGED <<upload, rules, history>>

Record(a) ==
    /\ pending[a] # Null
    /\ history' = history \cup {[id |-> a, result |-> pending[a]]}
    /\ pending' = [pending EXCEPT ![a] = Null]
    /\ UNCHANGED <<upload, rules>>

\* One analysis fails, or a crash takes all of them.
Abandon(A) ==
    /\ pending' = [a \in Analysts |-> IF a \in A THEN Null ELSE pending[a]]
    /\ UNCHANGED <<upload, rules, history>>

Next ==
    \/ \E d \in Datasets :
          \/ \E c \in Contents : Replace(d, c)
          \/ \E i \in RuleIds, f \in RuleDefs : AddRule(i, d, f)
          \/ \E a \in Analysts : Capture(a, d)
    \/ \E x \in rules : DropRule(x)
    \/ \E a \in Analysts : Record(a)
    \/ \E A \in SUBSET Analysts : Abandon(A)

Spec == Init /\ [][Next]_vars
=============================================================================
