------------------------ MODULE BootstrapFARHierarchy ------------------------
(***************************************************************************)
(* BootstrapFullFARHierarchy (bootstrap.py): _init builds the row set and *)
(* the count trie over the false-accept table, projected onto the loop    *)
(* nesting order (verify user, template user, verify finger, enroll       *)
(* finger, verify sample); _sample is the five-level HierarchySample.     *)
(* The FAR decision table is whatever the caller put in the Experiment:   *)
(* Experiment.check() may or may not have been run on it.                 *)
(***************************************************************************)
EXTENDS Naturals, Sequences, FiniteSets, SequencesExt

CONSTANTS Users, Fingers, Samples,
          FARRows   \* the rows a FAR decision table may hold

INSTANCE Experiment

VARIABLES far,      \* the FAR decision table of the Experiment
          todo, prefix, count, pc, exact

vars == <<far, todo, prefix, count, pc, exact>>

\* fa_set_tuple: the column order of both indices, the loop nesting order.
FASetTuple ==
  <<"VerifyUser", "EnrollUser", "VerifyFinger", "EnrollFinger", "VerifySample">>

\* _init: fa_set = DataFrameSetAccess(fa_table, fa_set_tuple).
FASet == ProjectTable(FATable(far), FASetTuple)

\* _init: fa_trie = DataFrameCountTrieAccess(fa_table, fa_set_tuple).
FATrie == ProjectTable(FATable(far), FASetTuple)

S == INSTANCE HierarchySample
       WITH Axes <- <<Users, Users, Fingers, Fingers, Samples>>,
            fa_set <- FASet, fa_trie <- FATrie

Init ==
  /\ far \in SUBSET FARRows
  /\ S!Init

\* _sample: the decision table is read-only while sampling.
Next == S!Next /\ UNCHANGED far

Spec == Init /\ [][Next]_vars

-----------------------------------------------------------------------------
TypeOK ==
  /\ far \subseteq DecisionRow
  /\ todo \in Seq(Seq(Users \cup Fingers \cup Samples))
  /\ Len(todo) <= 5
  /\ prefix \in Seq(Users \cup Fingers \cup Samples)
  /\ S!PrefixMatchesLoops
  /\ count \in Nat
  /\ pc \in {"idle", "loop", "done"}
  /\ exact \in BOOLEAN

\* BootstrapFARFlat._init: far_list, one boolean per FAR decision row,
\* Decision == Accept.
FarList == [r \in far |-> r.Decision = Accept]

\* BootstrapFARFlat._sample: np.sum of a resample of far_list; here the
\* draw that takes every row once.
FlatSample == Cardinality({r \in DOMAIN FarList : FarList[r]})

(* The flat strategy is the baseline the hierarchical one is validated    *)
(* against (design document, section 3).  With draws that take each user, *)
(* finger and sample exactly once, the two agree: the hierarchical        *)
(* replicate, through trie pruning, its set lookups and the loop nest's   *)
(* prefix bookkeeping, counts every accepted FAR row once, as the flat     *)
(* sum of far_list does.                                                  *)
HierarchyAgreesWithFlat == (pc = "done" /\ exact) => count = FlatSample
=============================================================================
