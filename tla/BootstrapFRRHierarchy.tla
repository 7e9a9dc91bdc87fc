------------------------ MODULE BootstrapFRRHierarchy ------------------------
(***************************************************************************)
(* BootstrapFullFRRHierarchy (bootstrap.py): _init builds the row set and *)
(* the count trie over the false-reject table projected onto (enroll      *)
(* user, enroll finger, verify sample); _sample is the three-level        *)
(* HierarchySample over (users, fingers, samples).  The projection drops  *)
(* the verify columns: it identifies a row by its enrolled template,     *)
(* which is only the attempt's own finger for a genuine attempt.          *)
(***************************************************************************)
EXTENDS Naturals, Sequences, FiniteSets, SequencesExt

CONSTANTS Users, Fingers, Samples,
          FRRRows   \* the rows an FRR decision table may hold

INSTANCE Experiment

VARIABLES frr,      \* the FRR decision table of the Experiment
          todo, prefix, count, pc, exact

vars == <<frr, todo, prefix, count, pc, exact>>

\* fr_set_tuple: the column order of both indices, the loop nesting order.
FRSetTuple == <<"EnrollUser", "EnrollFinger", "VerifySample">>

\* _init: fa_set = DataFrameSetAccess(fr_table, fr_set_tuple).
FRSet == ProjectTable(FRTable(frr), FRSetTuple)

\* _init: fa_trie = DataFrameCountTrieAccess(fr_table, fr_set_tuple).
FRTrie == ProjectTable(FRTable(frr), FRSetTuple)

S == INSTANCE HierarchySample
       WITH Axes <- <<Users, Fingers, Samples>>,
            fa_set <- FRSet, fa_trie <- FRTrie

Init ==
  /\ frr \in SUBSET FRRRows
  /\ S!Init

\* _sample: the decision table is read-only while sampling.
Next == S!Next /\ UNCHANGED frr

Spec == Init /\ [][Next]_vars

-----------------------------------------------------------------------------
TypeOK ==
  /\ frr \subseteq DecisionRow
  /\ todo \in Seq(Seq(Users \cup Fingers \cup Samples))
  /\ Len(todo) <= 3
  /\ prefix \in Seq(Users \cup Fingers \cup Samples)
  /\ S!PrefixMatchesLoops
  /\ count \in Nat
  /\ pc \in {"idle", "loop", "done"}
  /\ exact \in BOOLEAN

(* A replicate that draws every user, finger and sample exactly once     *)
(* counts every false reject of a table check() accepts exactly once:    *)
(* the trie pruning, the set lookups and the loop nest's prefix          *)
(* bookkeeping lose none and count none twice.  check() is what keeps    *)
(* the (enroll user, enroll finger, sample) projection one-to-one: an    *)
(* impostor row of the same template and sample would be merged with the *)
(* genuine one.                                                          *)
HierarchyCountsEveryFalseReject ==
  (pc = "done" /\ exact /\ CheckFRR(frr)) => count = Cardinality(FRTable(frr))
=============================================================================
