--------------------------- MODULE HierarchySample ---------------------------
(***************************************************************************)
(* One bootstrap replicate of the full-hierarchy samplers in bootstrap.py *)
(* (BootstrapFullFARHierarchy._sample and BootstrapFullFRRHierarchy.      *)
(* _sample): nested loops, one per level of the study, each iterating     *)
(* over a resample-with-replacement of that level's axis list.  Before    *)
(* entering a deeper loop the partial tuple is checked against the count  *)
(* trie and the subtree is skipped ("continue") when no row extends it;   *)
(* at the innermost level the full tuple is looked up in the row set and  *)
(* the hits are summed.                                                   *)
(*                                                                         *)
(* The loop nest is kept as a stack: todo[d] is what is left of the       *)
(* array drawn for level d, prefix holds the values of the enclosing      *)
(* loops that passed the trie check.  The list `sample` of booleans of    *)
(* the code is kept as its sum, count, the only thing returned.           *)
(***************************************************************************)
EXTENDS Naturals, Sequences, FiniteSets, SequencesExt

CONSTANTS Axes    \* Axes[d]: the axis list iterated by the loop of depth d

VARIABLES fa_set,   \* the tuples of the DataFrameSetAccess index
          fa_trie,  \* the rows the DataFrameCountTrieAccess index counts
          todo,     \* todo[d]: the rest of the array drawn for depth d
          prefix,   \* values of the enclosing loops that passed the trie
          count,    \* np.sum(sample) so far
          pc,       \* "idle", "loop" or "done"
          exact     \* every array drawn so far holds each axis value once

sampler == <<todo, prefix, count, pc, exact>>

Depth == Len(Axes)

(* fpsutils.boot_sample(list, rng): len(list) values drawn uniformly with *)
(* replacement from list; every outcome the generator can produce.       *)
BootSample(axis) == [1..Cardinality(axis) -> axis]

(* DataFrameCountTrieAccess.isin(prefix): some row's leading columns     *)
(* equal prefix, i.e. the count accumulated along the path is nonzero.   *)
TrieCount(p) == Cardinality({r \in fa_trie : IsPrefix(p, r)})
\* Mutant: the trie check asks for more than one row under the prefix.
TrieIsInOffByOne(p) == TrieCount(p) > 1

TrieIsIn(p) == TrieCount(p) > 0

(* DataFrameSetAccess.isin(values): the exact tuple is a row.            *)
SetIsIn(t) == t \in fa_set

\* The innermost open loop, its next value and the tuple it forms.
Level == Len(todo)
Query == Append(prefix, Head(todo[Level]))

Init ==
  /\ todo = <<>>
  /\ prefix = <<>>
  /\ count = 0
  /\ pc = "idle"
  /\ exact = TRUE

\* A draw that is the axis list itself, in some order.
Exact(arr, axis) == Range(arr) = axis

\* Entering _sample: sample = [] and the outermost array is drawn.
Begin ==
  /\ pc = "idle"
  /\ \E arr \in BootSample(Axes[1]) :
       todo' = <<arr>> /\ exact' = Exact(arr, Axes[1])
  /\ pc' = "loop"
  /\ UNCHANGED <<prefix, count>>

\* `if not fa_trie.isin(...): continue` at a level above the innermost.
Prune ==
  /\ pc = "loop"
  /\ Level < Depth
  /\ todo[Level] # <<>>
  /\ ~TrieIsIn(Query)
  /\ todo' = [todo EXCEPT ![Level] = Tail(@)]
  /\ UNCHANGED <<prefix, count, pc, exact>>

\* The trie check passes: the next level's array is drawn and its loop
\* entered.
Descend ==
  /\ pc = "loop"
  /\ Level < Depth
  /\ todo[Level] # <<>>
  /\ TrieIsIn(Query)
  /\ prefix' = Query
  /\ \E arr \in BootSample(Axes[Level + 1]) :
       /\ todo' = Append([todo EXCEPT ![Level] = Tail(@)], arr)
       /\ exact' = (exact /\ Exact(arr, Axes[Level + 1]))
  /\ UNCHANGED <<count, pc>>

\* The innermost loop body: sample.append(fa_set.isin(query)).
LeafQuery ==
  /\ pc = "loop"
  /\ Level = Depth
  /\ todo[Level] # <<>>
  /\ count' = count + (IF SetIsIn(Query) THEN 1 ELSE 0)
  /\ todo' = [todo EXCEPT ![Level] = Tail(@)]
  /\ UNCHANGED <<prefix, pc, exact>>

\* Mutant: leaving a nested loop without dropping its prefix element.
AscendKeepsPrefix ==
  /\ pc = "loop"
  /\ Level > 1
  /\ todo[Level] = <<>>
  /\ todo' = Front(todo)
  /\ UNCHANGED <<prefix, count, pc, exact>>

\* A nested loop is exhausted: back to the enclosing loop.
Ascend ==
  /\ pc = "loop"
  /\ Level > 1
  /\ todo[Level] = <<>>
  /\ todo' = Front(todo)
  /\ prefix' = Front(prefix)
  /\ UNCHANGED <<count, pc, exact>>

\* The outermost loop is exhausted: return np.sum(sample).
Return ==
  /\ pc = "loop"
  /\ Level = 1
  /\ todo[1] = <<>>
  /\ todo' = <<>>
  /\ pc' = "done"
  /\ UNCHANGED <<prefix, count, exact>>

\* The prefix holds one value per enclosing loop.
PrefixMatchesLoops ==
  \/ todo = <<>> /\ prefix = <<>>
  \/ Len(prefix) + 1 = Len(todo)

Next == Begin \/ Prune \/ Descend \/ LeafQuery \/ Ascend \/ Return
=============================================================================
