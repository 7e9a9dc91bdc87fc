-------------------------- MODULE MergeConfigBundles --------------------------
(***************************************************************************)
(* merge_config_bundles (cros_config_merge_backfilled_config.py): for     *)
(* each repeated field of the ConfigBundle in turn, _merge_sequences_by_key *)
(* collects the keys of the original list once, then walks the backfilled *)
(* list and appends to the original every element whose key was not      *)
(* among them.  The key is the element's id, except for design_list,      *)
(* whose id is lowercased.                                                *)
(*                                                                         *)
(* An id is a pair <<name, upper>>: two ids with the same name differ     *)
(* only in case.  main parses both jsonpb files (either may be malformed), *)
(* merges, and writes config_bundle to --output.                          *)
(***************************************************************************)
EXTENDS Naturals, Sequences, FiniteSets, SequencesExt

CONSTANTS Fields,   \* the repeated fields merged, in the order of the code
          Names,    \* id names
          MaxLen    \* longest list of a field in either bundle

Ids == Names \X BOOLEAN

\* The keyFn lambda passed for field f.
KeyFn(f, id) == IF f = "design_list" THEN id[1] ELSE id

KeysOf(f, s) == {KeyFn(f, s[k]) : k \in DOMAIN s}

FieldIndex == 1..Len(Fields)

VARIABLES bundle,      \* bundle[f]: config_bundle's list for field f
          backfilled,  \* backfilled[f]: backfilled_config_bundle's list
          original,    \* config_bundle as parsed, before the merge
          fi,          \* the field being merged: Fields[fi]
          seq1Keys,
          j,           \* the element of backfilled[Fields[fi]] looked at
          pc,
          output       \* the bundles written to --output: {} or one

vars == <<bundle, backfilled, original, fi, seq1Keys, j, pc, output>>

Bundles == [Range(Fields) -> BoundedSeq(Ids, MaxLen)]

Init ==
  /\ bundle \in Bundles
  /\ backfilled \in Bundles
  /\ original = bundle
  /\ fi = 1
  /\ seq1Keys = {}
  /\ j = 1
  /\ pc = "parse"
  /\ output = {}

Field == Fields[fi]

\* main: _parse_config_bundle of --config-bundle, then of
\* --backfilled-config-bundle; json_format.Parse raises ParseError on a
\* malformed file and main ends with it, writing nothing.
ParseBundles ==
  /\ pc = "parse"
  /\ pc' \in {"keys", "failed"}
  /\ UNCHANGED <<bundle, backfilled, original, fi, seq1Keys, j, output>>

\* seq1Keys = set(); for elem in seq1: seq1Keys.add(keyFn(elem))
CollectKeys ==
  /\ pc = "keys"
  /\ seq1Keys' = KeysOf(Field, bundle[Field])
  /\ j' = 1
  /\ pc' = "scan"
  /\ UNCHANGED <<bundle, backfilled, original, fi, output>>

\* for elem in seq2: if keyFn(elem) not in seq1Keys: seq1.append(elem).
\* seq1Keys is not updated by the append.
ScanElem ==
  /\ pc = "scan"
  /\ j <= Len(backfilled[Field])
  /\ LET elem == backfilled[Field][j] IN
       bundle' = IF KeyFn(Field, elem) \notin seq1Keys
                   THEN [bundle EXCEPT ![Field] = Append(@, elem)]
                   ELSE bundle
  /\ j' = j + 1
  /\ UNCHANGED <<backfilled, original, fi, seq1Keys, pc, output>>

\* _merge_sequences_by_key returns; merge_config_bundles goes on with the
\* next field, or returns after the last.
FieldDone ==
  /\ pc = "scan"
  /\ j > Len(backfilled[Field])
  /\ IF fi < Len(Fields)
       THEN fi' = fi + 1 /\ pc' = "keys"
       ELSE pc' = "done" /\ UNCHANGED fi
  /\ UNCHANGED <<bundle, backfilled, original, seq1Keys, j, output>>

\* args.output.write_text(json_format.MessageToJson(config_bundle)).
WriteOutput ==
  /\ pc = "done"
  /\ output' = {bundle}
  /\ pc' = "written"
  /\ UNCHANGED <<bundle, backfilled, original, fi, seq1Keys, j>>

Next == ParseBundles \/ CollectKeys \/ ScanElem \/ FieldDone \/ WriteOutput

Spec == Init /\ [][Next]_vars /\ WF_vars(Next)

-----------------------------------------------------------------------------
TypeOK ==
  /\ bundle \in [Range(Fields) -> Seq(Ids)]
  /\ backfilled \in Bundles /\ original \in Bundles
  /\ fi \in FieldIndex
  /\ seq1Keys \subseteq Ids \cup Names
  /\ j \in 1..(MaxLen + 1)
  /\ pc \in {"parse", "keys", "scan", "done", "written", "failed"}
  /\ output \subseteq [Range(Fields) -> Seq(Ids)] /\ Cardinality(output) <= 1

\* _merge_sequences_by_key as its docstring states it: "For each element
\* in seq2, if seq1 does not contain the element, as determined by keyFn,
\* the element is added to seq1", each element tested against seq1 as it
\* stands, the elements added before it included.
AddIfAbsent(f, seq1, elem) ==
  IF KeyFn(f, elem) \in KeysOf(f, seq1) THEN seq1 ELSE Append(seq1, elem)

DocumentedMerge(f) ==
  FoldLeft(LAMBDA seq1, elem : AddIfAbsent(f, seq1, elem),
           original[f], backfilled[f])

(* The bundle main writes is, field by field, the merge the helper's       *)
(* docstring describes: the original list, then each backfilled element   *)
(* whose key the list does not yet contain.  Two backfilled elements with *)
(* one key (in design_list, two ids that differ only in case) give one    *)
(* element, not two.                                                      *)
MergeMatchesDocstring ==
  \A o \in output : \A f \in Range(Fields) : o[f] = DocumentedMerge(f)
=============================================================================
