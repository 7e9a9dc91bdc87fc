----------------------------- MODULE Experiment -----------------------------
(***************************************************************************)
(* The decision tables of a fingerprint study and the consistency check   *)
(* of Experiment (experiment.py, whose source is not in this tree: every  *)
(* definition here is modelled from the design document, sections 3 and   *)
(* 4.1, and from the tests in experiment_test.py).                        *)
(*                                                                         *)
(* A decision row is a record of the six required columns.  The columns   *)
(* are named by strings so that an index can be built over any ordered    *)
(* list of them, as fpsutils.DataFrameSetAccess does.                     *)
(***************************************************************************)
LOCAL INSTANCE Naturals
LOCAL INSTANCE Sequences

CONSTANTS Users,    \* user ids (Experiment.user_list())
          Fingers,  \* finger ids (Experiment.finger_list())
          Samples   \* verification sample indices (Experiment.sample_list())

Accept == "ACCEPT"
Reject == "REJECT"

\* One row of a FAR or FRR decision table.
DecisionRow ==
  [ EnrollUser : Users, EnrollFinger : Fingers,
    VerifyUser : Users, VerifyFinger : Fingers,
    VerifySample : Samples, Decision : {Accept, Reject} ]

\* A genuine attempt: same user and same finger.
IsGenuine(r) == r.EnrollUser = r.VerifyUser /\ r.EnrollFinger = r.VerifyFinger

\* Experiment.check() on the decision tables: it raises when the FAR table
\* holds a genuine attempt (design document, section 4.1: the same user
\* with another finger is an impostor attempt, as the FAR sampler's
\* template-user loop also allows) or an FRR row is not a genuine attempt.
CheckFAR(far) == \A r \in far : ~IsGenuine(r)
CheckFRR(frr) == \A r \in frr : IsGenuine(r)

\* Experiment.fa_table(): the false accepts, i.e. accepted FAR rows.
FATable(far) == {r \in far : r.Decision = Accept}

\* Experiment.fr_table(): the false rejects, i.e. rejected FRR rows.
FRTable(frr) == {r \in frr : r.Decision = Reject}

\* A row projected onto an ordered list of columns: one tuple of the
\* index built by DataFrameSetAccess(table, cols).
Project(r, cols) == [i \in 1..Len(cols) |-> r[cols[i]]]

ProjectTable(table, cols) == {Project(r, cols) : r \in table}
=============================================================================
