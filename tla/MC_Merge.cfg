CONSTANTS
  Fields <- MCFields
  Names = {"x", "y"}
  MaxLen = 2
SPECIFICATION Spec
INVARIANT MergeMatchesDocstring
\* merge_config_bundles returns once every field is merged.
CHECK_DEADLOCK FALSE
