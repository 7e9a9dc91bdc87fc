CONSTANTS
  im1 = im1
  im2 = im2
  Images <- TwoImages
SPECIFICATION Spec
INVARIANT TypeOK ImagesEnsuredBeforeAnyVm VmLeftOnlyByVmCommands DoneMeansAllUploaded DanglingExternalOnlyOnFailure
PROPERTY OneVmAtATime
\* The script ends, successfully or with an exception.
CHECK_DEADLOCK FALSE
