-------------------------- MODULE CrossVersionLogin --------------------------
(***************************************************************************)
(* prepare_cross_version_login_data.py: main first makes sure every image *)
(* of the list exists in Google Storage (ensure_vm_image), then calls run  *)
(* for each image in turn.  run prepares a temporary directory (the SSH   *)
(* key, the downloaded and unpacked image), starts the VM, and inside     *)
(* try/finally takes TPM ownership on pre-M96 images, runs the Tast test  *)
(* and, when there is an output directory, upload_data: copy the data     *)
(* archive and the config from the DUT, write the .external file that    *)
(* points to the archive's GS URL, and gsutil cp the archive there.  The *)
(* finally clause stops the VM.                                          *)
(*                                                                         *)
(* Every external command (util.check_run) may fail; the exception ends   *)
(* the script.  Images, versions and paths are model values; which images *)
(* are in GS, which are pre-M96 and whether an output directory was given *)
(* are chosen in Init.                                                   *)
(***************************************************************************)
EXTENDS Naturals, Sequences, SequencesExt

CONSTANT Images   \* image_info_list, in the order main builds it

VARIABLES phase,    \* "ensure", "run", "done" or "failed"
          i,        \* index of the image main is at
          step,     \* where run(image_info_list[i]) is
          vm,       \* the VM emulator is running
          err,      \* an exception is pending through the finally clause
          failedAt, \* the step whose command raised the exception
          inGS,     \* images gsutil finds in Google Storage
          old,      \* images with milestone < 96
          outDir,   \* --output-dir or --output-tast was given
          started,  \* images whose VM start_vm was called for
          configs,  \* images with a _config.json in the output directory
          exts,     \* images with a .external file in the output directory
          gs        \* images whose data archive was uploaded

vars == <<phase, i, step, vm, err, failedAt, inGS, old, outDir, started,
          configs, exts, gs>>

Steps == {"next", "prepare", "start", "init", "generate", "copy_data",
          "copy_config", "write_ext", "upload", "stop"}

Img == Images[i]

Init ==
  /\ phase = "ensure" /\ i = 1 /\ step = "next"
  /\ vm = FALSE /\ err = FALSE /\ failedAt = "none"
  /\ inGS \in SUBSET Range(Images)
  /\ old \in SUBSET Range(Images)
  /\ outDir \in BOOLEAN
  /\ started = {} /\ configs = {} /\ exts = {} /\ gs = {}

Frozen == UNCHANGED <<inGS, old, outDir>>
Outputs == UNCHANGED <<started, configs, exts, gs>>

\* A command outside the try (before start_vm returned) raises: the
\* script ends with nothing to clean up but the temporary directory.
Abort(s) ==
  /\ phase' = "failed" /\ failedAt' = s
  /\ UNCHANGED <<i, step, err>>

\* A command inside the try raises: the finally clause runs stop_vm.
Raise(s) ==
  /\ err' = TRUE /\ failedAt' = s /\ step' = "stop"
  /\ UNCHANGED <<phase, i>>

\* The try block goes on to the next statement.
Then(s) == step' = s /\ UNCHANGED <<phase, i, err, failedAt>>

-----------------------------------------------------------------------------
(* main: "First, ensure the existence of image(s) to use."                *)

\* Mutant: the loop that ensures the images stops before the last one.
EnsureSkipsLast ==
  /\ phase = "ensure"
  /\ IF i < Len(Images)
       THEN \/ Img \in inGS /\ i' = i + 1 /\ UNCHANGED <<phase, failedAt>>
            \/ phase' = "failed" /\ failedAt' = "ensure" /\ UNCHANGED i
       ELSE phase' = "run" /\ i' = 1 /\ UNCHANGED failedAt
  /\ UNCHANGED <<step, vm, err>> /\ Frozen /\ Outputs

\* get_latest_version (gsutil cat, for --milestones) and ensure_vm_image
\* (gsutil ls): either raises for an image GS does not hold, or for any
\* failure of gsutil; the loop ends by going on to the runs.
EnsureVmImage ==
  /\ phase = "ensure"
  /\ IF i <= Len(Images)
       THEN \/ Img \in inGS /\ i' = i + 1 /\ UNCHANGED <<phase, failedAt>>
            \/ phase' = "failed" /\ failedAt' = "ensure" /\ UNCHANGED i
       ELSE phase' = "run" /\ i' = 1 /\ UNCHANGED failedAt
  /\ UNCHANGED <<step, vm, err>> /\ Frozen /\ Outputs

\* Mutant: main returns before the last image's run.
NextImageSkipsLast ==
  /\ phase = "run" /\ step = "next"
  /\ IF i < Len(Images)
       THEN step' = "prepare" /\ UNCHANGED phase
       ELSE phase' = "done" /\ UNCHANGED step
  /\ UNCHANGED <<i, vm, err, failedAt>> /\ Frozen /\ Outputs

\* for image_info in image_info_list: run(...); main returns after the last.
NextImage ==
  /\ phase = "run" /\ step = "next"
  /\ IF i <= Len(Images)
       THEN step' = "prepare" /\ UNCHANGED phase
       ELSE phase' = "done" /\ UNCHANGED step
  /\ UNCHANGED <<i, vm, err, failedAt>> /\ Frozen /\ Outputs

-----------------------------------------------------------------------------
(* run(image_info, output_dir, ssh_identity_file)                          *)

\* The hsm subdirectory's mkdir, setup_ssh_identity and download_vm_image
\* (gsutil cp, tar, the unpacked image's existence): any of them raises,
\* always so for an image that is not in GS.
Prepare ==
  /\ phase = "run" /\ step = "prepare"
  /\ \/ Img \in inGS /\ Then("start")
     \/ Abort("prepare")
  /\ UNCHANGED vm /\ Frozen /\ Outputs

\* start_vm, before the try: a failing `cros vm --start` is not followed by
\* stop_vm, and may have left the emulator running.
StartVm ==
  /\ phase = "run" /\ step = "start"
  /\ started' = started \cup {Img}
  /\ \/ vm' = TRUE /\ Then("init")
     \/ \E up \in BOOLEAN : vm' = up /\ Abort("start")
  /\ Frozen /\ UNCHANGED <<configs, exts, gs>>

\* Mutant: init_vm called before the try, as start_vm is.
InitVmOutsideTry ==
  /\ phase = "run" /\ step = "init"
  /\ IF Img \in old
       THEN \/ Then("generate") \/ Abort("init")
       ELSE Then("generate")
  /\ UNCHANGED vm /\ Frozen /\ Outputs

\* init_vm: `tpm_manager_client take_ownership` over ssh on pre-M96 images.
InitVm ==
  /\ phase = "run" /\ step = "init"
  /\ IF Img \in old
       THEN \/ Then("generate") \/ Raise("init")
       ELSE Then("generate")
  /\ UNCHANGED vm /\ Frozen /\ Outputs

\* generate_data: the Tast test hwsec.PrepareCrossVersionLoginData; then
\* upload_data only "if output_dir".
GenerateData ==
  /\ phase = "run" /\ step = "generate"
  /\ \/ Then(IF outDir THEN "copy_data" ELSE "stop")
     \/ Raise("generate")
  /\ UNCHANGED vm /\ Frozen /\ Outputs

\* Mutant: upload_data without the copy of config.json.
CopyDataSkipsConfig ==
  /\ phase = "run" /\ step = "copy_data"
  /\ Then("write_ext") \/ Raise("copy_data")
  /\ UNCHANGED vm /\ Frozen /\ Outputs

\* upload_data: dut.copy of data.tar.gz into the temporary directory.
CopyData ==
  /\ phase = "run" /\ step = "copy_data"
  /\ Then("copy_config") \/ Raise("copy_data")
  /\ UNCHANGED vm /\ Frozen /\ Outputs

\* dut.copy of config.json into output_dir.
CopyConfig ==
  /\ phase = "run" /\ step = "copy_config"
  /\ \/ configs' = configs \cup {Img} /\ Then("write_ext")
     \/ UNCHANGED configs /\ Raise("copy_config")
  /\ UNCHANGED <<vm, started, exts, gs>> /\ Frozen

\* generate_external_data (size and sha256 of the local archive) written
\* to {data_file}.external in output_dir.
WriteExternal ==
  /\ phase = "run" /\ step = "write_ext"
  /\ exts' = exts \cup {Img}
  /\ Then("upload")
  /\ UNCHANGED <<vm, started, configs, gs>> /\ Frozen

\* Mutant: the upload run without checking gsutil's exit status.
UploadIgnoresError ==
  /\ phase = "run" /\ step = "upload"
  /\ \/ gs' = gs \cup {Img} /\ Then("stop")
     \/ UNCHANGED gs /\ Then("stop")
  /\ UNCHANGED <<vm, started, configs, exts>> /\ Frozen

\* gsutil cp of the archive to the URL the .external file names.
UploadData ==
  /\ phase = "run" /\ step = "upload"
  /\ \/ gs' = gs \cup {Img} /\ Then("stop")
     \/ UNCHANGED gs /\ Raise("upload")
  /\ UNCHANGED <<vm, started, configs, exts>> /\ Frozen

\* Mutant: stop_vm in an except clause instead of finally.
StopVmOnError ==
  /\ phase = "run" /\ step = "stop"
  /\ IF err
       THEN vm' = FALSE /\ phase' = "failed" /\ UNCHANGED <<i, step>>
       ELSE i' = i + 1 /\ step' = "next" /\ UNCHANGED <<vm, phase>>
  /\ UNCHANGED <<err, failedAt>> /\ Frozen /\ Outputs

\* finally: stop_vm.  The pending exception, if any, then ends the script;
\* otherwise main goes on with the next image.  A failing `cros vm --stop`
\* raises in its place and may leave the emulator running.
StopVm ==
  /\ phase = "run" /\ step = "stop"
  /\ \/ /\ vm' = FALSE
        /\ IF err
             THEN phase' = "failed" /\ UNCHANGED <<i, step>>
             ELSE i' = i + 1 /\ step' = "next" /\ UNCHANGED phase
        /\ UNCHANGED failedAt
     \/ /\ \E up \in BOOLEAN : vm' = up
        /\ phase' = "failed" /\ failedAt' = "stop"
        /\ UNCHANGED <<i, step>>
  /\ UNCHANGED err /\ Frozen /\ Outputs

Next ==
  \/ EnsureVmImage \/ NextImage \/ Prepare \/ StartVm \/ InitVm
  \/ GenerateData \/ CopyData \/ CopyConfig \/ WriteExternal \/ UploadData
  \/ StopVm

Spec == Init /\ [][Next]_vars /\ WF_vars(Next)

Ended == phase \in {"done", "failed"}

-----------------------------------------------------------------------------
TypeOK ==
  /\ phase \in {"ensure", "run", "done", "failed"}
  /\ i \in 1..(Len(Images) + 1) /\ step \in Steps
  /\ vm \in BOOLEAN /\ err \in BOOLEAN
  /\ failedAt \in Steps \cup {"none", "ensure"}
  /\ outDir \in BOOLEAN
  /\ \A S \in {inGS, old, started, configs, exts, gs} : S \subseteq Range(Images)
  /\ gs \subseteq exts /\ exts \subseteq configs /\ configs \subseteq started

(* No VM is started, and nothing is written, unless every image of the   *)
(* list was found in GS: main checks them all before the first run.       *)
ImagesEnsuredBeforeAnyVm == started # {} => Range(Images) \subseteq inGS

(* start_vm is never called while an emulator from an earlier image is    *)
(* still up: the finally clause stops each VM before main goes on.        *)
OneVmAtATime == [][StartVm => ~vm]_vars

(* When the script ends, an emulator is left running only if start_vm or *)
(* stop_vm itself failed: every other failure passes through finally.     *)
VmLeftOnlyByVmCommands == (Ended /\ vm) => failedAt \in {"start", "stop"}

(* A run that ends without an exception has, for every image, the config, *)
(* the .external file and the uploaded archive, when output was asked for.*)
DoneMeansAllUploaded ==
  (phase = "done" /\ outDir) => Range(Images) \subseteq configs \cap exts \cap gs

(* upload_data writes the .external file before the gsutil upload, so a  *)
(* failed upload leaves a pointer to an archive GS does not hold.  Such a *)
(* dangling pointer is left only by a script that ends with an exception, *)
(* and only for the image whose run raised: earlier images' archives were *)
(* all uploaded before main went on.                                     *)
DanglingExternalOnlyOnFailure ==
  (Ended /\ exts \ gs # {}) => phase = "failed" /\ exts \ gs = {Img}

(* When the script ends, every .external file it wrote names an archive   *)
(* that was uploaded to GS (the Tast test fetches it by that URL).        *)
ExternalDataUploaded == Ended => exts \subseteq gs
=============================================================================
