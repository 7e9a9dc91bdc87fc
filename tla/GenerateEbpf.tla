----------------------------- MODULE GenerateEbpf -----------------------------
(***************************************************************************)
(* secagentd/tools/generate-ebpf.py, one invocation of either subcommand. *)
(*                                                                         *)
(* gen_skel (do_gen_bpf_skeleton): map --arch to a __TARGET_ARCH define,  *)
(* compile with bpf-clang, llvm-strip the object, bpftool gen skeleton    *)
(* and write its stdout to --out_header, then, for --out_min_btf, check   *)
(* --vmlinux_btf and run bpftool gen min_core_btf.                        *)
(*                                                                         *)
(* gen_vmlinux (do_gen_vmlinux): pahole writes the detached BTF; readelf  *)
(* finds the linux_banner symbol and its section; the banner read from    *)
(* vmlinux gives LINUX_VERSION_CODE; bpftool btf dump prints the C header *)
(* and the script writes it line by line, adding the define after the     *)
(* first "#define __VMLINUX_H__" line.                                    *)
(*                                                                         *)
(* Every _run_command may raise CalledProcessError, which main turns into *)
(* a return of -1.  Arguments, the readelf listings, the banner and the   *)
(* bpftool dump are inputs chosen in Init: the dump is a short sequence   *)
(* of lines, each the guard define or some other line; the banner is the  *)
(* version triple the regular expression extracts, or NoMatch.            *)
(***************************************************************************)
EXTENDS Naturals, Sequences, SequencesExt

CONSTANTS Versions, PatchLevels, SubLevels,  \* the banner's numbers
          MaxLines,                          \* length of the bpftool dump
          NoMatch                            \* a banner the regex rejects

Guard == "guard"        \* the line "#define __VMLINUX_H__"
Other == "other"        \* any other line of the dump
Define(code) == [define |-> code]

Triples == Versions \X PatchLevels \X SubLevels

VARIABLES sub,     \* the subcommand: "gen_skel" or "gen_vmlinux"
          args,    \* the options: known arch, --out_min_btf, --vmlinux_btf
          env,     \* what readelf, the banner and bpftool btf dump give
          pc,      \* the statement the script is at
          files,   \* output files written
          code,    \* linux_version_code, once computed (0 before)
          header,  \* the lines written to the vmlinux.h --out_header
          ret      \* main's return value, once pc is "exit"

vars == <<sub, args, env, pc, files, code, header, ret>>

Args == [arch : BOOLEAN, outBtf : BOOLEAN, vmlinuxBtf : BOOLEAN]
Env == [symbol : BOOLEAN, section : BOOLEAN, banner : Triples \cup {NoMatch},
        dump : BoundedSeq({Guard, Other}, MaxLines)]

\* Mutant: the sub-level is not capped at 255.
VersionCodeNoClamp(t) == t[1] * 65536 + t[2] * 256 + t[3]

\* linux_version_code from the banner's version, patch level, sub-level.
VersionCode(t) ==
  t[1] * 65536 + t[2] * 256 + (IF t[3] < 255 THEN t[3] ELSE 255)

\* Mutant: the written flag is never set, so every guard line gets one.
RECURSIVE WriteLinesEveryGuard(_, _, _)
WriteLinesEveryGuard(lines, c, written) ==
  IF lines = <<>> THEN <<>>
  ELSE <<Head(lines)>>
       \o (IF ~written /\ Head(lines) = Guard THEN <<Define(c)>> ELSE <<>>)
       \o WriteLinesEveryGuard(Tail(lines), c, written)

\* The write loop of do_gen_vmlinux: each dump line, and the define after
\* the first guard line.
RECURSIVE WriteLines(_, _, _)
WriteLines(lines, c, written) ==
  IF lines = <<>> THEN <<>>
  ELSE IF ~written /\ Head(lines) = Guard
         THEN <<Head(lines), Define(c)>> \o WriteLines(Tail(lines), c, TRUE)
         ELSE <<Head(lines)>> \o WriteLines(Tail(lines), c, written)

\* Mutant: gen_skel.set_defaults(func=do_gen_vmlinux), a copy-paste slip.
InitFuncSwapped ==
  /\ \/ sub = "gen_skel" /\ args \in Args
        /\ env = [symbol |-> TRUE, section |-> TRUE, banner |-> NoMatch,
                  dump |-> <<>>]
     \/ sub = "gen_vmlinux" /\ env \in Env
        /\ args = [arch |-> TRUE, outBtf |-> FALSE, vmlinuxBtf |-> FALSE]
  /\ pc = "pahole"
  /\ files = {} /\ code = 0 /\ header = <<>> /\ ret = 0

\* main's subparsers: the subcommand and its options; set_defaults(func)
\* picks the function that runs.
Init ==
  /\ \/ sub = "gen_skel" /\ args \in Args
        /\ env = [symbol |-> TRUE, section |-> TRUE, banner |-> NoMatch,
                  dump |-> <<>>]
     \/ sub = "gen_vmlinux" /\ env \in Env
        /\ args = [arch |-> TRUE, outBtf |-> FALSE, vmlinuxBtf |-> FALSE]
  /\ pc = IF sub = "gen_skel" THEN "arch" ELSE "pahole"
  /\ files = {} /\ code = 0 /\ header = <<>> /\ ret = 0

\* The function returns r to main, which returns it.
Return(r) == ret' = r /\ pc' = "exit"

\* _run_command raised CalledProcessError: main prints it and returns -1.
Raise == Return(-1) /\ UNCHANGED <<files, code, header>>

\* A statement that runs one external command: on success the script
\* goes on to next, with outs written.
Run(s, next, outs) ==
  /\ pc = s
  /\ \/ pc' = next /\ files' = files \cup outs /\ UNCHANGED <<code, header, ret>>
     \/ Raise
  /\ UNCHANGED <<sub, args, env>>

-----------------------------------------------------------------------------
(* do_gen_bpf_skeleton                                                     *)

\* arch_to_define.get(arch, None): an unknown arch returns -1.
MapArch ==
  /\ pc = "arch"
  /\ IF args.arch THEN pc' = "clang" /\ UNCHANGED ret ELSE Return(-1)
  /\ UNCHANGED <<sub, args, env, files, code, header>>

Compile == Run("clang", "strip", {"obj"})
Strip == Run("strip", "skeleton", {})

\* bpftool gen skeleton; its stdout is written to out_header.
GenSkeleton == Run("skeleton", "btf", {"header"})

\* Mutant: the min BTF is skipped, with success, when --vmlinux_btf is
\* missing.
CheckBtfArgsSkips ==
  /\ pc = "btf"
  /\ IF args.outBtf /\ args.vmlinuxBtf THEN pc' = "min_btf" /\ UNCHANGED ret
                                        ELSE Return(0)
  /\ UNCHANGED <<sub, args, env, files, code, header>>

\* if out_btf: a missing vmlinux_btf returns -1; else return 0.
CheckBtfArgs ==
  /\ pc = "btf"
  /\ CASE ~args.outBtf       -> Return(0)
       [] ~args.vmlinuxBtf   -> Return(-1)
       [] OTHER              -> pc' = "min_btf" /\ UNCHANGED ret
  /\ UNCHANGED <<sub, args, env, files, code, header>>

\* bpftool gen min_core_btf, then return 0.
GenMinBtf ==
  /\ pc = "min_btf"
  /\ \/ files' = files \cup {"min_btf"} /\ Return(0)
     \/ Raise
  /\ UNCHANGED <<sub, args, env, code, header>>

-----------------------------------------------------------------------------
(* do_gen_vmlinux                                                          *)

\* mkdir of the BTF directory and pahole --btf_encode_detached.
Pahole == Run("pahole", "symbols", {"btf"})

\* readelf --symbols, then the search for linux_banner (for/else).
ReadSymbols ==
  /\ pc = "symbols"
  /\ \/ IF env.symbol THEN pc' = "sections" /\ UNCHANGED ret ELSE Return(1)
     \/ Return(-1)
  /\ UNCHANGED <<sub, args, env, files, code, header>>

\* readelf --sections, then the search for the banner's section.
ReadSections ==
  /\ pc = "sections"
  /\ \/ IF env.section THEN pc' = "banner" /\ UNCHANGED ret ELSE Return(1)
     \/ Return(-1)
  /\ UNCHANGED <<sub, args, env, files, code, header>>

\* The banner read from vmlinux at the symbol's file offset, matched
\* against "Linux version (\d+).(\d+).(\d+)", and linux_version_code.
ReadBanner ==
  /\ pc = "banner"
  /\ IF env.banner = NoMatch
       THEN Return(1) /\ UNCHANGED code
       ELSE code' = VersionCode(env.banner) /\ pc' = "dump" /\ UNCHANGED ret
  /\ UNCHANGED <<sub, args, env, files, header>>

\* bpftool btf dump; its lines are written to out_header with the define;
\* no guard line means no define and a return of 1, the file written.
DumpVmlinux ==
  /\ pc = "dump"
  /\ \/ /\ header' = WriteLines(env.dump, code, FALSE)
        /\ files' = files \cup {"vmlinux_h"}
        /\ Return(IF Guard \in Range(env.dump) THEN 0 ELSE 1)
     \/ Raise
  /\ UNCHANGED <<sub, args, env, code>>

Next ==
  \/ MapArch \/ Compile \/ Strip \/ GenSkeleton \/ CheckBtfArgs \/ GenMinBtf
  \/ Pahole \/ ReadSymbols \/ ReadSections \/ ReadBanner \/ DumpVmlinux

Spec == Init /\ [][Next]_vars

-----------------------------------------------------------------------------
TypeOK ==
  /\ sub \in {"gen_skel", "gen_vmlinux"} /\ args \in Args /\ env \in Env
  /\ files \subseteq IF sub = "gen_skel" THEN {"obj", "header", "min_btf"}
                                         ELSE {"btf", "vmlinux_h"}
  /\ code \in Nat /\ ret \in {0, 1, -1}

LexLess(t, u) ==
  \/ t[1] < u[1]
  \/ t[1] = u[1] /\ t[2] < u[2]
  \/ t[1] = u[1] /\ t[2] = u[2] /\ t[3] < u[3]

(* The LINUX_VERSION_CODE computed from the banner orders the kernel     *)
(* against every release as their (version, patch level, sub-level)      *)
(* triples do, so that a BPF program's comparison with KERNEL_VERSION(a,  *)
(* b, c) means "at least that release": sub-levels past 255 (4.9.256 and *)
(* later) are capped rather than carried into the patch level.  Patch    *)
(* levels stay below 256, as the kernel's own macro needs.                *)
VersionCodeOrdered ==
  code # 0 =>
    \A t \in Triples :
      /\ LexLess(t, env.banner) => VersionCode(t) <= code
      /\ LexLess(env.banner, t) => code <= VersionCode(t)

(* The vmlinux.h written is the bpftool dump with exactly one              *)
(* LINUX_VERSION_CODE define, carrying the banner's code, right after the *)
(* first include-guard line; gen_vmlinux succeeds exactly when the dump   *)
(* has that line.                                                         *)
VmlinuxHeaderMatchesDump ==
  "vmlinux_h" \in files =>
    LET g == SelectInSeq(env.dump, LAMBDA l : l = Guard)
    IN /\ header = IF g = 0 THEN env.dump
                   ELSE InsertAt(env.dump, g + 1, Define(VersionCode(env.banner)))
       /\ ret = IF g = 0 THEN 1 ELSE 0

(* A zero exit means every output the invocation asked for was written:   *)
(* the object and header, and the min CO-RE BTF for --out_min_btf; or the *)
(* detached BTF and vmlinux.h.                                            *)
Requested ==
  IF sub = "gen_skel"
    THEN {"obj", "header"} \cup (IF args.outBtf THEN {"min_btf"} ELSE {})
    ELSE {"btf", "vmlinux_h"}

SuccessMeansOutputs == pc = "exit" /\ ret = 0 => Requested \subseteq files
=============================================================================
