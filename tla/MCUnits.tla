------------------------------- MODULE MCUnits -------------------------------
(***************************************************************************)
(* The parts of the kernel that call no other part, and the programs of    *)
(* the build host, in one run: each behaviour is one of one unit, while    *)
(* the others stay where they began.                                       *)
(***************************************************************************)
EXTENDS Queue, ElfLoad, StringOps, Format, Frame, FsImage, HostTools

VARIABLE unit  \* the unit at work

(* Registers that all differ, so that one in the wrong place shows. *)
MCRegs == {[r \in Reg |-> n + r] : n \in {100, 200}}
MCLeft == {[r \in Reg |-> 900 + r]}
MCTraps == {[sstatus |-> status, sepc |-> 50, stval |-> 51, scause |-> 52] :
              status \in {0, 2^5, SPP, SPP + 2^5}}

kernelvars == <<vars, elfvars, strvars, fmtvars, framevars>>
hostvars == <<fsvars, bintocvars, readelfvars>>

MCInit ==
  /\ unit \in {"queue", "elf", "string", "format", "frame", "fsformat", "bintoc", "readelf"}
  /\ Init
  /\ IF unit = "elf" THEN ElfInit
     ELSE ElfStart([size |-> SIZEOF_EHDR, type |-> ET_EXEC, ident |-> ELFMAG], <<>>)
  /\ IF unit = "string" THEN StrInit ELSE StrStart(Call("memset", 0, 0, 0, Distinct))
  /\ IF unit = "format" THEN FmtInit ELSE FmtStart(<<Text(<<>>), Text(<<>>), Text(<<>>)>>)
  /\ IF unit = "frame" THEN FrameInit ELSE FrameStart(CHOOSE regs \in REGS : TRUE, CHOOSE c \in TRAPS : TRUE)
  /\ FsInit
  /\ IF unit = "bintoc" THEN BintocInit ELSE BintocStart(<<>>, <<>>)
  /\ IF unit = "readelf" THEN ReadelfInit ELSE ReadelfStart(CHOOSE h \in Elf32_Ehdr : TRUE)

UseQueue ==
  /\ unit = "queue" /\ Next
  /\ UNCHANGED <<unit, elfvars, strvars, fmtvars, framevars, hostvars>>

LoadElf ==
  /\ unit = "elf" /\ ElfNext
  /\ UNCHANGED <<unit, vars, strvars, fmtvars, framevars, hostvars>>

CallString ==
  /\ unit = "string" /\ StrNext
  /\ UNCHANGED <<unit, vars, elfvars, fmtvars, framevars, hostvars>>

PrintFormat ==
  /\ unit = "format" /\ FmtNext
  /\ UNCHANGED <<unit, vars, elfvars, strvars, framevars, hostvars>>

TakeTrap ==
  /\ unit = "frame" /\ FrameNext
  /\ UNCHANGED <<unit, vars, elfvars, strvars, fmtvars, hostvars>>

RunFsformat ==
  /\ unit = "fsformat" /\ FsNext
  /\ UNCHANGED <<unit, kernelvars, bintocvars, readelfvars>>

RunBintoc ==
  /\ unit = "bintoc" /\ BintocNext
  /\ UNCHANGED <<unit, kernelvars, fsvars, readelfvars>>

RunReadelf ==
  /\ unit = "readelf" /\ ReadelfNext
  /\ UNCHANGED <<unit, kernelvars, fsvars, bintocvars>>

MCNext ==
  \/ UseQueue \/ LoadElf \/ CallString \/ PrintFormat \/ TakeTrap
  \/ RunFsformat \/ RunBintoc \/ RunReadelf

MCSpec == MCInit /\ [][MCNext]_<<unit, kernelvars, hostvars>>
=============================================================================
