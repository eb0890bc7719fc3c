------------------------------ MODULE HostTools ------------------------------
(***************************************************************************)
(* The other programs of the build host.  tools/bintoc.c turns a binary    *)
(* into a C array, which ENV_CREATE names; tools/readelf lists the section *)
(* addresses of an ELF file.  Files of the host may be missing or short.   *)
(***************************************************************************)
EXTENDS Integers, Sequences

CONSTANTS
  MAXARGS,   \* bound: arguments of bintoc
  BMAX,      \* bytes bintoc has room for
  MAXSEC     \* bound: sections of an ELF file

ASSUME ToolsAssumption == {MAXARGS, BMAX, MAXSEC} \subseteq Nat \ {0}

(* args[i] of bintoc: "name" is one that does not begin with '-', "-" any   *)
(* other option.                                                            *)
Arg == {"-f", "-o", "-p", "-h", "-", "name"}
NONE == 0

VARIABLES
  argv,    \* the arguments of bintoc
  argi,    \* i of its first loop
  opt,     \* bin_file, out_file and prefix, as positions in argv
  tpc,     \* where bintoc is, or how it ended
  binary,  \* the bytes of the input file
  ctext    \* what has been written to the output file

bintocvars == <<argv, argi, opt, tpc, binary, ctext>>

BintocStart(args, bin) ==
  /\ argv = args
  /\ argi = 1
  /\ opt = [f |-> NONE, o |-> NONE, p |-> NONE]
  /\ tpc = "args"
  /\ binary = bin
  /\ ctext = <<>>

BintocInit ==
  \E n \in 0 .. MAXARGS, size \in 0 .. BMAX :
    \E args \in [1 .. n -> Arg] : BintocStart(args, [k \in 1 .. size |-> k])

(* The option letter takes the next argument, which must be there, and only *)
(* once.                                                                    *)
Take(letter) ==
  IF argi < Len(argv) /\ opt[letter] = NONE
  THEN opt' = [opt EXCEPT ![letter] = argi + 1] /\ argi' = argi + 2 /\ tpc' = tpc
  ELSE tpc' = "assert" /\ UNCHANGED <<opt, argi>>

ParseArg ==
  /\ tpc = "args" /\ argi <= Len(argv)
  /\ CASE argv[argi] = "name" -> argi' = argi + 1 /\ UNCHANGED <<opt, tpc>>
       [] argv[argi] = "-f" -> Take("f")
       [] argv[argi] = "-o" -> Take("o")
       [] argv[argi] = "-p" -> Take("p")
       [] OTHER -> tpc' = "help" /\ UNCHANGED <<opt, argi>>
  /\ UNCHANGED <<argv, binary, ctext>>

(* Both files are needed; they are opened before the name is cut at its     *)
(* first '.'.                                                               *)
OpenFiles ==
  /\ tpc = "args" /\ argi > Len(argv)
  /\ tpc' \in IF NONE \in {opt.f, opt.o} THEN {"assert"} ELSE {"read", "assert"}
  /\ UNCHANGED <<argv, argi, opt, binary, ctext>>

(* The file must fit, and be read as a whole. *)
ReadBinary ==
  /\ tpc = "read"
  /\ tpc' \in IF Len(binary) < BMAX THEN {"bytes", "assert"} ELSE {"assert"}
  /\ ctext' = IF tpc' = "bytes" THEN <<"size", Len(binary), "start[] = {">> ELSE ctext
  /\ argi' = 0
  /\ UNCHANGED <<argv, opt, binary>>

(* Mutant of WriteByte: every byte is followed by a comma. *)
WriteByteComma ==
  /\ tpc = "bytes" /\ argi < Len(binary)
  /\ ctext' = ctext \o <<binary[argi + 1], IF argi < Len(binary) THEN "," ELSE "}">>
  /\ argi' = argi + 1
  /\ UNCHANGED <<argv, opt, tpc, binary>>

WriteByte ==
  /\ tpc = "bytes" /\ argi < Len(binary)
  /\ ctext' = ctext \o <<binary[argi + 1], IF argi < Len(binary) - 1 THEN "," ELSE "}">>
  /\ argi' = argi + 1
  /\ UNCHANGED <<argv, opt, tpc, binary>>

CloseFiles ==
  /\ tpc = "bytes" /\ argi = Len(binary)
  /\ ctext' = Append(ctext, ";")
  /\ tpc' = "written"
  /\ UNCHANGED <<argv, argi, opt, binary>>

BintocNext == ParseArg \/ OpenFiles \/ ReadBinary \/ WriteByte \/ CloseFiles

BintocSpec == BintocInit /\ [][BintocNext]_bintocvars
-----------------------------------------------------------------------------
(* ELF files as readelf sees them: the fields of Elf32_Ehdr it reads, and   *)
(* the sh_addr it finds if it takes the bytes at an offset for an           *)
(* Elf32_Shdr.  The files are 32-bit ones: EI_CLASS is not looked at.       *)
ELFMAG32 == <<127, 69, 76, 70>>
e_ident == {ELFMAG32} \cup {[ELFMAG32 EXCEPT ![k] = 0] : k \in 1 .. 4}
Elf32_Ehdr ==
  [size : {0, 52, 64}, ident : e_ident, e_shoff : {20}, e_shentsize : {5, 6}, e_shnum : 0 .. MAXSEC]
SIZEOF_EHDR32 == 52

(* The table of section headers, entry n at its place: entry n has sh_addr  *)
(* 100 + n.                                                                 *)
sh_addr(h, off) ==
  LET n == (off - h.e_shoff) \div h.e_shentsize
  IN  IF (off - h.e_shoff) % h.e_shentsize = 0 /\ n \in 0 .. h.e_shnum - 1 THEN 100 + n ELSE 0

VARIABLES
  ehdr,    \* the file
  seci,    \* i of readelf's loop
  rpc,     \* where readelf's main is, or what it returned
  listing  \* what has been printed

readelfvars == <<ehdr, seci, rpc, listing>>

ReadelfStart(h) ==
  /\ ehdr = h
  /\ seci = 0
  /\ rpc = "main"
  /\ listing = <<>>

ReadelfInit == \E h \in Elf32_Ehdr : ReadelfStart(h)

(* No argument, a file that cannot be opened or sized, or no memory: 1.  A  *)
(* file that cannot be read goes on with what malloc returned, since        *)
(* fread's result is never negative; it is as if it were another file.      *)
OpenElf ==
  /\ rpc = "main"
  /\ rpc' \in {"1", "readelf"}
  /\ ehdr' \in IF rpc' = "readelf" THEN {[ehdr EXCEPT !.ident = m] : m \in e_ident} ELSE {ehdr}
  /\ UNCHANGED <<seci, listing>>

is_elf_format == ehdr.size >= SIZEOF_EHDR32 /\ ehdr.ident = ELFMAG32

NotElf ==
  /\ rpc = "readelf" /\ ~is_elf_format
  /\ rpc' = "-1"
  /\ UNCHANGED <<ehdr, seci, listing>>

ListSection ==
  /\ rpc = "readelf" /\ is_elf_format /\ seci < ehdr.e_shnum
  /\ listing' = Append(listing, <<seci, sh_addr(ehdr, ehdr.e_shoff + seci * ehdr.e_shentsize)>>)
  /\ seci' = seci + 1
  /\ UNCHANGED <<ehdr, rpc>>

Listed0 ==
  /\ rpc = "readelf" /\ is_elf_format /\ seci = ehdr.e_shnum
  /\ rpc' = "0"
  /\ UNCHANGED <<ehdr, seci, listing>>

ReadelfNext == OpenElf \/ NotElf \/ ListSection \/ Listed0

ReadelfSpec == ReadelfInit /\ [][ReadelfNext]_readelfvars
-----------------------------------------------------------------------------
(* The C file bintoc writes declares the size and the bytes of the file     *)
(* named behind -f, and its initialiser is closed, unless the file is empty *)
(* (bintoc.c:73-75); an option that lacks its value, or is given twice, or  *)
(* is itself the value of another one, never leads there.                   *)
ToolsExact ==
  /\ tpc = "written" =>
       LET n == Len(binary)
       IN  /\ argv[opt.f - 1] = "-f" /\ argv[opt.o - 1] = "-o" /\ opt.f # opt.o
           /\ opt.f - 1 # opt.o /\ opt.o - 1 # opt.f
           /\ n > 0 => /\ Len(ctext) = 4 + 2 * n
                       /\ ctext[2] = n
                       /\ \A k \in 1 .. n : ctext[2 + 2 * k] = binary[k]
                       /\ \A k \in 1 .. n : ctext[3 + 2 * k] = IF k < n THEN "," ELSE "}"
  /\ rpc = "0" => ehdr.ident = ELFMAG32 /\ listing = [k \in 1 .. ehdr.e_shnum |-> <<k - 1, 100 + k - 1>>]
  /\ rpc \in {"1", "-1"} => listing = <<>>
=============================================================================
