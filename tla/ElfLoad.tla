------------------------------- MODULE ElfLoad -------------------------------
(***************************************************************************)
(* load_icode, with elf_load_seg of lib/elfloader.c and its callback       *)
(* load_icode_mapper, byte by byte.                                        *)
(*                                                                         *)
(* The page table is a map from addresses to bytes.  The pages kalloc and  *)
(* walk need are not counted: the pool may turn out to be empty at any     *)
(* call, and stays so, since nothing is freed while an image is loaded.    *)
(***************************************************************************)
EXTENDS Integers, Sequences

CONSTANTS
  PAGE_SIZE,
  MAXVA,     \* end of the user's address space
  VADDRS,    \* p_vaddr of segments
  MAXSIZE,   \* bound on p_memsz
  MAXPH      \* bound on e_phnum

Addr == 0 .. MAXVA - 1

PT_NULL == 0
PT_LOAD == 1
PF_X == 2^0
PF_W == 2^1
PF_R == 2^2

(* Program headers: p_filesz <= p_memsz, as in every ELF file.  Of those    *)
(* that are not loaded one for each address is enough.                      *)
Phdr ==
  {ph \in [type : {PT_NULL, PT_LOAD}, flags : {PF_R + PF_X, PF_R + PF_W}, vaddr : VADDRS,
           filesz : 0 .. MAXSIZE, memsz : 0 .. MAXSIZE] :
     /\ ph.filesz <= ph.memsz
     /\ ph.type = PT_NULL => ph.flags = PF_R + PF_X /\ ph.filesz = MAXSIZE}

(* What elf_from reads of the file header, and the size of the binary.  A   *)
(* mark is one of the four bytes of the magic number.                       *)
SIZEOF_EHDR == 64
ELFMAG == <<127, 69, 76, 70>>
ET_EXEC == 2
Ehdr ==
  [size : {SIZEOF_EHDR - 1, SIZEOF_EHDR}, type : 0 .. 3,
   ident : {ELFMAG} \cup {[ELFMAG EXCEPT ![k] = 0] : k \in 1 .. 4}]

(* The last page a segment may touch, and the one behind it, exist. *)
ASSUME ElfAssumption ==
  /\ {PAGE_SIZE, MAXVA, MAXSIZE, MAXPH} \subseteq Nat \ {0}
  /\ MAXVA % PAGE_SIZE = 0
  /\ \A va \in VADDRS : va \in Nat /\ va + MAXSIZE + 2 * PAGE_SIZE <= MAXVA

(* Bytes: <<s, j>> is byte j of segment s of the file, for s > 0. *)
ZERO == <<0, 0>>
FOREIGN == <<0, 1>>   \* a byte of a page the env was not given
UNMAPPED == <<0, 2>>

VARIABLES
  header,  \* the file header of the binary
  image,   \* the program headers of the binary
  pc,      \* where load_icode is, or why the kernel stopped
  idx,     \* _ph_idx, counted from 1
  i,       \* i of elf_load_seg: bytes of the segment dealt with
  mem,     \* the env's memory
  rw,      \* the pages mapped with PTE_W
  empty,   \* kalloc has no page left
  call,    \* auxiliary: offset and len of the last call of the mapper
  failed   \* auxiliary: the segments elf_load_seg returned an error for

elfvars == <<header, image, pc, idx, i, mem, rw, empty, call, failed>>

MIN(a, b) == IF a < b THEN a ELSE b

(* elf_from: not NULL.  EI_CLASS and e_machine are not looked at. *)
elf_from(h) == h.size >= SIZEOF_EHDR /\ h.ident = ELFMAG /\ h.type = ET_EXEC

ElfStart(h, phdrs) ==
  /\ header = h
  /\ image = phdrs
  /\ pc = "elf_from"
  /\ idx = 1
  /\ i = 0
  /\ mem = [a \in Addr |-> UNMAPPED]
  /\ rw = {}
  /\ empty = FALSE
  /\ call = [offset |-> 0, len |-> 0]
  /\ failed = {}

(* The headers of a file that elf_from refuses do not matter. *)
ElfInit ==
  \E h \in Ehdr :
    \E phdrs \in IF elf_from(h) THEN UNION {[1 .. k -> Phdr] : k \in 0 .. MAXPH} ELSE {<<>>} :
      ElfStart(h, phdrs)
-----------------------------------------------------------------------------
(* What the page kalloc returned holds after memcpy: zeros, and from offset *)
(* on len bytes of the file from byte src on; no bytes if src < 0 (NULL).   *)
(* Without a page from kalloc it is whatever is at address 0.               *)
Filled(dry, offset, src, len) ==
  [b \in 0 .. PAGE_SIZE - 1 |->
     CASE dry -> FOREIGN
       [] ~dry /\ src >= 0 /\ b \in offset .. offset + len - 1 -> <<idx, src + b - offset>>
       [] OTHER -> ZERO]

Mapped(p) == mem[p * PAGE_SIZE] # UNMAPPED

(* perm, as elf_load_seg computes it, has PTE_W. *)
Writable(ph) == (ph.flags \div PF_W) % 2 = 1

(* mappages for PAGE_SIZE bytes from va on, a page at a time: the first is  *)
(* bytes, the one behind it, if va is within a page, is not the env's.      *)
(* walk may find no page for a table.                                       *)
mappages(va, bytes, dry, pc1) ==
  LET first == va \div PAGE_SIZE
      last == (va + PAGE_SIZE - 1) \div PAGE_SIZE
  IN  \E end \in first .. last + 1 :
        LET taken == {p \in first .. end - 1 : Mapped(p)}
            new == {p \in first .. end - 1 : \A q \in taken : p < q}
            short == end <= last
        IN  /\ short => ~Mapped(end)
            /\ empty' \in {dry \/ short, TRUE}
            /\ mem' = [a \in Addr |->
                         IF a \div PAGE_SIZE \notin new THEN mem[a]
                         ELSE IF a \div PAGE_SIZE = first THEN bytes[a % PAGE_SIZE]
                         ELSE FOREIGN]
            /\ rw' = rw \cup (IF Writable(image[idx]) THEN new ELSE {})
            /\ IF taken # {} THEN pc' = "remap" /\ UNCHANGED <<idx, failed>>
               ELSE IF short THEN /\ pc' = "phdr"
                                  /\ idx' = idx + 1
                                  /\ failed' = failed \cup {idx}
               ELSE pc' = pc1 /\ UNCHANGED <<idx, failed>>

(* The callback.  A copy to address 0 faults.  If it fails, elf_load_seg    *)
(* returns, and load_icode goes on with the next header.                    *)
load_icode_mapper(va, offset, src, len) ==
  /\ call' = [offset |-> offset, len |-> len]
  /\ \E dry \in {empty, TRUE} :
       IF dry /\ src >= 0 /\ len > 0
       THEN pc' = "fault" /\ empty' = TRUE /\ UNCHANGED <<idx, mem, rw, failed>>
       ELSE mappages(va, Filled(dry, offset, src, len), dry, "seg")
-----------------------------------------------------------------------------
(* load_icode panics if the header is bad. *)
CheckHeader ==
  /\ pc = "elf_from"
  /\ pc' = IF elf_from(header) THEN "phdr" ELSE "bad elf"
  /\ UNCHANGED <<header, image, idx, i, mem, rw, empty, call, failed>>

Offset(ph) == ph.vaddr % PAGE_SIZE

(* ELF_FOREACH_PHDR_OFF: only loadable segments are loaded. *)
NextPhdr ==
  /\ pc = "phdr"
  /\ idx <= Len(image)
  /\ IF image[idx].type = PT_LOAD
     THEN pc' = (IF Offset(image[idx]) # 0 THEN "head" ELSE "seg") /\ idx' = idx
     ELSE pc' = pc /\ idx' = idx + 1
  /\ i' = 0
  /\ UNCHANGED <<header, image, mem, rw, empty, call, failed>>

(* Mutant of HeadLen: more than fits behind the offset. *)
HeadLenUnbounded(ph) == MIN(ph.filesz, PAGE_SIZE)

(* The bytes of the file in a first page the segment begins within. *)
HeadLen(ph) == MIN(ph.filesz, PAGE_SIZE - Offset(ph))

(* Mutant of LoadHead: the bytes are copied to the start of the page. *)
LoadHeadNoOffset ==
  /\ pc = "head"
  /\ LET ph == image[idx]
     IN  /\ load_icode_mapper(ph.vaddr, 0, 0, HeadLen(ph))
         /\ i' = HeadLen(ph)
  /\ UNCHANGED <<header, image>>

LoadHead ==
  /\ pc = "head"
  /\ LET ph == image[idx]
     IN  /\ load_icode_mapper(ph.vaddr, Offset(ph), 0, HeadLen(ph))
         /\ i' = HeadLen(ph)
  /\ UNCHANGED <<header, image>>

(* Mutant of InFile: a page for no byte of the file. *)
InFileOneMore(ph) == i <= ph.filesz

InFile(ph) == i < ph.filesz

(* Mutant of LoadFile: the next page begins where the file ends. *)
LoadFileAdvancesByBytes ==
  /\ pc = "seg"
  /\ LET ph == image[idx]
     IN  /\ InFile(ph)
         /\ load_icode_mapper(ph.vaddr + i, 0, i, MIN(ph.filesz - i, PAGE_SIZE))
         /\ i' = i + MIN(ph.filesz - i, PAGE_SIZE)
  /\ UNCHANGED <<header, image>>

(* Step 1: a page of the file. *)
LoadFile ==
  /\ pc = "seg"
  /\ LET ph == image[idx]
     IN  /\ InFile(ph)
         /\ load_icode_mapper(ph.vaddr + i, 0, i, MIN(ph.filesz - i, PAGE_SIZE))
         /\ i' = i + PAGE_SIZE
  /\ UNCHANGED <<header, image>>

(* Step 2: a page for what the file does not have. *)
LoadZero ==
  /\ pc = "seg"
  /\ LET ph == image[idx]
     IN  /\ ~InFile(ph) /\ i < ph.memsz
         /\ load_icode_mapper(ph.vaddr + i, 0, -1, MIN(ph.memsz - i, PAGE_SIZE))
         /\ i' = i + PAGE_SIZE
  /\ UNCHANGED <<header, image>>

(* elf_load_seg returns 0. *)
SegDone ==
  /\ pc = "seg"
  /\ ~InFile(image[idx]) /\ i >= image[idx].memsz
  /\ pc' = "phdr"
  /\ idx' = idx + 1
  /\ UNCHANGED <<header, image, i, mem, rw, empty, call, failed>>

(* load_icode sets sepc and returns. *)
Loaded ==
  /\ pc = "phdr"
  /\ idx > Len(image)
  /\ pc' = "loaded"
  /\ UNCHANGED <<header, image, idx, i, mem, rw, empty, call, failed>>

ElfNext == CheckHeader \/ NextPhdr \/ LoadHead \/ LoadFile \/ LoadZero \/ SegDone \/ Loaded

ElfSpec == ElfInit /\ [][ElfNext]_elfvars
-----------------------------------------------------------------------------
(* The mapper's pre-condition, "'offset + len' is not larger than           *)
(* 'PAGE_SIZE'" (env.c:244), holds at each of elf_load_seg's three calls,   *)
(* or memcpy would write behind the page.                                   *)
CopyStaysInPage == call.offset + call.len <= PAGE_SIZE

(* How much of segment s has been loaded. *)
Progress(s) ==
  IF image[s].type # PT_LOAD \/ s \in failed \/ s > idx THEN 0
  ELSE IF s < idx THEN image[s].memsz
  ELSE IF pc = "seg" THEN MIN(i, image[s].memsz)
  ELSE 0

(* elf_load_seg's rounds leave no gap and no shift: the bytes of every      *)
(* segment up to i are those of the file at their addresses, then zeros     *)
(* (elfloader.c:38-61), whatever was loaded before or failed; zeros may be  *)
(* something else only once kalloc has failed, which the mapper ignores.    *)
SegmentsInPlace ==
  \A s \in 1 .. Len(image) :
    \A j \in 0 .. Progress(s) - 1 :
      LET byte == mem[image[s].vaddr + j]
      IN  IF j < image[s].filesz THEN byte = <<s, j>>
          ELSE byte = ZERO \/ (empty /\ byte = FOREIGN)

(* The pages of the segment s. *)
PagesOf(s) ==
  {(image[s].vaddr + j) \div PAGE_SIZE : j \in 0 .. image[s].memsz - 1}

Loadable == {s \in 1 .. Len(image) : image[s].type = PT_LOAD}

(* No image whose segments begin at page boundaries and share no page is    *)
(* refused: mappages finds no page of it mapped already (vm.c:144).         *)
NoNeedlessRemap ==
  pc = "remap" =>
    \/ \E s \in Loadable : Offset(image[s]) # 0
    \/ \E s, t \in Loadable : s # t /\ PagesOf(s) \cap PagesOf(t) # {}

(* If the segments begin at page boundaries the env has no page besides     *)
(* theirs, and with memory left nothing in it but their bytes of the file   *)
(* and zeros; it may write a page just if the segment has PF_W              *)
(* (elfloader.c:30-33).                                                     *)
OnlySegmentsMapped ==
  (\A s \in Loadable : Offset(image[s]) = 0) =>
    \A a \in {b \in Addr : mem[b] # UNMAPPED} :
      LET here == {s \in Loadable : a \div PAGE_SIZE \in PagesOf(s)}
          read_write == {s \in here : image[s].flags = PF_R + PF_W}
      IN  /\ here # {}
          /\ mem[a] = FOREIGN => empty
          /\ mem[a][1] > 0 => mem[a][2] < image[mem[a][1]].filesz
          /\ IF a \div PAGE_SIZE \in rw THEN read_write # {} ELSE here # read_write
=============================================================================
