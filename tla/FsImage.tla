------------------------------- MODULE FsImage -------------------------------
(***************************************************************************)
(* tools/fsformat.c: a disk image is made of files and directories of the  *)
(* host.                                                                   *)
(*                                                                         *)
(* The header that defines the layout (user/include/fs.h) is not in the    *)
(* repository: its numbers are constants here, and f_indirect follows      *)
(* f_direct in struct File.  Behaviours end where create_file returns a    *)
(* File inside an index block, whose words its name and numbers then       *)
(* share.  Sizes are in blocks.  A directory of the host that cannot be    *)
(* opened changes nothing.  Names fit (the test behind strncpy reads a     *)
(* byte strncpy does not write, so that it never fails).                   *)
(***************************************************************************)
EXTENDS Integers, FiniteSets, Sequences

CONSTANTS
  NBLOCK,          \* blocks of the disk
  BLOCK_SIZE_BIT,  \* bits of a block
  WORD, BYTE,      \* bits of a uint32_t and of a byte
  NDIRECT, NINDIRECT, FILE2BLK,
  CONFIG_REVERSE_ENDIAN,
  READS,           \* sizes of the files of the host, in blocks
  MAXENTRIES,      \* bound: entries of a directory
  MAXDEPTH,        \* bound: nested directories
  MAXFILES         \* bound: files and directories in all

(* The types of blocks. *)
BLOCK_FREE == 0
BLOCK_BOOT == 1
BLOCK_BMAP == 2
BLOCK_SUPER == 3
BLOCK_DATA == 4
BLOCK_FILE == 5
BLOCK_INDEX == 6

(* The array disk, and the two blocks behind it that one call may reach. *)
Block == 0 .. NBLOCK + 1
Place == Block \X (0 .. FILE2BLK - 1)
nbitblock == (NBLOCK + BLOCK_SIZE_BIT - 1) \div BLOCK_SIZE_BIT

(* The layout of fs.h; the bitmap fits on the disk. *)
ASSUME FsAssumption ==
  /\ {NBLOCK, BLOCK_SIZE_BIT, WORD, BYTE, NDIRECT, NINDIRECT, FILE2BLK} \subseteq Nat \ {0}
  /\ NDIRECT < NINDIRECT
  /\ WORD % BYTE = 0 /\ BLOCK_SIZE_BIT % WORD = 0 /\ NBLOCK % BYTE = 0
  /\ CONFIG_REVERSE_ENDIAN \in BOOLEAN
  /\ READS \subseteq Nat
  /\ 2 + nbitblock <= NBLOCK

Bit == 0 .. nbitblock * BLOCK_SIZE_BIT - 1

(* super.s_root, at the place finish_fs copies it to. *)
ROOT == <<1, 0>>

VARIABLES
  disk,     \* type, files, links and contents of the blocks, and nextbno
  dirs,     \* the directories being written, the innermost first
  fspc,     \* where main is, or how it ended
  target,   \* write_file: the File being written
  iblk,     \* write_file: blocks read so far
  bitmap,   \* the bits of the bitmap blocks
  swapped,  \* the words of the image reverse has been applied to
  host      \* auxiliary: names written, with their directory, kind and size

fsvars == <<disk, dirs, fspc, target, iblk, bitmap, swapped, host>>

(* f_name[0] = 0 marks a File that is not used; 0 is the name of the root. *)
Unused == -1
NoFile == [name |-> Unused, kind |-> "REG", size |-> 0,
           direct |-> [i \in 0 .. NDIRECT - 1 |-> 0], indirect |-> 0]

(* All bits of the bitmap are set but those behind the last block. *)
init_disk ==
  /\ disk = [type |-> [b \in Block |-> CASE b = 0 -> BLOCK_BOOT
                                         [] b = 1 -> BLOCK_SUPER
                                         [] b \in 2 .. 1 + nbitblock -> BLOCK_BMAP
                                         [] OTHER -> BLOCK_FREE],
             file |-> [p \in Place |-> IF p = ROOT THEN [NoFile EXCEPT !.name = 0, !.kind = "DIR"]
                                                   ELSE NoFile],
             link |-> [b \in Block |-> [i \in 0 .. NINDIRECT - 1 |-> 0]],
             data |-> [b \in Block |-> <<Unused, 0>>],
             nextbno |-> 2 + nbitblock]
  /\ LET diff == (NBLOCK % BLOCK_SIZE_BIT) \div BYTE
         last == (nbitblock - 1) * BLOCK_SIZE_BIT
     IN  bitmap = [i \in Bit |-> IF NBLOCK # nbitblock * BLOCK_SIZE_BIT /\ i >= last + diff * BYTE
                                 THEN 0 ELSE 1]

FsInit ==
  /\ init_disk
  /\ dirs = <<ROOT>>
  /\ fspc = "tree"
  /\ target = ROOT
  /\ iblk = 0
  /\ swapped = {}
  /\ host = {}
-----------------------------------------------------------------------------
(* The block is d.nextbno. *)
next_block(d, type) == [d EXCEPT !.type[d.nextbno] = type, !.nextbno = @ + 1]

(* Mutant of save_block_link: the index block is made for every link. *)
save_block_linkNewIndex(d, f, nblk, bno) ==
  IF nblk < NDIRECT THEN [d EXCEPT !.file[f].direct[nblk] = bno]
  ELSE LET e == [next_block(d, BLOCK_INDEX) EXCEPT !.file[f].indirect = d.nextbno]
       IN  [e EXCEPT !.link[e.file[f].indirect][nblk] = bno]

(* Mutant of save_block_link: the index block is indexed from 0. *)
save_block_linkFromZero(d, f, nblk, bno) ==
  IF nblk < NDIRECT THEN [d EXCEPT !.file[f].direct[nblk] = bno]
  ELSE LET e == IF d.file[f].indirect # 0 THEN d
                ELSE [next_block(d, BLOCK_INDEX) EXCEPT !.file[f].indirect = d.nextbno]
       IN  [e EXCEPT !.link[e.file[f].indirect][nblk - NDIRECT] = bno]

(* nblk < NINDIRECT, which save_block_link asserts. *)
save_block_link(d, f, nblk, bno) ==
  IF nblk < NDIRECT THEN [d EXCEPT !.file[f].direct[nblk] = bno]
  ELSE LET e == IF d.file[f].indirect # 0 THEN d
                ELSE [next_block(d, BLOCK_INDEX) EXCEPT !.file[f].indirect = d.nextbno]
       IN  [e EXCEPT !.link[e.file[f].indirect][nblk] = bno]

make_link_block(d, dirf, nblk) ==
  [save_block_link(next_block(d, BLOCK_FILE), dirf, nblk, d.nextbno) EXCEPT !.file[dirf].size = @ + 1]

(* The block create_file takes for the i-th of a directory.  f_direct[NDIRECT] *)
(* is f_indirect.                                                           *)
DirBlock(d, dirf, i) ==
  CASE i < NDIRECT -> d.file[dirf].direct[i]
    [] i = NDIRECT -> d.file[dirf].indirect
    [] i > NDIRECT -> d.link[d.file[dirf].indirect][i]

(* The first File that is not used, in the order of the two loops. *)
Vacant(d, dirf) ==
  {x \in (0 .. d.file[dirf].size - 1) \X (0 .. FILE2BLK - 1) :
     d.file[<<DirBlock(d, dirf, x[1]), x[2]>>].name = Unused}

(* The disk and the File it returns. *)
create_file(d, dirf) ==
  LET nblk == d.file[dirf].size
      v == Vacant(d, dirf)
  IN  IF v = {} THEN [disk |-> make_link_block(d, dirf, nblk), file |-> <<d.nextbno, 0>>]
      ELSE LET first == CHOOSE x \in v :
                 \A y \in v : x[1] < y[1] \/ (x[1] = y[1] /\ x[2] <= y[2])
           IN  [disk |-> d, file |-> <<DirBlock(d, dirf, first[1]), first[2]>>]

(* Whatever is behind the disk is overwritten by the block d took. *)
Overrun(d) == d.nextbno > NBLOCK

Name == 1 + Cardinality(host)
Entries(dirf) == {h \in host : h.dir = disk.file[dirf].name}

(* A new File in the innermost directory, and what is recorded of it.  The  *)
(* assertion of save_block_link holds here: in a directory of more than     *)
(* NDIRECT blocks the index block, which begins with a 0, has a File.       *)
Enter(kind, size, next) ==
  LET dirf == Head(dirs)
      made == create_file(disk, dirf)
      d == [made.disk EXCEPT !.file[made.file] =
              [@ EXCEPT !.name = Name, !.kind = kind, !.size = size]]
  IN  /\ Cardinality(Entries(dirf)) < MAXENTRIES
      /\ Cardinality(host) < MAXFILES
      /\ IF made.disk.type[made.file[1]] = BLOCK_INDEX
         THEN fspc' = "overlaid" /\ UNCHANGED <<disk, target, host>>
         ELSE /\ disk' = d
              /\ target' = made.file
              /\ host' = host \cup {[dir |-> disk.file[dirf].name, name |-> Name,
                                     kind |-> kind, size |-> size]}
              /\ fspc' = IF Overrun(d) THEN "overrun" ELSE next
-----------------------------------------------------------------------------
(* write_file up to its loop: the size is the file's, or -1 if it could not *)
(* be opened.                                                               *)
write_file(size) ==
  /\ fspc = "tree"
  /\ Enter("REG", size, IF size > 0 THEN "read" ELSE "tree")
  /\ iblk' = 0
  /\ UNCHANGED <<dirs, bitmap, swapped>>

(* A round of the loop: a block is read to where the next block will be. *)
ReadBlock ==
  LET f == disk.file[target]
      bno == disk.nextbno
      d == save_block_link([next_block(disk, BLOCK_DATA) EXCEPT !.data[bno] = <<f.name, iblk>>],
                           target, iblk, bno)
  IN  /\ fspc = "read"
      /\ IF iblk >= NINDIRECT THEN fspc' = "assert" /\ UNCHANGED disk
         ELSE /\ disk' = d
              /\ fspc' = CASE Overrun(d) -> "overrun"
                         [] ~Overrun(d) /\ iblk + 1 = f.size -> "tree"
                         [] OTHER -> "read"
      /\ iblk' = iblk + 1
      /\ UNCHANGED <<dirs, target, bitmap, swapped, host>>

write_directory ==
  /\ fspc = "tree"
  /\ Len(dirs) <= MAXDEPTH
  /\ Enter("DIR", 0, "tree")
  /\ dirs' = <<target'>> \o dirs
  /\ UNCHANGED <<iblk, bitmap, swapped>>

(* readdir has no more entries. *)
closedir ==
  /\ fspc = "tree"
  /\ Len(dirs) > 1
  /\ dirs' = Tail(dirs)
  /\ UNCHANGED <<disk, fspc, target, iblk, bitmap, swapped, host>>

(* main stops at an argument that is missing, unknown or of another kind. *)
Refuse ==
  /\ fspc = "tree"
  /\ Len(dirs) = 1
  /\ fspc' = "exit"
  /\ UNCHANGED <<disk, dirs, target, iblk, bitmap, swapped, host>>
-----------------------------------------------------------------------------
(* Mutant of flush_bitmap: the bit is looked for in the wrong word. *)
flush_bitmapNoWord ==
  LET bit(i) == (i \div BLOCK_SIZE_BIT) * BLOCK_SIZE_BIT + (i % WORD)
  IN  bitmap' = [b \in Bit |-> IF \E i \in 0 .. disk.nextbno - 1 : bit(i) = b THEN 0 ELSE bitmap[b]]

flush_bitmap ==
  LET bit(i) == (i \div BLOCK_SIZE_BIT) * BLOCK_SIZE_BIT
                  + ((i % BLOCK_SIZE_BIT) \div WORD) * WORD + (i % WORD)
  IN  bitmap' = [b \in Bit |-> IF \E i \in 0 .. disk.nextbno - 1 : bit(i) = b THEN 0 ELSE bitmap[b]]

(* The words of the File at p, and of an index or bitmap block. *)
WordsOf(p) == {p} \X {"size", "type", "direct", "indirect"}
BlockWords(b) == {<<b, 0>>} \X {"words"}

(* reverse_block: in a directory block up to the first unused File. *)
reverse_block(b) ==
  LET used(k) == \A j \in 0 .. k : disk.file[<<b, j>>].name # Unused
  IN  CASE disk.type[b] = BLOCK_SUPER -> WordsOf(ROOT) \cup BlockWords(b)
        [] disk.type[b] = BLOCK_FILE -> UNION {WordsOf(<<b, k>>) : k \in {j \in 0 .. FILE2BLK - 1 : used(j)}}
        [] disk.type[b] \in {BLOCK_INDEX, BLOCK_BMAP} -> BlockWords(b)
        [] OTHER -> {}

(* The bytes of these words of the image w change places, or go back. *)
reverse(w, words) == (w \ words) \cup (words \ w)

(* The blocks are reversed and written one after the other. *)
finish_fs ==
  /\ LET upto[k \in 0 .. NBLOCK] ==
           IF k = 0 THEN swapped ELSE reverse(upto[k - 1], reverse_block(k - 1))
     IN  swapped' = IF CONFIG_REVERSE_ENDIAN THEN upto[NBLOCK] ELSE swapped
  /\ fspc' \in {"done", "assert"}

(* The end of main. *)
Finish ==
  /\ fspc = "tree"
  /\ Len(dirs) = 1
  /\ host # {}
  /\ flush_bitmap
  /\ finish_fs
  /\ UNCHANGED <<disk, dirs, target, iblk, host>>

FsNext ==
  \/ \E size \in READS \cup {-1} : write_file(size)
  \/ ReadBlock
  \/ write_directory
  \/ closedir
  \/ Refuse
  \/ Finish

FsSpec == FsInit /\ [][FsNext]_fsvars
-----------------------------------------------------------------------------
(* The i-th block of a file, as save_block_link stored it. *)
BlockOf(p, i) ==
  IF i < NDIRECT THEN disk.file[p].direct[i] ELSE disk.link[disk.file[p].indirect][i]

Used == {p \in Place : disk.file[p].name # Unused}
BlocksOf(p) == IF fspc = "read" /\ p = target THEN 0 .. iblk - 1 ELSE 0 .. disk.file[p].size - 1

(* Every block handed out so far is pointed to by one File, once, and has   *)
(* the type that finish_fs expects there: no block is lost or shared,       *)
(* whichever of next_block's callers took the index block in between.       *)
BlocksOwnedOnce ==
  fspc \in {"tree", "read", "done"} =>
    LET pointers == {x \in Used \X (0 .. NINDIRECT - 1) : x[2] \in BlocksOf(x[1])}
        indexes == {p \in Used : disk.file[p].indirect # 0}
        blocks == {BlockOf(x[1], x[2]) : x \in pointers} \cup {disk.file[p].indirect : p \in indexes}
    IN  /\ blocks = 2 + nbitblock .. disk.nextbno - 1
        /\ Cardinality(blocks) = Cardinality(pointers) + Cardinality(indexes)
        /\ \A p \in indexes : disk.type[disk.file[p].indirect] = BLOCK_INDEX
        /\ \A x \in pointers : disk.type[BlockOf(x[1], x[2])] =
                                IF disk.file[x[1]].kind = "DIR" THEN BLOCK_FILE ELSE BLOCK_DATA

(* The File of the name n, and the Files in the blocks of a directory. *)
FileOf(n) == CHOOSE p \in Used : disk.file[p].name = n
Listed(dirf) == {BlockOf(dirf, i) : i \in 0 .. disk.file[dirf].size - 1} \X (0 .. FILE2BLK - 1)

(* Whatever was written is found in the blocks of its directory, and a file *)
(* read block by block, through the index block behind the first NDIRECT    *)
(* (save_block_link), is the host's file; no later write of another file or *)
(* directory disturbs it.  A directory has room for FILE2BLK * NDIRECT + 1  *)
(* entries: for the next one create_file takes f_indirect for a block of    *)
(* Files, since it compares i <= NDIRECT (fsformat.c:218).                  *)
FilesReadBack ==
  fspc \in {"tree", "read", "done"} =>
    \A h \in host :
      LET p == FileOf(h.name)
      IN  /\ p \in Listed(FileOf(h.dir))
          /\ h.kind = "REG" => /\ disk.file[p].size = h.size
                               /\ \A i \in BlocksOf(p) : disk.data[BlockOf(p, i)] = <<h.name, i>>

(* The image: the bitmap marks the free blocks of the disk and no others    *)
(* (init_disk, flush_bitmap), and with CONFIG_REVERSE_ENDIAN every number   *)
(* of a block that is not data has been reversed; stopping at the first     *)
(* unused File of a block leaves none out.                                  *)
ImageExact ==
  fspc = "done" =>
    /\ \A i \in Bit : bitmap[i] = IF i \in disk.nextbno .. NBLOCK - 1 THEN 1 ELSE 0
    /\ CONFIG_REVERSE_ENDIAN =>
         swapped = (UNION {WordsOf(p) : p \in Used})
                     \cup (UNION {BlockWords(b) : b \in {c \in Block : disk.type[c] \in {BLOCK_SUPER, BLOCK_BMAP, BLOCK_INDEX}}})
=============================================================================
