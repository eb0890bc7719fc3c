\* Lists: three elements, so that insertions and removals happen at the head, in
\* the middle and at the tail; two tail queues to concatenate, and a list.
\* ELF: pages of three bytes, so that a segment may begin within a page and end
\* before it does; up to two headers, with gaps, neighbours, shared pages and
\* overlaps.  Strings: three words.  Formats: an int of 4 and a long of 6 bits.
\* Disk: 14 blocks with two bitmap blocks, the second not full; files of up to 4
\* blocks, one more than an index block can reach, and directories that fill
\* their direct block, begin a second one and want another entry.
CONSTANTS
  Elm = {a, b, c}
  LISTS = {l}
  TAILQS = {q, r}
  NULL = NULL
  PAGE_SIZE = 3
  MAXVA = 18
  VADDRS = {1, 3, 6}
  MAXSIZE = 4
  MAXPH = 2
  WORDSIZE = 4
  BYTES = 256
  SIZE = 12
  STRLEN = 4
  INTBITS = 4
  LONGBITS = 6
  MAGNITUDES = {0, 5, 20}
  WIDTHS = {0, 3, 12}
  REGS <- MCRegs
  TRAPS <- MCTraps
  LEFT <- MCLeft
  KSP = 2000
  TFEND = 3000
  STALE = 77
  NBLOCK = 14
  BLOCK_SIZE_BIT = 8
  WORD = 4
  BYTE = 2
  NDIRECT = 1
  NINDIRECT = 3
  FILE2BLK = 2
  CONFIG_REVERSE_ENDIAN = TRUE
  READS = {1, 3, 4}
  MAXENTRIES = 4
  MAXDEPTH = 2
  MAXFILES = 5
  MAXARGS = 4
  BMAX = 3
  MAXSEC = 3
SPECIFICATION MCSpec
\* The units come to an end.
CHECK_DEADLOCK FALSE
INVARIANTS
  ListsSound
  LoopsVisitAll
  CopyStaysInPage
  SegmentsInPlace
  NoNeedlessRemap
  OnlySegmentsMapped
  StringsExact
  FormatExact
  RegistersRestored
  BlocksOwnedOnce
  FilesReadBack
  ImageExact
  ToolsExact
