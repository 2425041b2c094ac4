------------------------------- MODULE Paging -------------------------------
(***************************************************************************)
(* Physical memory and page directories (physical.c, paging.c) as          *)
(* functions on a record, the machine's memory `m':                        *)
(*    taken   the frames whose bit in __phys_bitmap_4k is set;             *)
(*    i       the static cursor of __phys_get_free_4k;                     *)
(*    entry   the frames as directories and tables: 0 is "not present";    *)
(*    data    the frames as pages: the bytes that they hold;               *)
(*    got     what __phys_get_free_4k has returned last;                   *)
(*    panic   _kpanic has been called: nothing below matters any more.     *)
(*                                                                         *)
(* Addresses count bytes.  A frame is a number, address / FRAME_SIZE; a     *)
(* virtual page is a number too.  The flags of an entry are left out       *)
(* except that it is present.  A directory or table that the code reaches  *)
(* through its last entry or through scratch_pd and scratch_pt is reached  *)
(* here by its frame: the scratch pages are cleared before each use and    *)
(* belong to the kernel's table, which is never empty.                     *)
(***************************************************************************)
EXTENDS Integers, Sequences, FiniteSetsExt

CONSTANTS
  FRAME_SIZE,              \* bytes of a page
  ENTRIES,                \* entries of a table and of a directory: 1024
  BITS_IN_INTEGER,        \* bits of a word of the bitmap: 32
  ONE_MEGABYTE, SIXTEEN_MEG,       \* in frames, like the next three
  memory_low, memory_hi,  \* what the BIOS found above either
  KERNEL_SIZE,
  RESERVED_LO,            \* RESERVED_ADDR_LO, a page
  KERNEL_PAGE_DIR_INDEX,  \* RESERVED_ADDR_HI is the first page of it
  HEAP_START, HEAP_MAX    \* pages

NONE == 0
LAST == ENTRIES - 1       \* the entry that holds the directory itself

PagingAssumption ==
  /\ {FRAME_SIZE, ENTRIES, BITS_IN_INTEGER} \subseteq Nat \ {0}
  /\ {ONE_MEGABYTE, SIXTEEN_MEG, memory_low, memory_hi} \subseteq Nat
  /\ {KERNEL_SIZE, KERNEL_PAGE_DIR_INDEX, HEAP_START, HEAP_MAX} \subseteq Nat
  /\ BITS_IN_INTEGER <= ONE_MEGABYTE /\ ONE_MEGABYTE <= SIXTEEN_MEG
  /\ RESERVED_LO = ENTRIES           \* 0x400000: all entries but the first
  /\ 1 < KERNEL_PAGE_DIR_INDEX
  /\ KERNEL_PAGE_DIR_INDEX < HEAP_START \div ENTRIES
  /\ HEAP_START < HEAP_MAX /\ HEAP_MAX % ENTRIES = 0
  /\ HEAP_MAX \div ENTRIES < LAST

ASSUME PagingAssumptions == PagingAssumption

-----------------------------------------------------------------------------
(* Physical memory.                                                        *)

\* __phys_bitmap_4k_elements: the words of the bitmap -- a quarter of them;
\* the code divides by the size of a word once more.
ELEMENTS ==
  (ONE_MEGABYTE + memory_low + memory_hi) \div (4 * BITS_IN_INTEGER)

Frames == 0 .. (ELEMENTS * BITS_IN_INTEGER - 1)

Word(f)  == f \div BITS_IN_INTEGER    \* ADDR_TO_INDEX
Words(a, b) == Word(a) .. (Word(b) - 1)

\* __phys_initialize_bitmap: the words that its loops set to 0.  They are not
\* bounded by ELEMENTS.
ClearedWords ==
  Words(ONE_MEGABYTE, ONE_MEGABYTE + memory_low)
    \cup Words(SIXTEEN_MEG, SIXTEEN_MEG + memory_hi)

InitialBitmap ==
  LET kernel == Word(ONE_MEGABYTE) .. Word(ONE_MEGABYTE + KERNEL_SIZE) IN
  {f \in Frames : Word(f) \notin ClearedWords \ kernel}

FullWord(m, w) ==
  \A f \in w * BITS_IN_INTEGER .. (w + 1) * BITS_IN_INTEGER - 1 : f \in m.taken

\* __phys_get_free_4k: the first free frame of the first word, from the cursor
\* on and around the end, that has one.
GetFree(m) ==
  LET open == {k \in 0 .. (ELEMENTS - 1) : ~FullWord(m, (m.i + k) % ELEMENTS)}
      w    == (m.i + Min(open)) % ELEMENTS
      f    == Min({g \in Frames \ m.taken : Word(g) = w})
  IN  IF open = {} THEN [m EXCEPT !.panic = TRUE]
      ELSE [m EXCEPT !.taken = @ \cup {f}, !.i = w, !.got = f]

\* __phys_unset_bit, __phys_set_bit.
Unset(m, f) == [m EXCEPT !.taken = @ \ {f}]
Set(m, f)   == [m EXCEPT !.taken = @ \cup ({f} \cap Frames)]

-----------------------------------------------------------------------------
(* Tables and directories.                                                 *)

Blank == [k \in 0 .. LAST |-> NONE]   \* _kmemclr of a table
Zeros == [b \in 0 .. (FRAME_SIZE - 1) |-> "zero"]

IsEmpty(table) == \A k \in 0 .. LAST : table[k] = NONE

\* A loop: n rounds from m on, the first with number 0.
Rounds(Round(_, _), m, n) ==
  LET at[k \in 0 .. n] == IF k = 0 THEN m ELSE Round(at[k - 1], k - 1) IN at[n]

\* __virt_get_phys_addr in directory d; NONE is its 0xFFFFFFFF.
Frame(m, d, page) ==
  LET t == m.entry[d][page \div ENTRIES] IN
  IF t = NONE THEN NONE ELSE m.entry[t][page % ENTRIES]

\* __virt_map_page, with the table that it makes when there is none.
MapPage(m, d, f, page) ==
  LET k == page \div ENTRIES
      a == GetFree(m)
      n == IF m.entry[d][k] # NONE THEN m
           ELSE [a EXCEPT !.entry[d][k] = a.got, !.entry[a.got] = Blank]
      t == n.entry[d][k]
  IN  IF n.entry[t][page % ENTRIES] # NONE THEN [n EXCEPT !.panic = TRUE]
      ELSE [n EXCEPT !.entry[t][page % ENTRIES] = f]

\* __virt_map_page(__phys_get_free_4k(), ...).
MapNew(m, d, page) == LET a == GetFree(m) IN MapPage(a, d, a.got, page)

\* That for n pages in order.
MapPages(m, d, page, n) ==
  Rounds(LAMBDA x, k : MapNew(x, d, page + k), m, n)

\* __virt_unmap_page: the frame goes back, and the table with its last page.
Cleared(m, d, page) ==
  LET t == m.entry[d][page \div ENTRIES]
      f == m.entry[t][page % ENTRIES]
  IN  [m EXCEPT !.taken = @ \ ({f} \ {NONE}), !.entry[t][page % ENTRIES] = NONE]

UnmapPage_KeepsTable(m, d, page) ==   \* the table is not freed: DirectoriesSound
  IF m.entry[d][page \div ENTRIES] = NONE THEN m
  ELSE IF IsEmpty(Cleared(m, d, page).entry[m.entry[d][page \div ENTRIES]])
    THEN [Cleared(m, d, page) EXCEPT !.entry[d][page \div ENTRIES] = NONE]
    ELSE Cleared(m, d, page)

UnmapPage(m, d, page) ==
  LET k == page \div ENTRIES
      t == m.entry[d][k]
      n == Cleared(m, d, page)
  IN  IF t = NONE THEN m
      ELSE IF IsEmpty(n.entry[t]) THEN [Unset(n, t) EXCEPT !.entry[d][k] = NONE]
      ELSE n

\* __virt_reset_page_directory.
ResetDirectory(m, d) ==
  Rounds(LAMBDA x, k : UnmapPage(x, d, RESERVED_LO + k), m,
         KERNEL_PAGE_DIR_INDEX * ENTRIES - RESERVED_LO)

\* __virt_dealloc_page_directory.
DeallocDirectory(m, d) == Unset(ResetDirectory(m, d), d)

\* __virt_clone_directory.  First what directory c shares with directory d:
\* the first table and those of the kernel, as d has them at this moment.
Shared(m, d, c) ==
  [k \in 0 .. LAST |->
     IF k = LAST THEN c
     ELSE IF k = 0 \/ k >= KERNEL_PAGE_DIR_INDEX THEN m.entry[d][k]
     ELSE NONE]

\* A user page is copied into a frame of its own ...
CopyPage_Blank(m, d, c, k, j) ==      \* the bytes are not copied: ForkCopies
  LET a == GetFree(m) IN
  IF m.entry[m.entry[d][k]][j] = NONE THEN m
  ELSE [a EXCEPT !.entry[m.entry[c][k]][j] = a.got, !.data[a.got] = Zeros]
CopyPage(m, d, c, k, j) ==
  LET a == GetFree(m) IN
  IF m.entry[m.entry[d][k]][j] = NONE THEN m
  ELSE [a EXCEPT !.entry[m.entry[c][k]][j] = a.got,
                 !.data[a.got] = m.data[m.entry[m.entry[d][k]][j]]]

\* ... and so is its table.
CopyTable(m, d, c, k) ==
  LET a == GetFree(m)
      n == [a EXCEPT !.entry[c][k] = a.got, !.entry[a.got] = Blank]
  IN  IF m.entry[d][k] = NONE THEN m
      ELSE Rounds(LAMBDA x, j : CopyPage(x, d, c, k, j), n, ENTRIES)

\* The copy is `copied'.
CloneDirectory(m, d) ==
  LET a == GetFree(m)
      c == a.got
      n == [a EXCEPT !.entry[c] = Shared(m, d, c)]
      first == RESERVED_LO \div ENTRIES
  IN  [mem |-> Rounds(LAMBDA x, k : CopyTable(x, d, c, first + k), n,
                      KERNEL_PAGE_DIR_INDEX - first),
       copied |-> c]

\* The loop of _isr_page_fault and of __kmalloc that brings the entries for
\* the heap in directory d up to date with those of the kernel's directory.
HeapEntries_Short == (HEAP_START \div ENTRIES) .. (HEAP_MAX \div ENTRIES) - 2
                                      \* one entry less: TouchedIsPresent
HeapEntries == (HEAP_START \div ENTRIES) .. (HEAP_MAX \div ENTRIES) - 1

CopyHeapEntries(m, kernel, d) ==
  [m EXCEPT !.entry[d] =
     [k \in 0 .. LAST |-> IF k \in HeapEntries THEN m.entry[kernel][k] ELSE @[k]]]

\* Bytes addr .. addr + n - 1 through directory d; a page that is not there
\* is a fault that _isr_page_fault answers with _kpanic.
StoreByte(m, d, addr, value) ==
  LET f == Frame(m, d, addr \div FRAME_SIZE) IN
  IF f = NONE THEN [m EXCEPT !.panic = TRUE]
  ELSE [m EXCEPT !.data[f][addr % FRAME_SIZE] = value]

StoreBytes(m, d, addr, n, value) ==
  Rounds(LAMBDA x, k : StoreByte(x, d, addr + k, value), m, n)

=============================================================================
