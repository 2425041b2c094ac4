------------------------------- MODULE Memory -------------------------------
(***************************************************************************)
(* The address spaces of the processes: fork, exec, exit, the pages of     *)
(* messages, the growth of the kernel heap and the page fault with which a *)
(* process learns of it (paging.c, elf.c, the handlers that call them).    *)
(*                                                                         *)
(* All directories share the tables of the kernel.  A directory is a copy  *)
(* of the entries as they were when it was cloned; a table that the heap   *)
(* gets later is entered in the kernel's directory and in that of the      *)
(* process that needed it.                                                 *)
(*                                                                         *)
(* Handlers run with interrupts disabled, so each is one action; mode      *)
(* "dispatch" stands between _cleanup and the end of _dispatch.  Nobody is *)
(* killed here: _cleanup then runs for the process whose directory is      *)
(* loaded, and frees that (the run proc_cleanup shows what a kill does).   *)
(***************************************************************************)
EXTENDS Paging

CONSTANTS
  Procs, initproc,
  Programs,            \* what exec can load, see Segment below
  INITPROC,            \* the one in /etc/initproc
  USER_STACK_LOCATION, \* a page
  USER_STACK_PAGES,
  HEAP_INITIAL_PAGES,
  MESSAGE_LOCATION_START,             \* a page
  RAMDISK_PHYS, RAMDISK_VIRT, RAMDISK_PAGES,
  GrowBy,              \* how many pages __kmalloc may need
  MaxMessages, MaxHeapPages, MaxCalls \* bounds

\* A program is what the loader reads of an ELF file:
\*    wrong      the checks of its header that it does not pass;
\*    segments   its program headers; of each p_type = PT_LOAD, p_vaddr,
\*               p_filesz and p_memsz.
\* A segment lies where the linker script of the programs puts it, in the part
\* of a directory that is a process's own; the loader would take one between 1
\* and 4 MB too.
Linked(s) ==
  /\ {s.vaddr, s.filesz, s.memsz} \subseteq Nat /\ s.filesz <= s.memsz
  /\ s.load => /\ RESERVED_LO <= s.vaddr \div FRAME_SIZE
               /\ s.vaddr \div FRAME_SIZE + (s.memsz + FRAME_SIZE - 1) \div FRAME_SIZE
                    <= KERNEL_PAGE_DIR_INDEX * ENTRIES

\* What the constants of the kernel say of each other.  The RAM disk begins
\* where the heap must end, and fits into one table.
MemoryAssumption ==
  /\ initproc \in Procs
  /\ INITPROC \in Programs
  /\ \A prog \in Programs :
       /\ Len(prog.segments) \in Nat
       /\ DOMAIN prog.segments = 1 .. Len(prog.segments)
       /\ \A n \in 1 .. Len(prog.segments) : Linked(prog.segments[n])
  /\ GrowBy \subseteq Nat
  /\ {HEAP_INITIAL_PAGES, USER_STACK_LOCATION, USER_STACK_PAGES} \subseteq Nat
  /\ HEAP_START + HEAP_INITIAL_PAGES <= HEAP_MAX
  /\ RESERVED_LO <= USER_STACK_LOCATION
  /\ USER_STACK_LOCATION + USER_STACK_PAGES <= KERNEL_PAGE_DIR_INDEX * ENTRIES
  /\ {MESSAGE_LOCATION_START, MaxMessages} \subseteq Nat
  /\ RESERVED_LO <= MESSAGE_LOCATION_START
  /\ MESSAGE_LOCATION_START + MaxMessages <= KERNEL_PAGE_DIR_INDEX * ENTRIES
  /\ {RAMDISK_PHYS, RAMDISK_VIRT, RAMDISK_PAGES} \subseteq Nat
  /\ HEAP_MAX <= RAMDISK_VIRT
  /\ RAMDISK_VIRT + RAMDISK_PAGES <= HEAP_MAX + ENTRIES

ASSUME MemoryAssumptions == MemoryAssumption

\* The linker script lays the sections out one behind the other, far below the
\* kernel: no segment reaches into the next, nor up to the kernel if it were
\* twice as long.
Ordered(prog) ==
  \A n \in DOMAIN prog.segments :
    LET s == prog.segments[n] IN
    s.load =>
      /\ (s.vaddr + 2 * s.memsz - 1) \div FRAME_SIZE < KERNEL_PAGE_DIR_INDEX * ENTRIES
      /\ \A o \in 1 .. (n - 1) :
           LET t == prog.segments[o] IN t.load => t.vaddr + t.memsz <= s.vaddr

ASSUME ProgramAssumptions == \A prog \in Programs : Ordered(prog)

VARIABLES
  mem,          \* the record of Paging
  pdir,         \* page_directory of each process, NONE without one
  running,      \* _current
  loaded,       \* %cr3
  heapEnd,      \* kernel_heap.end_address
  messageLoc,   \* _messageLoc
  memPhase,        \* "user", "dispatch", "panic"
  calls         \* how many calls and faults there were; a bound

memVars == <<mem, pdir, running, loaded, heapEnd, messageLoc, memPhase, calls>>

-----------------------------------------------------------------------------
(* Start-up.                                                               *)

\* __virt_initialize_paging: the kernel's directory, the identity map of the
\* first megabyte, and the kernel.
Uninitialized ==
  [taken |-> InitialBitmap, i |-> 0, entry |-> [f \in Frames |-> Blank],
   data |-> [f \in Frames |-> Zeros], got |-> NONE, panic |-> FALSE]

KernelDir   == GetFree(Uninitialized).got
FirstTable  == GetFree(GetFree(Uninitialized)).got
KernelTable == GetFree(GetFree(GetFree(Uninitialized))).got

InitializePaging ==
  [GetFree(GetFree(GetFree(Uninitialized))) EXCEPT
     !.entry[FirstTable] =
        [k \in 0 .. LAST |-> IF k < ONE_MEGABYTE THEN k ELSE NONE],
     !.entry[KernelTable] =
        [k \in 0 .. LAST |-> IF k < KERNEL_SIZE THEN ONE_MEGABYTE + k ELSE NONE],
     !.entry[KernelDir] =
        [k \in 0 .. LAST |-> CASE k = 0                     -> FirstTable
                               [] k = KERNEL_PAGE_DIR_INDEX -> KernelTable
                               [] k = LAST                  -> KernelDir
                               [] OTHER                     -> NONE]]

\* __kmem_init_kmalloc.
InitKmalloc(m) == MapPages(m, KernelDir, HEAP_START, HEAP_INITIAL_PAGES)

\* _init_himem_ramdisk.
InitRamdisk(m) ==
  Rounds(LAMBDA x, k : MapPage(Set(x, RAMDISK_PHYS + k), KernelDir,
                               RAMDISK_PHYS + k, RAMDISK_VIRT + k),
         m, RAMDISK_PAGES)

-----------------------------------------------------------------------------
(* exec.                                                                   *)

\* The checks at the top of _elf_load_from_file.  Each of them panics.
Checks == {"status", "bytes", "magic", "type", "machine", "entry", "version",
           "phoff", "phnum", "phentsize", "pheaders"}
Refused(prog) == prog.wrong \cap Checks # {}

BadAddress(s) ==
  LET page == s.vaddr \div FRAME_SIZE IN
  page >= KERNEL_PAGE_DIR_INDEX * ENTRIES \/ page < ONE_MEGABYTE

MapMissing(m, d, page) ==
  IF Frame(m, d, page) # NONE THEN m ELSE MapNew(m, d, page)

\* A page for each step of FRAME_SIZE from p_vaddr on, unless one is there: a
\* segment may begin in the page in which another ends.
MapSegment_Again(m, d, s) ==          \* whether or not: ExecLoads
  Rounds(LAMBDA x, k : LET page == s.vaddr \div FRAME_SIZE + k IN
                       MapNew(UnmapPage(x, d, page), d, page),
         m, (s.memsz + FRAME_SIZE - 1) \div FRAME_SIZE)
MapSegment(m, d, s) ==
  Rounds(LAMBDA x, k : MapMissing(x, d, s.vaddr \div FRAME_SIZE + k),
         m, (s.memsz + FRAME_SIZE - 1) \div FRAME_SIZE)

\* The _kmemclr that is to clear what the file does not fill, and the read.
LoadSegment(m, d, s) ==
  LET n == MapSegment(m, d, s)
      c == StoreBytes(n, d, s.vaddr + (s.memsz - s.filesz), s.memsz - s.filesz,
                      "zero")
  IN  IF ~s.load THEN m
      ELSE IF BadAddress(s) THEN [m EXCEPT !.panic = TRUE]
      ELSE IF s.memsz = 0 THEN m
      ELSE StoreBytes(c, d, s.vaddr, s.filesz, "file")

\* The stack, which is cleared.
MapStack(m, d) ==
  StoreBytes(MapPages(m, d, USER_STACK_LOCATION, USER_STACK_PAGES),
             d, USER_STACK_LOCATION * FRAME_SIZE, USER_STACK_PAGES * FRAME_SIZE,
             "zero")

\* _elf_load_from_file with directory d loaded.
Load(m, d, prog) ==
  IF Refused(prog) THEN [m EXCEPT !.panic = TRUE]
  ELSE MapStack(Rounds(LAMBDA x, k : LoadSegment(x, d, prog.segments[k + 1]),
                       ResetDirectory(m, d), Len(prog.segments)), d)

-----------------------------------------------------------------------------
(* _init: the first process gets a clone of the kernel's directory.        *)

Booted ==
  LET c == CloneDirectory(InitRamdisk(InitKmalloc(InitializePaging)), KernelDir)
  IN  [mem |-> [Load(c.mem, c.copied, INITPROC) EXCEPT !.got = NONE],
       dir |-> c.copied]

MemInit ==
  /\ mem = Booted.mem
  /\ pdir = [p \in Procs |-> IF p = initproc THEN Booted.dir ELSE NONE]
  /\ running = initproc
  /\ loaded = Booted.dir
  /\ heapEnd = HEAP_START + HEAP_INITIAL_PAGES
  /\ messageLoc = MESSAGE_LOCATION_START
  /\ memPhase = IF Booted.mem.panic THEN "panic" ELSE "user"
  /\ calls = 0

Counted == calls < MaxCalls /\ calls' = calls + 1        \* bound

\* What a handler that calls _kpanic has done before is of no interest.
Becomes(m) ==
  /\ mem' = IF m.panic THEN mem ELSE [m EXCEPT !.got = NONE]
  /\ memPhase' = IF m.panic THEN "panic" ELSE memPhase
  /\ Counted

\* _sys_fork: the child is p.
ForkSpace(p) ==
  LET c == CloneDirectory(mem, loaded) IN
  /\ memPhase = "user" /\ pdir[p] = NONE
  /\ Becomes(c.mem)
  /\ pdir' = [pdir EXCEPT ![p] = c.copied]
  /\ loaded' = pdir[running]
  /\ UNCHANGED <<running, heapEnd, messageLoc>>

\* _sys_exec.
Exec(prog) ==
  /\ memPhase = "user"
  /\ Becomes(Load(mem, loaded, prog))
  /\ UNCHANGED <<pdir, running, loaded, heapEnd, messageLoc>>

\* _sys_exit: _cleanup.
ExitSpace ==
  /\ memPhase = "user" /\ running # initproc
  /\ mem' = DeallocDirectory(mem, loaded)
  /\ pdir' = [pdir EXCEPT ![running] = NONE]
  /\ loaded' = KernelDir
  /\ memPhase' = "dispatch"
  /\ Counted
  /\ UNCHANGED <<running, heapEnd, messageLoc>>

\* _dispatch, after an exit or for any other reason.
DispatchTo(p) ==
  /\ memPhase \in {"user", "dispatch"} /\ pdir[p] # NONE /\ p # running
  /\ running' = p
  /\ loaded' = pdir[p]
  /\ memPhase' = "user"
  /\ UNCHANGED <<mem, pdir, heapEnd, messageLoc, calls>>

\* The process writes the byte at addr.
WriteByte(addr) ==
  /\ memPhase = "user" /\ Frame(mem, loaded, addr \div FRAME_SIZE) # NONE
  /\ mem' = StoreByte(mem, loaded, addr, "own")
  /\ UNCHANGED <<pdir, running, loaded, heapEnd, messageLoc, memPhase, calls>>

\* _messages_copy_kern_to_proc: a page in the space of the receiver.
MessagePage(p) ==
  /\ memPhase = "user" /\ pdir[p] # NONE
  /\ messageLoc < MESSAGE_LOCATION_START + MaxMessages   \* bound
  /\ Becomes(MapNew(mem, pdir[p], messageLoc))
  /\ messageLoc' = messageLoc + 1
  /\ loaded' = pdir[running]
  /\ UNCHANGED <<pdir, running, heapEnd>>

-----------------------------------------------------------------------------
(* The kernel heap.                                                        *)

\* The directory in which __kmalloc maps new pages.
HeapDir == KernelDir

MapHeapPage(m, page) ==
  IF page > HEAP_MAX THEN [m EXCEPT !.panic = TRUE]
  ELSE MapNew(m, HeapDir, page)

\* __kmalloc needs n pages: they are mapped in the kernel's directory, each
\* after a look at the maximum, and the entries copied to that of _current.
GrowHeap(n) ==
  LET grown == Rounds(LAMBDA x, k : MapHeapPage(x, heapEnd + k), mem, n) IN
  /\ memPhase = "user"
  /\ heapEnd + n <= HEAP_START + MaxHeapPages            \* bound
  /\ Becomes(CopyHeapEntries(grown, HeapDir, pdir[running]))
  /\ heapEnd' = heapEnd + n
  /\ loaded' = pdir[running]
  /\ UNCHANGED <<pdir, running, messageLoc>>

\* Kernel code touches a page of the heap that its directory does not know:
\* _isr_page_fault.  Any other page would be a panic.
PageFault(page) ==
  /\ memPhase = "user"
  /\ page \in HEAP_START .. (heapEnd - 1) /\ page <= HEAP_MAX
  /\ Frame(mem, loaded, page) = NONE
  /\ mem' = CopyHeapEntries(mem, KernelDir, pdir[running])
  /\ loaded' = pdir[running]
  /\ Counted
  /\ UNCHANGED <<pdir, running, heapEnd, messageLoc, memPhase>>

-----------------------------------------------------------------------------
UserBytes == {(RESERVED_LO + 1) * FRAME_SIZE}

MemNext ==
  \/ \E p \in Procs : ForkSpace(p) \/ DispatchTo(p) \/ MessagePage(p)
  \/ \E prog \in Programs : Exec(prog)
  \/ ExitSpace
  \/ \E addr \in UserBytes : WriteByte(addr)
  \/ \E n \in GrowBy : GrowHeap(n)
  \/ \E page \in HEAP_START .. HEAP_MAX : PageFault(page)

MemSpec == MemInit /\ [][MemNext]_memVars

-----------------------------------------------------------------------------
(* Properties.                                                             *)

Live == {p \in Procs : pdir[p] # NONE}

\* The tables and the pages that directory d has for itself.
UserTables(d) ==
  {mem.entry[d][k] : k \in 1 .. (KERNEL_PAGE_DIR_INDEX - 1)} \ {NONE}
UserPages(d) ==
  {mem.entry[t][k] : t \in UserTables(d), k \in 0 .. LAST} \ {NONE}
Space(d) == {d} \cup UserTables(d) \cup UserPages(d)

\* The tables and the pages of the kernel.
KernelFrames ==
  {KernelDir, FirstTable, KernelTable}
    \cup ({mem.entry[KernelDir][k] : k \in HeapEntries \cup {HEAP_MAX \div ENTRIES}}
            \ {NONE})
    \cup {Frame(mem, KernelDir, page) : page \in HEAP_START .. (heapEnd - 1)}

\* Every frame that is in use has one owner, and a frame without one is free:
\* whatever sequence of fork, exec, exit, messages and growth has gone before,
\* no frame is in two address spaces, none is both free and mapped, and none is
\* lost.  (RAMDISK and the kernel lie outside of what is handed out.)
FramesOwned ==
  memPhase # "panic" =>
    /\ mem.taken = InitialBitmap \cup ({RAMDISK_PHYS + k : k \in 0 .. (RAMDISK_PAGES - 1)} \cap Frames)
                     \cup KernelFrames \cup UNION {Space(pdir[p]) : p \in Live}
    /\ \A p, q \in Live : p # q => Space(pdir[p]) \cap Space(pdir[q]) = {}
    /\ \A p \in Live : Space(pdir[p]) \cap (KernelFrames \cup InitialBitmap) = {}

\* All address spaces agree about the kernel: an entry of the heap is the one
\* of the kernel's directory or is not there yet; the others are the same.  So
\* a pointer into the heap means the same in each process, or faults.
KernelAgrees ==
  memPhase # "panic" =>
    \A p \in Live : \A k \in {0} \cup KERNEL_PAGE_DIR_INDEX .. (LAST - 1) :
      LET e == mem.entry[pdir[p]][k] IN
      e = mem.entry[KernelDir][k] \/ (k >= HEAP_START \div ENTRIES /\ e = NONE)

\* Frames have one owner, and the kernel is the same in every address space,
\* after any sequence of fork, exec, exit, messages and growth of the heap
\* (physical.c:84-193, paging.c:112-457).
DirectoriesSound == FramesOwned /\ KernelAgrees

\* "We've handled this error" (paging.c:435): after the page fault the page is
\* there, in the directory of the process that touched it.  The page that begins
\* at HEAP_MAX_LOCATION is the first of the RAM disk: __kmalloc still tries to
\* map it, and panics.
TouchedIsPresent ==
  [][\A page \in HEAP_START .. (HEAP_MAX - 1) :
       PageFault(page) => Frame(mem, loaded, page)' # NONE]_memVars

\* A child has the memory of its parent, byte for byte, in frames of its own.
ForkCopies ==
  [][\A p \in Procs : pdir[p] = NONE /\ pdir'[p] # NONE /\ memPhase' # "panic" =>
       \A page \in RESERVED_LO .. (KERNEL_PAGE_DIR_INDEX * ENTRIES - 1) :
         LET f == Frame(mem, loaded, page)
             c == Frame(mem', pdir'[p], page)
         IN  IF f = NONE THEN c = NONE
             ELSE c # NONE /\ mem'.data[c] = mem'.data[f]]_memVars

\* Directory d maps the byte at addr, and it is value.
ByteIs(m, d, addr, value) ==
  LET f == Frame(m, d, addr \div FRAME_SIZE) IN
  f # NONE /\ m.data[f][addr % FRAME_SIZE] = value

\* The step is the exec of prog, and it succeeds.
Executes(prog) ==
  /\ calls' # calls /\ UNCHANGED <<pdir, heapEnd, messageLoc>>
  /\ Exec(prog) /\ memPhase' # "panic"

FileLoaded(m, d, prog) ==
  \A n \in DOMAIN prog.segments :
    LET s == prog.segments[n] IN
    s.load => \A k \in 0 .. (s.filesz - 1) : ByteIs(m, d, s.vaddr + k, "file")

\* After exec every byte that the file has of a segment is in memory: a segment
\* that begins in the page in which another ends does not cost that one bytes,
\* nor does the clearing of what the file does not have.
ExecLoads ==
  [][\A prog \in Programs : Executes(prog) => FileLoaded(mem', loaded, prog)]_memVars

RestZeroed(m, d, prog) ==
  \A n \in DOMAIN prog.segments :
    LET s == prog.segments[n] IN
    s.load => \A k \in s.filesz .. (s.memsz - 1) : ByteIs(m, d, s.vaddr + k, "zero")

\* "We only need to zero the remaining bytes, p_filesz may be zero for data
\* sections, in this case the memory should be zeroed" (elf.c:141-142): the bytes
\* of a segment that the file does not have are zero after exec.
RestIsZero ==
  [][\A prog \in Programs : Executes(prog) => RestZeroed(mem', loaded, prog)]_memVars
=============================================================================
