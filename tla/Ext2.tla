-------------------------------- MODULE Ext2 --------------------------------
(***************************************************************************)
(* The ramdisk with its ext2 file system (read_ext2.c, write_ext2.c) under *)
(* the calls raw_read and raw_write (vfs.c).  Files are read and written,  *)
(* and grow; none is made or removed, and directories stay as they are.    *)
(*                                                                         *)
(* Calls do not overlap: each is one action.  The ramdisk is the array     *)
(* `disk' of bytes, block b at b * BLOCK_SIZE; what lies behind the end of *)
(* a block is the block with the next number.  Blocks of directory entries *)
(* and of pointers are known by what they contain.                         *)
(***************************************************************************)
EXTENDS Integers, Sequences, SequencesExt, FiniteSetsExt

CONSTANTS
  BLOCK_SIZE,
  DIRECT_BLOCKS,    \* EXT2_INODE_DIRECT_BLOCKS, the index of the indirect one
  PER_INDIRECT,     \* indirect_data_block_size
  blocks_count, inodes_count, inodes_per_group,
  SKEW,             \* blocks_per_group bytes, in inodes
  WORD,             \* numbers are modulo WORD
  ROOT,             \* EXT2_INODE_ROOT
  Image,            \* the ramdisk as the loader brings it
  Paths, Starts, Counts, Bytes,       \* what callers ask for
  AnyRequest,       \* or only what the code serves, see Served
  MaxWrites         \* a bound

\* struct ext2_inode: twelve blocks in the code, and one of pointers to blocks,
\* to blocks of pointers, and to blocks of these.
Inodes == [size : 0 .. (WORD - 1), blocks : [0 .. (DIRECT_BLOCKS + 2) -> Nat]]

\* An image: inode (a table: [size, blocks]), words (the block numbers in the
\* blocks of pointers), entries (in the blocks of directories, each an inode,
\* a name and whether its entry_length is larger than it must be), bits of the
\* block bitmap that are set, and disk.  Bit n stands for block n + 1.
ImageAssumption ==
  /\ {BLOCK_SIZE, DIRECT_BLOCKS, PER_INDIRECT, SKEW, inodes_per_group,
      blocks_count} \subseteq Nat \ {0}
  /\ WORD \in Nat /\ BLOCK_SIZE < WORD
  /\ Starts \cup Counts \subseteq 0 .. (WORD - 1)
  /\ 0 \in Image.bits                 \* the superblock
  /\ Image.bits \subseteq 0 .. (blocks_count - 1)
  /\ Image.inode \in [DOMAIN Image.inode -> Inodes]
  /\ DOMAIN Image.disk = 0 .. (blocks_count * BLOCK_SIZE - 1)
  /\ ROOT < inodes_per_group

ASSUME ImageAssumptions == ImageAssumption

VARIABLES
  fs,       \* the ramdisk: inode, bits, disk, and the two counts sbFree and
            \* groupFree of free blocks
  reply,    \* what the last call returned
  files,    \* history: the bytes of each file
  halted,   \* _kpanic was called
  writes    \* how many writes there were; a bound

fsVars == <<fs, reply, files, halted, writes>>

-----------------------------------------------------------------------------
(* Finding a file.                                                         *)

\* get_inode: the position in the table.  The group of the last inode of a
\* group is taken for the next one.
InodeAt(n) == n - 1 + (n \div inodes_per_group) * SKEW
GetInode(d, n) == d.inode[InodeAt(n)]

\* get_file_from_dir_inode: entries are tried up to one that has the name, one
\* with room behind it, or the end; after the last of a block come those of
\* the block that follows on the disk.
EntriesFrom(entries, b) ==
  entries[b] \o (IF b + 1 \in DOMAIN entries THEN entries[b + 1] ELSE <<>>)

FirstNamed(s, name) ==
  LET hits == {k \in DOMAIN s : s[k].name = name /\ \A j \in 1 .. (k - 1) : ~s[j].room}
  IN  IF hits = {} THEN 0 ELSE s[Min(hits)].inode

InDirectory(d, n, name) ==
  FirstNamed(EntriesFrom(d.entries, GetInode(d, n).blocks[0]), name)

\* get_file_from_dir_path: from the root through the directories of the path;
\* 0 is "not found".  The root is looked up as its own ".".
LookupOn(d) ==
  LET down(n, name) == IF n = 0 THEN 0 ELSE InDirectory(d, n, name)
      dirs(path)    == IF path.dirs = <<>> THEN <<".">> ELSE path.dirs
  IN  [path \in Paths |-> FoldLeft(down, ROOT, Append(dirs(path), path.name))]

Lookup == LookupOn(Image)

-----------------------------------------------------------------------------
(* The walk over the blocks of a file, the same loop in                    *)
(* ext2_read_file_by_inode and ext2_write_file_by_inode: which bytes of    *)
(* the disk n bytes from start on are.                                     *)
(*    k       inode_block_idx; it stays at the indirect block while there  *)
(*            are pointers left;                                           *)
(*    ind     indirect_inode_block_idx;                                    *)
(*    off     block_offset;                                                *)
(*    rem     remaining_bytes;                                             *)
(*    at      the addresses of the bytes so far, in order.                 *)

FirstStep(start, n) ==
  LET first == start \div BLOCK_SIZE IN
  [k |-> IF first >= DIRECT_BLOCKS THEN DIRECT_BLOCKS ELSE first,
   ind |-> IF first >= DIRECT_BLOCKS THEN first - DIRECT_BLOCKS ELSE 0,
   off |-> start % BLOCK_SIZE, rem |-> n, at |-> <<>>,
   done |-> FALSE, panic |-> FALSE]

\* The pointer at ind; behind the last one lies the block that follows.
Pointer(b, ind) ==
  LET at(words) == IF b \in DOMAIN words /\ ind \in DOMAIN words[b]
                   THEN words[b][ind] ELSE 0
  IN  at(Image.words)

\* The bytes of the step.  A request that fits in a block is taken to end in
\* this one, whatever the offset.
Piece_Whole(w) == IF w.rem < BLOCK_SIZE THEN w.rem ELSE BLOCK_SIZE
                                      \* without the offset: FilesKept
Piece(w) == IF w.rem < BLOCK_SIZE THEN w.rem ELSE BLOCK_SIZE - w.off

\* Of n bytes from offset off in block b on.
Addresses(b, off, n) == [j \in 1 .. n |-> b * BLOCK_SIZE + off + j - 1]

WalkStep(inode, w) ==
  LET indirect == w.k = DIRECT_BLOCKS
      b == IF indirect THEN Pointer(inode.blocks[w.k], w.ind)
           ELSE inode.blocks[w.k]
  IN  IF w.done \/ w.panic THEN w
      ELSE IF w.k > DIRECT_BLOCKS THEN [w EXCEPT !.panic = TRUE]
      ELSE [k |-> IF indirect /\ w.ind < PER_INDIRECT THEN w.k ELSE w.k + 1,
            ind |-> IF indirect THEN w.ind + 1 ELSE w.ind,
            off |-> 0,
            rem |-> w.rem - Piece(w),
            at |-> w.at \o Addresses(b, w.off, Piece(w)),
            done |-> w.rem < BLOCK_SIZE,
            panic |-> FALSE]

\* As many rounds as there are pointers, and one for what is left.
Walk(inode, start, n) ==
  LET most == DIRECT_BLOCKS + PER_INDIRECT + 2
      after[r \in 0 .. most] ==
        IF r = 0 THEN FirstStep(start, n) ELSE WalkStep(inode, after[r - 1])
  IN  after[most]

-----------------------------------------------------------------------------
(* Growing a file.                                                         *)

\* block_alloc: the first block whose number is a clear bit, taken; the counts
\* of the superblock and the group are kept.
MarkOccupied_Once(d, b) ==            \* one of the counts: BlocksSound
  [d EXCEPT !.bits = @ \cup {b}, !.sbFree = @ - 1]
MarkOccupied(d, b) ==
  [d EXCEPT !.bits = @ \cup {b}, !.sbFree = @ - 1, !.groupFree = @ - 1]

Clear(d) == {b \in 0 .. (blocks_count - 1) : b \notin d.bits}

\* increase_inode_size, one round of its loop: every block that it gets goes
\* to the same place in the inode.
GrowStep(d, at, idx) ==
  LET b == Min(Clear(d)) IN
  IF Clear(d) = {} THEN d
  ELSE [MarkOccupied(d, b) EXCEPT !.inode[at].blocks[idx] = b]

\* The blocks that are needed for extra bytes: what is free in the last block
\* is subtracted, modulo WORD.
BlocksNeeded(size, extra) ==
  LET slack == (BLOCK_SIZE - (size % BLOCK_SIZE)) % BLOCK_SIZE
      need  == (extra - slack) % WORD
  IN  (need + BLOCK_SIZE - 1) \div BLOCK_SIZE

Lengthened(d, at, idx, rounds) ==
  LET after[r \in 0 .. rounds] ==
        IF r = 0 THEN d ELSE GrowStep(after[r - 1], at, idx)
  IN  after[rounds]

Increase(d, at, extra) ==
  LET size == d.inode[at].size
      num  == BlocksNeeded(size, extra)
      idx  == size \div BLOCK_SIZE
      got  == Min({num, Cardinality(Clear(d))})
      n    == Lengthened(d, at, idx, got)
  IN  IF got > 0 /\ idx >= DIRECT_BLOCKS THEN [fs |-> d, panic |-> TRUE]
      ELSE [fs |-> [n EXCEPT !.inode[at].size =
                      (size + extra - (num - got) * BLOCK_SIZE) % WORD],
            panic |-> FALSE]

-----------------------------------------------------------------------------
(* What the files hold: block k of an inode, the files that paths name, and *)
(* their bytes.                                                             *)

BlockOf(inode, k) ==
  IF k < DIRECT_BLOCKS THEN inode.blocks[k]
  ELSE Pointer(inode.blocks[DIRECT_BLOCKS], k - DIRECT_BLOCKS)

TheFiles == {Lookup[path] : path \in {p \in Paths : p.slash}} \ {0}

\* The entries of directories name inodes of the table.
ASSUME FilesAssumption ==
  \A n \in TheFiles : n \in Nat /\ InodeAt(n) \in DOMAIN Image.inode

BlockCount(size) == (size + BLOCK_SIZE - 1) \div BLOCK_SIZE

BlocksIn(d, n) ==
  {BlockOf(GetInode(d, n), k) : k \in 0 .. (BlockCount(GetInode(d, n).size) - 1)}

\* Where byte p lies.
AddressOf(inode, p) ==
  BlockOf(inode, p \div BLOCK_SIZE) * BLOCK_SIZE + (p % BLOCK_SIZE)

Holds(d, inode) == [j \in 1 .. inode.size |-> d.disk[AddressOf(inode, j - 1)]]
Content(d) == [n \in TheFiles |-> Holds(d, GetInode(d, n))]

-----------------------------------------------------------------------------
(* The calls.                                                              *)

\* What both begin with.  The path is split at its last slash.
Found(path) == path.slash /\ Lookup[path] # 0

Fails(path) ==
  /\ reply' = [status |-> IF ~path.slash THEN "FS_E_NOT_FQN" ELSE "FS_E_NOFILE",
               count |-> 0]
  /\ ~Found(path)
  /\ UNCHANGED <<fs, files, halted, writes>>

\* ext2_read_file_by_inode: not beyond the end of the file.
Clamp(size, start, n) ==
  IF size >= (n + start) % WORD THEN n
  ELSE IF start > size THEN 0 ELSE size - start

\* What the caller gets of the bytes that the walk went over.
Deliver(w) ==
  /\ halted' = w.panic
  /\ reply' = IF w.panic THEN reply
              ELSE [status |-> "FS_E_OK",
                    data |-> [j \in DOMAIN w.at |-> fs.disk[w.at[j]]]]
  /\ UNCHANGED <<fs, files, writes>>

RawRead(path, start, n) ==
  LET read(inode) == Deliver(Walk(inode, start, Clamp(inode.size, start, n)))
  IN  Found(path) /\ read(GetInode(fs, Lookup[path]))

\* On the ramdisk g.fs, the n bytes that the walk went over become byte.
Overwrite(g, w, n, byte) ==
  /\ halted' = (g.panic \/ w.panic)
  /\ fs' = [g.fs EXCEPT !.disk =
              [a \in DOMAIN @ |-> IF a \in Range(w.at) THEN byte ELSE @[a]]]
  /\ reply' = [status |-> "FS_E_OK", count |-> n]
  /\ files' = Content(fs')

\* ext2_write_file_by_inode.  A start behind the end of the file is answered
\* with a status, which the caller takes for the number of bytes.
RawWrite(path, start, n, byte) ==
  LET end == (n + start) % WORD
      write(g, at) == Overwrite(g, Walk(g.fs.inode[at], start, n), n, byte)
      enter(at, size) ==
        IF size >= end THEN write([fs |-> fs, panic |-> FALSE], at)
        ELSE IF start <= size THEN write(Increase(fs, at, end - size), at)
        ELSE /\ reply' = [status |-> "FS_E_OK", count |-> 3]
             /\ UNCHANGED <<fs, files, halted>>
  IN
  /\ Found(path)
  /\ writes < MaxWrites /\ writes' = writes + 1          \* bound
  /\ LET at == InodeAt(Lookup[path]) IN enter(at, fs.inode[at].size)

\* get_file_size.
FileSize(path) ==
  /\ reply' = [status |-> "SIZE",
               count |-> IF ~path.slash THEN 2
                         ELSE IF Lookup[path] = 0 THEN 0
                         ELSE GetInode(fs, Lookup[path]).size]
  /\ UNCHANGED <<fs, files, halted, writes>>

-----------------------------------------------------------------------------
FsInit ==
  /\ fs = [inode |-> Image.inode, bits |-> Image.bits, disk |-> Image.disk,
           sbFree |-> blocks_count - Cardinality(Image.bits),
           groupFree |-> blocks_count - Cardinality(Image.bits)]
  /\ reply = [status |-> "NONE"]
  /\ files = Content(fs)
  /\ halted = FALSE
  /\ writes = 0

\* The requests that the code serves: their end is a number; one that fits in a
\* block crosses into the next only where the file goes on in the block that
\* follows on the disk; and one that makes a file grow only into its last block,
\* or by one block at a multiple of the block size while there are free blocks
\* and direct ones (which the request, if it fits in a block, does not cross into).
Crosses(inode, start, n) ==
  LET k == start \div BLOCK_SIZE IN
  /\ n < BLOCK_SIZE /\ (start % BLOCK_SIZE) + n > BLOCK_SIZE
  /\ BlockOf(inode, k + 1) # BlockOf(inode, k) + 1

ReadServed(path, start, n) ==
  LET inode == GetInode(fs, Lookup[path]) IN
  start + n < WORD /\ ~Crosses(inode, start, Clamp(inode.size, start, n))

WriteServed(path, start, n) ==
  LET inode == GetInode(fs, Lookup[path])
      size  == inode.size
      num   == BlocksNeeded(size, start + n - size)
  IN
  /\ start <= size /\ start + n < WORD /\ ~Crosses(inode, start, n)
  /\ start + n > size =>
       num = 0 \/ (/\ num = 1 /\ size % BLOCK_SIZE = 0 /\ Clear(fs) # {}
                   /\ size \div BLOCK_SIZE < DIRECT_BLOCKS
                   /\ n < BLOCK_SIZE => (start % BLOCK_SIZE) + n <= BLOCK_SIZE)

FsNext ==
  ~halted /\ \E path \in Paths :
    \/ Fails(path)
    \/ (AnyRequest \/ path.slash) /\ FileSize(path)
    \/ \E start \in Starts, n \in Counts :
         /\ Found(path)      \* before the requests are looked at
         /\ \/ (AnyRequest \/ ReadServed(path, start, n)) /\ RawRead(path, start, n)
            \/ /\ AnyRequest \/ WriteServed(path, start, n)
               /\ \E byte \in Bytes : RawWrite(path, start, n, byte)

FsSpec == FsInit /\ [][FsNext]_fsVars

-----------------------------------------------------------------------------
(* Properties.                                                             *)

BlocksOf(n) == BlocksIn(fs, n)

\* The images for which the bitmap keeps files apart though the search for a
\* free block answers with the number of a bit, which is that of the block
\* before: no file of the image lies in a block whose own number, too, is that
\* of a clear bit.
SparedImage ==
  /\ \A n, o \in TheFiles : n # o => BlocksIn(Image, n) \cap BlocksIn(Image, o) = {}
  /\ \A n \in TheFiles : \A b \in BlocksIn(Image, n) : {b - 1, b} \subseteq Image.bits

\* The images whose files the code can walk over: no longer than the direct
\* blocks and those of one block of pointers, and each block is one of them once.
PlainImage ==
  \A n \in TheFiles :
    LET inode  == GetInode(Image, n)
        blocks == 0 .. (BlockCount(inode.size) - 1)
    IN  /\ inode.size <= (DIRECT_BLOCKS + PER_INDIRECT) * BLOCK_SIZE
        /\ \A k, l \in blocks : BlockOf(inode, k) = BlockOf(inode, l) => k = l

\* The bitmap, the counts and the inodes agree: a block has at most one file, a
\* block of a file is not free, and both counts are what the bitmap says.
BlocksSound ==
  /\ \A n, o \in TheFiles : n # o => BlocksOf(n) \cap BlocksOf(o) = {}
  /\ \A n \in TheFiles : \A b \in BlocksOf(n) : b - 1 \in fs.bits
  /\ fs.sbFree = Cardinality(Clear(fs)) /\ fs.groupFree = Cardinality(Clear(fs))

\* The calls keep the promise of vfs.h.
Store == INSTANCE FileStore WITH
           Named <- {path \in Paths : Found(path)},
           FileAt <- Lookup,
           content <- files, answer <- reply
\* (For the requests that the code serves, see Served; with AnyRequest it fails.)
FilesKept == Store!FiSpec

\* "From the _offset_, write _nbytes_ from _buf_ into a file" (vfs.h:70): what a
\* write changes is bytes of its file.
WritesInside ==
  [][\A path \in Paths, start \in Starts, n \in Counts, byte \in Bytes :
       Found(path) /\ RawWrite(path, start, n, byte) /\ ~halted' =>
         \A a \in DOMAIN fs.disk :
           fs'.disk[a] # fs.disk[a] =>
             a \div BLOCK_SIZE \in BlocksOf(Lookup[path])']_fsVars
=============================================================================
