----------------------------- MODULE MCStorage ------------------------------
(***************************************************************************)
(* The parts of the kernel that keep memory and data: the heap, the page   *)
(* frames and address spaces, and the file system.  They do not interact   *)
(* here: part says which one a behaviour runs.                             *)
(***************************************************************************)
EXTENDS Heap, Memory, Ext2, TLC
CONSTANTS p1, p2, p3

\* What exec can load: an aligned program, one whose segments share a page, one
\* with three bytes that its file does not have, and a file that is refused.
Seg(vaddr, filesz, memsz) ==
  [load |-> TRUE, vaddr |-> vaddr, filesz |-> filesz, memsz |-> memsz]
Note == [load |-> FALSE, vaddr |-> 0, filesz |-> 1, memsz |-> 1]
MCInitproc == [wrong |-> {}, segments |-> <<Seg(16, 4, 4)>>]
MCShared   == [wrong |-> {}, segments |-> <<Seg(16, 1, 1), Note, Seg(17, 3, 3)>>]
MCBss      == [wrong |-> {}, segments |-> <<Seg(14, 2, 5)>>]
MCBad      == [wrong |-> {"magic"}, segments |-> <<>>]
MCPrograms == {MCInitproc, MCShared, MCBss, MCBad}

\* 18 blocks: 1 superblock, 2 descriptors, 3 and 4 bitmaps, 5 inodes, 6 the
\* root, 7 lost+found, 8 and 9 free, 10 /etc, 11 to 15 the file a with its
\* block of pointers 13, 16 and 17 the file /etc/m; /etc/e is empty.
Of(bytes, b0, b1, b2) ==
  [size |-> bytes, blocks |-> [k \in 0 .. 4 |-> CASE k = 0 -> b0 [] k = 1 -> b1
                                                 [] k = 2 -> b2 [] OTHER -> 0]]
Ent(n, name, room) == [inode |-> n, name |-> name, room |-> room]
MCImage ==
  [inode   |-> 0 :> Of(0, 0, 0, 0) @@ 1 :> Of(4, 6, 0, 0) @@ 2 :> Of(4, 10, 0, 0)
                 @@ 3 :> Of(14, 11, 12, 13) @@ 4 :> Of(6, 16, 17, 0)
                 @@ 5 :> Of(0, 0, 0, 0),
   words   |-> 13 :> (0 :> 14 @@ 1 :> 15),
   entries |-> 6  :> <<Ent(2, ".", FALSE), Ent(2, "..", FALSE),
                       Ent(3, "etc", FALSE), Ent(4, "a", TRUE)>>
            @@ 10 :> <<Ent(3, ".", FALSE), Ent(2, "..", FALSE),
                       Ent(5, "m", FALSE), Ent(6, "e", TRUE)>>,
   bits    |-> 0 .. 6 \cup 9 .. 17,
   disk    |-> [a \in 0 .. 71 |-> a]]
Path(slash, dirs, name) == [slash |-> slash, dirs |-> dirs, name |-> name]
MCPaths == {Path(TRUE, <<>>, "a"), Path(TRUE, <<"etc">>, "m"),
            Path(TRUE, <<"etc">>, "e"), Path(TRUE, <<"etc">>, "a"),
            Path(TRUE, <<"usr">>, "m"), Path(FALSE, <<>>, "a")}

\* The image is one that the search for a free block spares.
ASSUME MCImageIsSpared == SparedImage /\ PlainImage

VARIABLE part

storageVars == <<part, vars, memVars, fsVars>>

StorageInit ==
  /\ part \in {"heap", "memory", "files"}
  /\ Init /\ MemInit /\ FsInit

StorageNext ==
  /\ UNCHANGED part
  /\ \/ part = "heap" /\ Next /\ UNCHANGED <<memVars, fsVars>>
     \/ part = "memory" /\ MemNext /\ UNCHANGED <<vars, fsVars>>
     \/ part = "files" /\ FsNext /\ UNCHANGED <<vars, memVars>>

StorageSpec ==
  /\ StorageInit /\ [][StorageNext]_storageVars
  /\ WF_vars(part = "heap" /\ Loop)
=============================================================================
