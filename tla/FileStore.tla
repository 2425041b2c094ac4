----------------------------- MODULE FileStore -----------------------------
(***************************************************************************)
(* What the file system promises (vfs.h), whatever lies underneath: each   *)
(* path that names a file has a sequence of bytes; a read returns the part *)
(* that was asked for, as far as there is one, and a write replaces a part *)
(* or extends the file without leaving a gap.                              *)
(***************************************************************************)
EXTENDS Integers, Sequences

CONSTANTS Paths, Named,  \* Named: the paths that name a file
          FileAt         \* the file that such a path names
CONSTANTS Starts, Counts, Bytes

VARIABLES
  content,  \* the bytes of each file
  answer    \* of the last call: its status, and the bytes or the number of them

\* Any files.
FiInit == answer = [status |-> "NONE"]

FiSmaller(a, b) == IF a < b THEN a ELSE b

FiRead(p, start, n) ==
  LET s == content[FileAt[p]] IN
  /\ p \in Named
  /\ answer' = [status |-> "FS_E_OK",
                data |-> SubSeq(s, start + 1, FiSmaller(start + n, Len(s)))]
  /\ UNCHANGED content

FiWrite(p, start, n, byte) ==
  LET s == content[FileAt[p]] IN
  /\ p \in Named /\ start <= Len(s)
  /\ answer' = [status |-> "FS_E_OK", count |-> n]
  /\ content' = [content EXCEPT ![FileAt[p]] =
       [k \in 1 .. (IF start + n > Len(s) THEN start + n ELSE Len(s)) |->
          IF k > start /\ k <= start + n THEN byte ELSE s[k]]]

FiSize(p) ==
  /\ answer' = [status |-> "SIZE", count |-> IF p \in Named THEN Len(content[FileAt[p]])
                                             ELSE 0]
  /\ UNCHANGED content

\* There is no such file: nothing is changed.
FiFails(p) ==
  /\ p \notin Named
  /\ answer' \in [status : {"FS_E_NOFILE", "FS_E_NOT_FQN"}, count : {0}]
  /\ UNCHANGED content

FiNext ==
  \E p \in Paths :
    \/ \E start \in Starts, n \in Counts :
         FiRead(p, start, n) \/ \E byte \in Bytes : FiWrite(p, start, n, byte)
    \/ FiSize(p) \/ FiFails(p)

FiSpec == FiInit /\ [][FiNext]_<<content, answer>>
=============================================================================
