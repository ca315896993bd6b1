------------------------------ MODULE OpenFile ------------------------------
(***************************************************************************)
(* What fs/vfs.c does with an open file: vfs_read, vfs_lseek and           *)
(* vfs_readdir on a file of a given size, as cpio serves them.  The size   *)
(* of a directory is the number of its entries.                            *)
(***************************************************************************)
EXTENDS Integers, Sequences

\* cpio_read: the count it returns.
cpio_read(size, off, len) == IF off >= size THEN 0
                             ELSE IF size - off < len THEN size - off ELSE len

\* cpio_readdir finds entry number off; vfs_readdir then adds d_reclen, which is 1.
cpio_readdir(size, off) == off < size

\* vfs_lseek: the new f_offset.
vfs_lseek(size, offset, off, whence) ==
  LET to == CASE whence = "SET" -> IF off < 0 THEN 0 ELSE IF off > size THEN size ELSE off
              [] whence = "CUR" -> IF offset + off > size THEN size
                                   ELSE IF offset + off < 0 THEN 0 ELSE offset + off
              [] whence = "END" -> IF off > 0 THEN size
                                   ELSE IF size + off < 0 THEN 0 ELSE size + off
              [] OTHER -> offset
  IN IF to <= size THEN to ELSE offset

\* What a file system that takes a write does: s over the bytes of c from offset p on.
Over(c, p, s) ==
  [i \in 1..(IF p + Len(s) > Len(c) THEN p + Len(s) ELSE Len(c)) |->
     IF i > p /\ i <= p + Len(s) THEN s[i - p] ELSE c[i]]
=============================================================================
