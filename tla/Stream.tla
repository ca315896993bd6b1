------------------------------- MODULE Stream -------------------------------
(***************************************************************************)
(* What a stdio stream promises its program, without buffers: a sequence   *)
(* of bytes and a position, until the file refuses to be written.  Module  *)
(* Stdio implements it.                                                    *)
(***************************************************************************)
EXTENDS OpenFile, Sequences

CONSTANTS ReadLen,   \* the lengths a program reads
          Text,      \* the sequences it writes
          Offset     \* the offsets it seeks by

VARIABLES content,   \* the bytes of the file as the program sees them
          pos,       \* ftell
          last,      \* what the last fread returned
          failed     \* ferror: from here on nothing is promised

Init == content \in Seq({"x"}) /\ pos = 0 /\ last = <<>> /\ ~failed

Read(n) ==
  /\ last' = SubSeq(content, pos + 1, pos + cpio_read(Len(content), pos, n))
  /\ pos' = pos + Len(last')
  /\ UNCHANGED <<content, failed>>

Write(s) ==
  /\ content' = Over(content, pos, s)
  /\ pos' = pos + Len(s)
  /\ UNCHANGED <<last, failed>>

Seek(off, whence) ==
  /\ pos' = vfs_lseek(Len(content), pos, off, whence)
  /\ UNCHANGED <<content, last, failed>>

Fail == failed'

Next ==
  /\ ~failed
  /\ \/ \E n \in ReadLen : Read(n)
     \/ \E s \in Text : Write(s)
     \/ \E off \in Offset, whence \in {"SET", "CUR", "END"} : Seek(off, whence)
     \/ Fail

Spec == Init /\ [][Next]_<<content, pos, last, failed>>
=============================================================================
