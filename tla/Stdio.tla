------------------------------- MODULE Stdio -------------------------------
(***************************************************************************)
(* A stream of user-test/lib/libc/stdio over a file: fread, fwrite, fseek, *)
(* fflush, setvbuf, fclose.  The file is a sequence of bytes with the      *)
(* offset of its descriptor, read and written through the vfs_ calls; a    *)
(* write is taken whole or refused (with an error, or with a count of 0    *)
(* as cpio_write does).  The rings are sequences; Containers has the ring. *)
(*                                                                         *)
(* The program keeps the rules of C: setvbuf comes first, a seek or flush  *)
(* comes between reading and writing, and it stops at the first error.     *)
(* f->eof is left out.                                                     *)
(***************************************************************************)
EXTENDS OpenFile, SequencesExt

CONSTANTS BufSize,   \* BUFSIZ, the size of f->buf and of both rings
          ReadLen,   \* the lengths the program reads
          Text,      \* the sequences of bytes it writes; "n" is a newline
          Offset,    \* the offsets it seeks by
          MaxLen     \* bound on the length of the file

VARIABLES file,      \* the bytes of the file
          off,       \* f_offset of its descriptor
          fifo_read, fifo_write,
          pos,       \* f->pos
          mode,      \* f->mode
          rwflush,   \* f->rwflush: "no", "read" or "write"
          state,     \* "open", "closed", "error" (f->error) or "hung" (a call never returns)
          last,      \* history: what the last fread returned
          did        \* history: the last transfer, "r" or "w"; "no" after a seek or flush

vars == <<file, off, fifo_read, fifo_write, pos, mode, rwflush, state, last, did>>

\* The stream as its program sees it: what waits in the ring is already in the file.
Promise == INSTANCE Stream WITH
             content <- IF state = "open" THEN Over(file, off, fifo_write) ELSE file,
             failed <- state \in {"error", "hung"}

\* fopen: __file_alloc at position 0.
Init ==
  /\ file \in UNION {[1..n -> {"x"}] : n \in 0..MaxLen}
  /\ off = 0 /\ pos = 0
  /\ fifo_read = <<>> /\ fifo_write = <<>>
  /\ mode = "_IOFBF" /\ rwflush = "no" /\ state = "open"
  /\ last = <<>> /\ did = "new"

setvbuf(m) ==
  /\ state = "open" /\ did = "new"
  /\ mode' = m /\ did' = "no"
  /\ UNCHANGED <<file, off, fifo_read, fifo_write, pos, rwflush, state, last>>

(***************************************************************************)
(* fread, fgetc, fgets: __stdio_read                                       *)
(***************************************************************************)

\* __unbuffered_read of n bytes at offset o: vfs_read is repeated until it returns 0.
Fetch(o, n) == SubSeq(file, o + 1, o + cpio_read(Len(file), o, n))

Unbuffered(n) ==
  /\ last' = Fetch(off, n)
  /\ off' = off + Len(last')
  /\ UNCHANGED <<fifo_read, rwflush>>

Take(s, n) == SubSeq(s, 1, IF n < Len(s) THEN n ELSE Len(s))
Drop(s, n) == SubSeq(s, n + 1, Len(s))

\* First what was read ahead, then whole buffers straight from the file, then one more
\* buffer, of which the bytes not asked for are kept.
FullyBuffered(n) ==
  LET a == Take(fifo_read, n)
      size == n - Len(a)
      rem == size % BufSize
      b == Fetch(off, size - rem)
      buf == IF rem = 0 \/ (size >= BufSize /\ b = <<>>) THEN <<>>
             ELSE Fetch(off + Len(b), BufSize)
  IN /\ last' = a \o b \o Take(buf, rem)
     /\ off' = off + Len(b) + Len(buf)
     /\ fifo_read' = Drop(fifo_read, n) \o Drop(buf, rem)
     /\ rwflush' = IF size = 0 THEN rwflush ELSE IF Len(buf) > rem THEN "read" ELSE "no"

\* At the end of the file the program may turn to writing.
fread(n) ==
  /\ state = "open" /\ did # "w"
  /\ IF mode = "_IOFBF" THEN FullyBuffered(n) ELSE Unbuffered(n)
  /\ pos' = pos + Len(last')
  /\ did' = IF Len(last') < n THEN "no" ELSE "r"
  /\ UNCHANGED <<file, fifo_write, mode, state>>

(***************************************************************************)
(* fwrite, fputc, fputs: __stdio_write                                     *)
(***************************************************************************)

\* The pieces a write puts into the file, in order, and what it leaves in the ring.  Bytes
\* go into the ring, behind a flush if there is no room; more than a ring goes straight out.
Buffered(ring, s) ==
  [direct |-> Len(s) > BufSize] @@
  IF Len(ring) + Len(s) <= BufSize THEN [out |-> <<>>, in |-> ring \o s]
  ELSE IF Len(s) > BufSize THEN [out |-> <<ring, s>>, in |-> <<>>]
  ELSE [out |-> <<ring>>, in |-> s]

\* Faulty variant: the line goes out before the bytes that wait in the ring.
LineOvertakes(ring, s) ==
  LET nl == {i \in 1..Len(s) : s[i] = "n"}
      i == CHOOSE j \in nl : \A k \in nl : k <= j
  IN IF nl = {} THEN Buffered(ring, s)
     ELSE [out |-> <<Take(s, i), ring>>, in |-> Drop(s, i), direct |-> FALSE]

\* _IOLBF: up to the last newline everything goes out, the rest is buffered.
LineBuffered(ring, s) ==
  LET nl == {i \in 1..Len(s) : s[i] = "n"}
      i == CHOOSE j \in nl : \A k \in nl : k <= j
      left == Buffered(<<>>, Drop(s, i))
  IN IF nl = {} THEN Buffered(ring, s)
     ELSE [left EXCEPT !.out = <<ring, Take(s, i)>> \o left.out]

Pieces(s) == CASE mode = "_IONBF" -> [out |-> <<s>>, in |-> <<>>, direct |-> FALSE]
               [] mode = "_IOLBF" -> LineBuffered(fifo_write, s)
               [] mode = "_IOFBF" -> Buffered(fifo_write, s)

Stored(s) == file' = Over(file, off, s) /\ off' = off + Len(s)

\* A piece is refused.  The loop around a direct write takes a count of 0 for progress and
\* goes on for ever; everywhere else the call sets f->error and returns.
Refused(piece, direct) ==
  /\ piece # <<>>
  /\ state' \in {"error"} \cup (IF direct THEN {"hung"} ELSE {})

fwrite(s) ==
  /\ state = "open" /\ did # "r" /\ pos + Len(s) <= MaxLen
  /\ LET p == Pieces(s) IN
     \/ /\ Stored(FlattenSeq(p.out)) /\ fifo_write' = p.in /\ pos' = pos + Len(s)
        /\ rwflush' = CASE mode = "_IONBF" -> rwflush
                        [] mode = "_IOLBF" /\ p.in = <<>> /\ Len(p.out) = 2 -> "no"
                        [] OTHER -> "write"
        /\ did' = "w"
        /\ UNCHANGED state
     \/ \E i \in 1..Len(p.out) :
          /\ Refused(p.out[i], p.direct /\ i = Len(p.out))
          /\ Stored(FlattenSeq(SubSeq(p.out, 1, i - 1)))
          /\ fifo_write' = IF i = 1 THEN fifo_write ELSE <<>>
          /\ pos' = IF i = 1 THEN pos
                    ELSE pos + Len(FlattenSeq(SubSeq(p.out, 2, i - 1)))
          /\ UNCHANGED <<rwflush, did>>
  /\ UNCHANGED <<fifo_read, mode, last>>

(***************************************************************************)
(* fflush, fseek, fclose                                                   *)
(***************************************************************************)

\* __stdio_read_flush
ReadFlush == fifo_read' = <<>> /\ rwflush' = "no" /\ UNCHANGED <<file, fifo_write>>

\* __stdio_write_flush, when the file takes it
WriteFlush ==
  /\ file' = Over(file, off, fifo_write) /\ fifo_write' = <<>>
  /\ rwflush' = "no" /\ UNCHANGED fifo_read

fflush ==
  /\ state = "open" /\ did # "r"
  /\ \/ WriteFlush /\ off' = off + Len(fifo_write) /\ UNCHANGED state
     \/ Refused(fifo_write, FALSE) /\ UNCHANGED <<file, off, fifo_read, fifo_write, rwflush>>
  /\ did' = "no"
  /\ UNCHANGED <<pos, mode, last>>

\* The descriptor's offset after f->rwflush(f).
FlushedOff == CASE rwflush = "read" -> vfs_lseek(Len(file), off, pos, "SET")
                [] rwflush = "write" -> off + Len(fifo_write)
                [] rwflush = "no" -> off

Flush == CASE rwflush = "read" -> ReadFlush
           [] rwflush = "write" -> WriteFlush
           [] rwflush = "no" -> UNCHANGED <<file, fifo_read, fifo_write, rwflush>>

\* A refused flush is not looked at: the bytes stay in the ring and the seek goes on.
fseek(o, whence) ==
  /\ state = "open"
  /\ \/ /\ Flush /\ UNCHANGED state
        /\ off' = vfs_lseek(Len(file'), FlushedOff, o, whence)
     \/ /\ rwflush = "write" /\ Refused(fifo_write, FALSE)
        /\ off' = vfs_lseek(Len(file), off, o, whence)
        /\ UNCHANGED <<file, fifo_read, fifo_write, rwflush>>
  /\ pos' = off' /\ did' = "no"
  /\ UNCHANGED <<mode, last>>

\* When the flush is refused the stream is not closed.
fclose ==
  /\ state = "open"
  /\ \/ Flush /\ off' = FlushedOff /\ state' = "closed"
     \/ /\ rwflush = "write" /\ Refused(fifo_write, FALSE)
        /\ UNCHANGED <<file, off, fifo_read, fifo_write, rwflush>>
  /\ UNCHANGED <<pos, mode, last, did>>

Next ==
  \/ \E m \in {"_IONBF", "_IOLBF", "_IOFBF"} : setvbuf(m)
  \/ \E n \in ReadLen : fread(n)
  \/ \E s \in Text : fwrite(s)
  \/ fflush
  \/ \E o \in Offset, whence \in {"SET", "CUR", "END"} : fseek(o, whence)
  \/ fclose

Spec == Init /\ [][Next]_vars

-----------------------------------------------------------------------------

\* In every mode, whatever waits in the rings, reads return the bytes of the file at
\* ftell with all earlier writes in it, in order, and fclose loses none of them
\* (__stdio_read, __stdio_write, the flushes), until the file refuses a write.
StreamKeepsPromise == Promise!Spec
=============================================================================
