----------------------------- MODULE FileServer -----------------------------
(***************************************************************************)
(* The file server user-test/vfs_server and its clients' stubs             *)
(* user-test/lib/vfs.c.  Every client has a connection, with a buffer it   *)
(* shares with the server thread that serves it.  The server threads run   *)
(* the code of vfs_server/vfs.c side by side, preempted anywhere: the      *)
(* mutexes of user-test/include/mutex.h are empty functions.               *)
(*                                                                         *)
(* The file system is the read-only cpio archive.  Nodes and their counts  *)
(* are in module Vfs.                                                      *)
(***************************************************************************)
EXTENDS OpenFile, FiniteSets, FiniteSetsExt, Sequences

CONSTANTS Client,
          File, Dir,      \* the files and directories of the archive
          Size,           \* the size of each, for a directory its entries
          Fd,             \* the descriptors from 3 on
          Len1,           \* the lengths clients ask for
          Offset,         \* the offsets clients seek by
          NoFile,
          Serial          \* no two clients are in vfs_open at a time

VARIABLES data,           \* the bytes behind the request in each shared buffer
          pc,             \* where the server thread of each connection is
          loc,            \* the request it works on, and its local variables
          fd_file,        \* f_node and f_offset of each descriptor
          mine            \* history: what each client has open, and its position there

vars == <<data, pc, loc, fd_file, mine>>

Zero == <<NoFile, 0>>
Byte(f, i) == <<f, i>>
Closed == [node |-> NoFile, offset |-> 0]
NoCall == [n |-> NoFile, fd |-> 0, len |-> 0, off |-> 0, whence |-> "none", ret |-> 0]

Init ==
  /\ data = [c \in Client |-> <<>>]
  /\ pc = [c \in Client |-> "idle"]
  /\ loc = [c \in Client |-> NoCall]
  /\ fd_file = [fd \in Fd |-> Closed]
  /\ mine = [c \in Client |-> [fd \in Fd |-> Closed]]

(***************************************************************************)
(* The client's side                                                       *)
(***************************************************************************)

\* Faulty variant: the message keeps the bytes of the one before.
KeepsOldData(c, len) ==
  [i \in 1..len |-> IF i <= Len(data[c]) THEN data[c][i] ELSE Zero]

\* ipc_create_msg clears the data area of the message.
ipc_create_msg(c, len) == [i \in 1..len |-> Zero]

\* ipc_call: the request is in the buffer, the server thread starts on it.
Request(c, req, call, len) ==
  /\ pc[c] = "idle"
  /\ data' = [data EXCEPT ![c] = ipc_create_msg(c, len)]
  /\ loc' = [loc EXCEPT ![c] = call]
  /\ pc' = [pc EXCEPT ![c] = req]
  /\ UNCHANGED <<fd_file, mine>>

vfs_open(c, f) ==
  /\ Serial => \A d \in Client : pc[d] \notin {"open", "install"}
  /\ Request(c, "open", [NoCall EXCEPT !.n = f], 0)

\* A client uses the descriptors it was given.
OnFd(c, req, fd, files) ==
  mine[c][fd].node \in files /\ Request(c, req, [NoCall EXCEPT !.fd = fd], 0)
vfs_readdir(c, fd) == OnFd(c, "readdir", fd, Dir)
vfs_rewinddir(c, fd) == OnFd(c, "rewind", fd, Dir)
vfs_close(c, fd) == OnFd(c, "close", fd, File \cup Dir)
vfs_read(c, fd, len) ==
  mine[c][fd].node \in File /\ Request(c, "read", [NoCall EXCEPT !.fd = fd, !.len = len], len)
vfs_seek(c, fd, off, w) ==
  /\ mine[c][fd].node # NoFile
  /\ Request(c, "lseek", [NoCall EXCEPT !.fd = fd, !.off = off, !.whence = w], 0)

(***************************************************************************)
(* The server thread of client c: fs_dispatch and the functions of         *)
(* vfs_server/vfs.c, up to ipc_return, after which the stub returns.       *)
(***************************************************************************)

f_of(c) == fd_file[loc[c].fd]

\* ipc_return, and the stub returns to its caller.
ipc_return(c) ==
  /\ pc' = [pc EXCEPT ![c] = "idle"]
  /\ loc' = [loc EXCEPT ![c] = NoCall]
  /\ UNCHANGED data

\* vfs_open: the node is acquired, vfs_fd_alloc finds a descriptor.
OpenAlloc(c) ==
  LET free == {fd \in Fd : fd_file[fd].node = NoFile}
  IN /\ pc[c] = "open"
     /\ IF free = {} THEN ipc_return(c)
        ELSE /\ loc' = [loc EXCEPT ![c].fd = Min(free)]
             /\ pc' = [pc EXCEPT ![c] = "install"]
             /\ UNCHANGED data
     /\ UNCHANGED <<fd_file, mine>>

\* The node is put into the table, the descriptor returned.
OpenInstall(c) ==
  /\ pc[c] = "install"
  /\ fd_file' = [fd_file EXCEPT ![loc[c].fd] = [node |-> loc[c].n, offset |-> 0]]
  /\ mine' = [mine EXCEPT ![c][loc[c].fd] = [node |-> loc[c].n, offset |-> 0]]
  /\ ipc_return(c)

\* vfs_read: the bytes from f_offset on go to the message.
ReadData(c) ==
  /\ pc[c] = "read"
  /\ LET n == cpio_read(Size[f_of(c).node], f_of(c).offset, loc[c].len)
     IN /\ loc' = [loc EXCEPT ![c].ret = n]
        /\ data' = [data EXCEPT ![c] =
             [i \in 1..loc[c].len |-> IF i <= n THEN Byte(f_of(c).node, f_of(c).offset + i) ELSE @[i]]]
  /\ pc' = [pc EXCEPT ![c] = "advance"]
  /\ UNCHANGED <<fd_file, mine>>

\* f_offset moves on; the stub copies all the bytes asked for, however many were read.
ReadAdvance(c) ==
  /\ pc[c] = "advance"
  /\ fd_file' = [fd_file EXCEPT ![loc[c].fd].offset = @ + loc[c].ret]
  /\ mine' = [mine EXCEPT ![c][loc[c].fd].offset = @ + loc[c].ret]
  /\ ipc_return(c)

\* Where a client that asks for position to in a file of the size expects to be.
Clamp(size, to) == IF to < 0 THEN 0 ELSE IF to > size THEN size ELSE to
Base(f, whence) == CASE whence = "SET" -> 0 [] whence = "CUR" -> f.offset [] whence = "END" -> Size[f.node]

\* vfs_lseek
Seek(c) ==
  /\ pc[c] = "lseek"
  /\ fd_file' = [fd_file EXCEPT ![loc[c].fd].offset =
       vfs_lseek(Size[f_of(c).node], @, loc[c].off, loc[c].whence)]
  /\ mine' = [mine EXCEPT ![c][loc[c].fd].offset =
       Clamp(Size[mine[c][loc[c].fd].node], Base(mine[c][loc[c].fd], loc[c].whence) + loc[c].off)]
  /\ ipc_return(c)

\* vfs_readdir: the entry goes to the message and f_offset moves on; at the end an
\* error comes back.
Readdir(c) ==
  /\ pc[c] = "readdir"
  /\ LET more == cpio_readdir(Size[f_of(c).node], f_of(c).offset)
     IN /\ fd_file' = [fd_file EXCEPT ![loc[c].fd].offset = IF more THEN @ + 1 ELSE @]
        /\ mine' = [mine EXCEPT ![c][loc[c].fd].offset = IF more THEN @ + 1 ELSE @]
  /\ ipc_return(c)

\* vfs_rewinddir
Rewind(c) ==
  /\ pc[c] = "rewind"
  /\ fd_file' = [fd_file EXCEPT ![loc[c].fd].offset = 0]
  /\ mine' = [mine EXCEPT ![c][loc[c].fd].offset = 0]
  /\ ipc_return(c)

\* vfs_close: the node is released, then vfs_fd_free clears the descriptor.
CloseRelease(c) ==
  /\ pc[c] = "close"
  /\ loc' = [loc EXCEPT ![c].n = f_of(c).node]
  /\ pc' = [pc EXCEPT ![c] = "free"]
  /\ UNCHANGED <<data, fd_file, mine>>

CloseFree(c) ==
  /\ pc[c] = "free"
  /\ fd_file' = [fd_file EXCEPT ![loc[c].fd] = Closed]
  /\ mine' = [mine EXCEPT ![c][loc[c].fd] = Closed]
  /\ ipc_return(c)

Serve(c) == \/ OpenAlloc(c) \/ OpenInstall(c) \/ ReadData(c) \/ ReadAdvance(c) \/ Seek(c)
            \/ Readdir(c) \/ Rewind(c) \/ CloseRelease(c) \/ CloseFree(c)

Calls(c) ==
  \/ \E f \in File \cup Dir : vfs_open(c, f)
  \/ \E fd \in Fd : \/ \E len \in Len1 : vfs_read(c, fd, len)
                    \/ \E off \in Offset, w \in {"SET", "CUR", "END"} : vfs_seek(c, fd, off, w)
                    \/ vfs_readdir(c, fd) \/ vfs_rewinddir(c, fd) \/ vfs_close(c, fd)

Next == \E c \in Client : Calls(c) \/ Serve(c)

Spec == Init /\ [][Next]_vars

(***************************************************************************)
(* Properties                                                              *)
(***************************************************************************)

\* A descriptor stays what its client opened, at the position its own calls put it:
\* whatever the server threads of the other clients do meanwhile, nobody gets it again,
\* moves it or frees it.  As long as no two clients open at a time: vfs_fd_alloc does
\* not reserve the descriptor it finds, and the lock around it is empty.
DescriptorsPrivate ==
  \A c \in Client, fd \in Fd :
    mine[c][fd].node # NoFile /\ pc[c] = "idle" => fd_file[fd] = mine[c][fd]

\* A read delivers the bytes of the file from the client's position on, as many as
\* there are, and zeros after them, never what an earlier call left in the buffer
\* both sides share, although the stub copies all the bytes it asked for.
ReadsExact ==
  \A c \in Client :
    pc[c] = "advance" =>
      LET f == mine[c][loc[c].fd]
      IN data[c] = [i \in 1..loc[c].len |->
           IF f.offset + i <= Size[f.node] THEN Byte(f.node, f.offset + i) ELSE Zero]
=============================================================================
