----------------------------- MODULE MCServers -----------------------------
(***************************************************************************)
(* The connections of programs to a server, and the files behind them, one *)
(* layer in each behaviour:                                                *)
(*  - "connect": two clients connect to a server and send it capabilities; *)
(*  - "vfs": the file system layer with two file systems mounted on / and  *)
(*    on /a, two descriptors and the paths /, /a, /b and /a/b;             *)
(*  - "cpio": the archive file system, with archives of up to four of      *)
(*    eight entries;                                                       *)
(*  - "server": two clients of the file server with two descriptors, a     *)
(*    file of three bytes and a directory of two entries;                  *)
(*  - "stream": one stream of the C library with rings of two bytes over a *)
(*    file of up to four.                                                  *)
(***************************************************************************)
EXTENDS Connections, TLC

CONSTANTS Layers, Mount, NoNode, File, Dir, NoFile

VARIABLES layer,
          mnt_list, info, nodes, fd_file, tree, undefined,                       \* of Vfs
          archive,                                                               \* of Vfs: cpio
          data, pc, loc, fds, mine,                                              \* of FileServer
          file, off, fifo_read, fifo_write, pos, mode, rwflush, state, last, did \* of Stdio

Pages == 0..11

vfsVars == <<mnt_list, info, nodes, fd_file, tree, undefined>>
serverVars == <<data, pc, loc, fds, mine>>
streamVars == <<file, off, fifo_read, fifo_write, pos, mode, rwflush, state, last, did>>
fileVars == <<vfsVars, archive, serverVars, streamVars>>

MCPath == {<<>>, <<"a">>, <<"b">>, <<"a", "b">>}
MCFlags == {{"W", "CREAT", "EXCL"}, {"W", "TRUNC"}}
\* Names of one to three letters and directories, so that every padding occurs, paths that
\* begin alike, files of every size modulo 4, and an entry that is hidden.
E(path, type, size) == [path |-> path, type |-> type, size |-> size]
MCEntry == {E(<<"a">>, "dir", 0), E(<<"a", "b">>, "reg", 3), E(<<"a", "/", "a">>, "reg", 1),
            E(<<"a", "/", "b">>, "dir", 0), E(<<"a", "/", "b", "/", "a">>, "reg", 4),
            E(<<"b">>, "reg", 2), E(<<".">>, "dir", 0), E(<<"b", "b", "a">>, "reg", 5)}
Layer == INSTANCE Vfs WITH Path <- MCPath, MountPoint <- {<<>>, <<"a">>}, Flags <- MCFlags,
                           Fd <- {3, 4}, MaxLost <- 1, Entry <- MCEntry, MaxEntries <- 4

MCSize == [x \in File \cup Dir |-> IF x \in File THEN 3 ELSE 2]
Files == INSTANCE FileServer WITH Size <- MCSize, Fd <- {3, 4}, Len1 <- {1, 2}, Offset <- {-4, 1},
                                  Serial <- TRUE, fd_file <- fds

\* Texts shorter and longer than a ring, with and without a newline.
MCText == {<<"a">>, <<"n", "a">>, <<"n", "a", "a", "a">>}
Stdio == INSTANCE Stdio WITH BufSize <- 2, ReadLen <- {1, 3}, Text <- MCText,
                             Offset <- {-1, 3}, MaxLen <- 4

\* The clients start alike and nothing orders them, and so do the mounts.
Clients == Permutations(Client)
Mounts == Permutations(Mount)

ServersInit ==
  /\ layer \in Layers
  /\ Init /\ Layer!Init /\ Layer!CpioInit /\ Files!Init /\ Stdio!Init
  /\ layer # "stream" => file = <<>>

ServersNext ==
  /\ UNCHANGED layer
  /\ \/ layer = "connect" /\ Next /\ UNCHANGED fileVars
     \/ layer = "vfs" /\ Layer!Next /\ UNCHANGED <<vars, archive, serverVars, streamVars>>
     \/ layer = "cpio" /\ Layer!Grow /\ UNCHANGED <<vars, vfsVars, serverVars, streamVars>>
     \/ layer = "server" /\ Files!Next /\ UNCHANGED <<vars, vfsVars, archive, streamVars>>
     \/ layer = "stream" /\ Stdio!Next /\ UNCHANGED <<vars, vfsVars, archive, serverVars>>

ServersSpec == ServersInit /\ [][ServersNext]_<<layer, vars, fileVars>>

(***************************************************************************)
(* Properties                                                              *)
(***************************************************************************)

\* Every connection has memory of its own: client and server see the same pages as its
\* buffer, and the server thread's stack is the one made for it; capabilities name their
\* objects for good, and the lists of regions tell the truth about the page tables that
\* registration and sys_vmo_map filled; a program that registered after the server holds a
\* capability of a connection of its own.
ConnectionsSound ==
  layer = "connect" => ConnectionMemory /\ CapsStayValid /\ RegionsMatch /\ ClientCanCall

\* Reference counts are exact, whatever calls succeed, fail halfway or refuse: a node has a
\* reference for each open file and nested mount at it or below it, and its mount's own; a
\* mount whose files or directories are open, or that has a mount on one of its
\* directories, stays mounted.
RefsExact == layer = "vfs" => Layer!RefsExact /\ Layer!UnmountSparesOpenFiles

\* A cached node stands for a file that exists and has the type the node says, however
\* files are removed, renamed and made again under it.
CacheCoherent == layer = "vfs" => Layer!CacheCoherent

\* What the archive file system shows is the tree the archive's entries spell: lookup and
\* readdir find each entry under its directory, once, with its own data.
ArchiveIsTree == layer = "cpio" => Layer!ArchiveIsTree

\* A descriptor stays what its client opened, at the position its own calls put it,
\* whatever the other clients' server threads do, and a read delivers the bytes from that
\* position on, never what an earlier call left in the shared buffer.
ClientsApart == layer = "server" => Files!DescriptorsPrivate /\ Files!ReadsExact

\* A buffered stream behaves as the file it stands for (module Stream): what fread returns
\* and what reaches the file are what unbuffered calls would give, whatever the buffering.
StreamKeepsPromise == Stdio!StreamKeepsPromise
=============================================================================
