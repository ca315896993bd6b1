-------------------------------- MODULE Vfs ---------------------------------
EXTENDS Integers, FiniteSets, SequencesExt

(***************************************************************************)
(* The virtual file system fs/vfs.c: mounts, nodes with reference counts,  *)
(* and the table of open files, over any file system of type filesystem_t. *)
(* A node is cached while somebody refers to it, and whoever refers to it  *)
(* refers to every directory above it.                                     *)
(*                                                                         *)
(* A path is a sequence of names.  A call runs without interruption by     *)
(* another one.  Mode bits and MOUNT_RO are abstracted: vfs_node_access    *)
(* and the operations of the file system may allow or refuse.  What is     *)
(* done with an open file, its flags, offset and size, is in module        *)
(* OpenFile.                                                               *)
(***************************************************************************)

CONSTANTS Mount,      \* struct vfs_mount_t
          Path,       \* the absolute paths, all the prefixes of each included
          MountPoint, \* the paths something is mounted on
          Fd,         \* the descriptors from 3 on
          Flags,      \* the flags vfs_open is called with, as sets
          NoNode,
          MaxLost     \* bound: vfs_node_get may fail while each root has lost fewer references

VARIABLES mnt_list,   \* the list of mounts, newest first
          info,       \* m_path and m_covered of each mount
          nodes,      \* v_refcnt and v_type of the node of each mount and path
          fd_file,    \* f_node of each descriptor
          tree,       \* the type of the file at each path of each file system
          undefined   \* why the outcome of the last call is undefined

vars == <<mnt_list, info, nodes, fd_file, tree, undefined>>

Node == Mount \X Path
Root(m) == <<m, <<>>>>
Pre(p, i) == SubSeq(p, 1, i)
Mounted == ToSet(mnt_list)

\* The nodes a reference to n refers to: its own and those above it.
Chain(n) == {<<n[1], Pre(n[2], i)>> : i \in 0..Len(n[2])}

\* A node that is not cached.  lost: history, references whose holder forgot them.
Gone == [ref |-> 0, type |-> "none", lost |-> 0]
NoMount == [path |-> <<>>, covered |-> NoNode]

Init ==
  /\ mnt_list = <<>>
  /\ info = [m \in Mount |-> NoMount]
  /\ nodes = [n \in Node |-> Gone]
  /\ fd_file = [fd \in Fd |-> NoNode]
  /\ tree = [m \in Mount |-> [p \in Path |-> IF p = <<>> \/ p \in MountPoint THEN "dir" ELSE "none"]]
  /\ undefined = "no"

(***************************************************************************)
(* Nodes                                                                   *)
(***************************************************************************)

\* count_match and vfs_findroot: the mounts a path may belong to; the one with the
\* longest path is taken.
Match(path) == {m \in Mounted : IsPrefix(info[m].path, path)}
vfs_findroot(path) ==
  CHOOSE m \in Match(path) : \A x \in Match(path) : Len(info[x].path) <= Len(info[m].path)

Cached(r, n) == r[n].ref > 0

\* vfs_node_put: the last reference frees the node.
Put(v) == IF v.ref = 1 THEN Gone ELSE [v EXCEPT !.ref = @ - 1]
vfs_node_put(r, n) == [r EXCEPT ![n] = Put(@)]

\* vfs_node_ref, vfs_node_lookup or vfs_node_get of the nodes of path p up to its
\* k-th name; a node that was not cached gets the type the file system finds.
RefChain(t, r, m, p, k) ==
  LET chain == Chain(<<m, Pre(p, k)>>)
  IN [n \in DOMAIN r |-> IF n \in chain
                         THEN [ref |-> r[n].ref + 1, lost |-> r[n].lost,
                               type |-> IF Cached(r, n) THEN r[n].type ELSE t[m][n[2]]]
                         ELSE r[n]]

\* Faulty variant: the directories above the node keep their references.
ReleaseNodeOnly(r, n) == vfs_node_put(r, n)

\* vfs_node_release: the node, then those above it that are still found, then the
\* root; a root is put by itself.
vfs_node_release(r, n) ==
  LET chain == {x \in Chain(n) : x = n \/ x = Root(n[1]) \/ Cached(r, x)}
  IN [x \in DOMAIN r |-> IF x \in chain THEN Put(r[x]) ELSE r[x]]

\* vfs_node_acquire gives up at the first name that is not cached and that the file
\* system does not find, or finds to be no directory although more names follow.
Stops(t, r, m, p) ==
  {i \in 1..Len(p) : /\ ~Cached(r, <<m, Pre(p, i)>>)
                     /\ t[m][Pre(p, i)] \in (IF i < Len(p) THEN {"none", "reg"} ELSE {"none"})}

\* When vfs_node_get fails at name i only the directory it was to be found in is put.
GetFails(t, r, m, p, i) ==
  LET up == vfs_node_put(RefChain(t, r, m, p, i - 1), <<m, Pre(p, i - 1)>>)
  IN [n \in DOMAIN r |-> IF i > 1 /\ n \in Chain(<<m, Pre(p, i - 2)>>)
                         THEN [up[n] EXCEPT !.lost = @ + 1] ELSE up[n]]

\* The outcomes of vfs_node_acquire.  ret is "unset" where it returns 0, because
\* lookup succeeded, without having set *np.
vfs_node_acquire(t, r, path) ==
  IF Match(path) = {} THEN {[r |-> r, ret |-> "err", n |-> NoNode]}
  ELSE LET m == vfs_findroot(path)
           p == SubSeq(path, Len(info[m].path) + 1, Len(path))
           stops == Stops(t, r, m, p)
           last == IF stops = {} THEN Len(p) ELSE Min(stops)
           walked == RefChain(t, r, m, p, last)
       IN {IF stops = {} THEN [r |-> walked, ret |-> "ok", n |-> <<m, p>>]
           ELSE [r |-> vfs_node_release(walked, <<m, Pre(p, last)>>), n |-> NoNode,
                 ret |-> IF t[m][Pre(p, last)] = "none" THEN "err" ELSE "unset"]}
          \cup {[r |-> GetFails(t, r, m, p, i), ret |-> "err", n |-> NoNode] :
                 i \in {j \in 1..last : (\A x \in Mount : r[Root(x)].lost < MaxLost) /\ ~Cached(r, <<m, Pre(p, j)>>)}}

\* vfs_lookup_dir: the directory that holds the last name of the path.
vfs_lookup_dir(t, r, path) ==
  {IF a.ret = "ok" /\ a.r[a.n].type # "dir"
   THEN [r |-> vfs_node_release(a.r, a.n), ret |-> "err", n |-> NoNode] ELSE a :
     a \in vfs_node_acquire(t, r, Pre(path, Len(path) - 1))}

(***************************************************************************)
(* The ways a call ends                                                    *)
(***************************************************************************)

Return(r) ==
  /\ nodes' = r
  /\ UNCHANGED <<mnt_list, info, fd_file, tree, undefined>>

\* The caller goes on with a node that was never set, or with freed memory.
Undefined(why) ==
  /\ undefined' = why
  /\ UNCHANGED <<mnt_list, info, nodes, fd_file, tree>>

\* No node was acquired.
NotFound(a) ==
  \/ a.ret = "err" /\ Return(a.r)
  \/ a.ret = "unset" /\ Undefined("unset")

(***************************************************************************)
(* The file system below: what its operations may do to its files.         *)
(***************************************************************************)

\* create and mkdir fail or make a file; remove and rmdir fail or remove it.
FsMakes(n, type) ==
  {tree} \cup IF tree[n[1]][n[2]] # "none" THEN {}
              ELSE {[tree EXCEPT ![n[1]][n[2]] = type]}
FsRemoves(n) == {tree, [tree EXCEPT ![n[1]][n[2]] = "none"]}

\* rename of the file at path p to path q of the same mount, with what is below it.
FsRenames(m, p, q) ==
  {tree} \cup
  IF tree[m][q] # "none" THEN {}
  ELSE {[tree EXCEPT ![m] = [x \in Path |->
          IF IsPrefix(q, x)
          THEN LET y == p \o SubSeq(x, Len(q) + 1, Len(x)) IN IF y \in Path THEN @[y] ELSE "none"
          ELSE IF IsPrefix(p, x) THEN "none" ELSE @[x]]]}

Empty(n) == \A p \in Path : Len(p) = Len(n[2]) + 1 /\ IsPrefix(n[2], p) => tree[n[1]][p] = "none"

(***************************************************************************)
(* Mounting                                                                *)
(***************************************************************************)

\* The end of a vfs_mount that has acquired the covered directory, or none for "/":
\* without memory for the root node, if the file system's mount fails, or if something
\* is mounted there already, root and covered directory are released again.
MountOn(m, path, r, covered) ==
  LET undone == IF covered = NoNode THEN r ELSE vfs_node_release(r, covered)
  IN \/ Return(undone)
     \/ /\ \A x \in Mounted : info[x].path # path
        /\ mnt_list' = <<m>> \o mnt_list
        /\ info' = [info EXCEPT ![m] = [path |-> path, covered |-> covered]]
        /\ nodes' = [r EXCEPT ![Root(m)] = [ref |-> 1, type |-> "dir", lost |-> 0]]
        /\ UNCHANGED <<fd_file, tree, undefined>>

\* vfs_mount.  m is new memory: not one that some node still points to.
vfs_mount(m, path) ==
  /\ m \notin Mounted
  /\ \A n \in Node : n[1] = m => ~Cached(nodes, n)
  /\ \/ path = <<>> /\ MountOn(m, path, nodes, NoNode)
     \/ /\ path # <<>>
        /\ \E a \in vfs_node_acquire(tree, nodes, path) :
             \/ NotFound(a)
             \/ /\ a.ret = "ok" /\ a.r[a.n].type # "dir"
                /\ Return(vfs_node_release(a.r, a.n))
             \/ /\ a.ret = "ok" /\ a.r[a.n].type = "dir"
                /\ MountOn(m, path, a.r, a.n)

\* m_refcnt: vfs_node_get and vfs_node_put count the nodes of the mount.
m_refcnt(m) == Cardinality({n \in Node : n[1] = m /\ Cached(nodes, n)})

\* The mount leaves the list, its root and the covered directory are released.
Unlink(m, r) ==
  /\ mnt_list' = SelectSeq(mnt_list, LAMBDA x : x # m)
  /\ nodes' = IF info[m].covered = NoNode THEN r ELSE vfs_node_release(r, info[m].covered)
  /\ info' = [info EXCEPT ![m] = NoMount]
  /\ UNCHANGED <<tree, undefined>>

\* vfs_unmount
vfs_unmount(m) ==
  /\ m_refcnt(m) <= 1
  /\ Unlink(m, vfs_node_put(nodes, Root(m)))
  /\ UNCHANGED fd_file

\* The mounts on directories of m, on directories of those, and so on.
Nested(m) ==
  {x \in Mounted : \A S \in SUBSET Mounted :
     (m \in S /\ \A y \in Mounted : info[y].covered # NoNode /\ info[y].covered[1] \in S => y \in S)
       => x \in S}

\* vfs_force_unmount: nested mounts first; descriptors are closed and nodes freed
\* whatever their reference counts.
vfs_force_unmount(m) ==
  LET all == Nested(m)
      left == [n \in Node |-> IF n[1] \in all THEN Gone ELSE nodes[n]]
  IN /\ mnt_list' = SelectSeq(mnt_list, LAMBDA x : x \notin all)
     /\ nodes' = IF info[m].covered = NoNode THEN left
                 ELSE vfs_node_release(left, info[m].covered)
     /\ fd_file' = [fd \in Fd |->
          IF fd_file[fd] # NoNode /\ fd_file[fd][1] \in all THEN NoNode
          ELSE fd_file[fd]]
     /\ info' = [x \in Mount |-> IF x \in all THEN NoMount ELSE info[x]]
     /\ UNCHANGED <<tree, undefined>>

(***************************************************************************)
(* Open files                                                              *)
(***************************************************************************)

\* vfs_fd_alloc takes the first free descriptor; without one the node is released.
Install(t, r, n) ==
  LET free == {fd \in Fd : fd_file[fd] = NoNode}
  IN /\ tree' = t
     /\ IF free = {} THEN nodes' = vfs_node_release(r, n) /\ UNCHANGED fd_file
        ELSE /\ nodes' = r
             /\ fd_file' = [fd_file EXCEPT ![Min(free)] = n]
     /\ UNCHANGED <<mnt_list, info, undefined>>

\* vfs_open of a file that exists.  Without O_CREAT, opening it to write is subject
\* to vfs_node_access; O_TRUNC without O_WRONLY, and writing to a directory, fail.
OpenFound(r, n, flags) ==
  LET writes == {"W", "TRUNC"} \cap flags # {}
      mayFail == "TRUNC" \in flags \/ ("CREAT" \notin flags /\ writes)
      mustFail == \/ {"CREAT", "EXCL"} \subseteq flags
                  \/ "CREAT" \notin flags /\ writes /\ r[n].type = "dir"
                  \/ "TRUNC" \in flags /\ ("W" \notin flags \/ r[n].type = "dir")
  IN \/ (mayFail \/ mustFail) /\ Return(vfs_node_release(r, n))
     \/ ~mustFail /\ Install(tree, r, n)

\* vfs_open of a file that is not found, with O_CREAT.  The file may be there although
\* the call fails: sync comes after create.
OpenNew(r, path, flags) ==
  \E d \in vfs_lookup_dir(tree, r, path) :
    \/ NotFound(d)
    \/ /\ d.ret = "ok"
       /\ LET n == <<d.n[1], Append(d.n[2], Last(path))>>
              up == vfs_node_release(d.r, d.n)
          IN \E t \in FsMakes(n, "reg") :
               \/ /\ nodes' = up /\ tree' = t
                  /\ UNCHANGED <<mnt_list, info, fd_file, undefined>>
               \/ /\ t # tree
                  /\ \E a \in vfs_node_acquire(t, up, path) :
                       \/ a.ret = "ok" /\ Install(t, a.r, a.n)
                       \/ /\ a.ret = "err" /\ nodes' = a.r /\ tree' = t
                          /\ UNCHANGED <<mnt_list, info, fd_file, undefined>>

vfs_open(path, flags) ==
  \E a \in vfs_node_acquire(tree, nodes, path) :
    \/ a.ret = "ok" /\ OpenFound(a.r, a.n, flags)
    \/ a.ret = "unset" /\ Undefined("unset")
    \/ a.ret = "err" /\ "CREAT" \notin flags /\ Return(a.r)
    \/ a.ret = "err" /\ "CREAT" \in flags /\ OpenNew(a.r, path, flags)

\* vfs_close; if sync fails the file stays open.
vfs_close(fd) ==
  LET n == fd_file[fd]
  IN /\ n # NoNode /\ n[1] \in Mounted
     /\ nodes' = vfs_node_release(nodes, n)
     /\ fd_file' = [fd_file EXCEPT ![fd] = NoNode]
     /\ UNCHANGED <<mnt_list, info, tree, undefined>>

\* vfs_opendir: a descriptor for a directory; anything else is closed again.
vfs_opendir(path) ==
  \E a \in vfs_node_acquire(tree, nodes, path) :
    \/ a.ret = "ok" /\ a.r[a.n].type = "dir" /\ Install(tree, a.r, a.n)
    \/ a.ret = "ok" /\ a.r[a.n].type # "dir" /\ Return(vfs_node_release(a.r, a.n))
    \/ NotFound(a)

\* Every call on a descriptor goes to the file system through n->v_mount.
UseFreedMount(fd) ==
  /\ fd_file[fd] # NoNode
  /\ fd_file[fd][1] \notin Mounted
  /\ Undefined("freed")

(***************************************************************************)
(* The name space                                                          *)
(***************************************************************************)

\* The end of a call that released every node it had acquired.
Done(t, r) == nodes' = r /\ tree' = t /\ UNCHANGED <<mnt_list, info, fd_file, undefined>>

vfs_mkdir(path) ==
  \E a \in vfs_node_acquire(tree, nodes, path) :
    \/ a.ret = "ok" /\ Return(vfs_node_release(a.r, a.n))
    \/ a.ret = "unset" /\ Undefined("unset")
    \/ /\ a.ret = "err"
       /\ \E d \in vfs_lookup_dir(tree, a.r, path) :
            \/ NotFound(d)
            \/ /\ d.ret = "ok"
               /\ \E t \in FsMakes(<<d.n[1], Append(d.n[2], Last(path))>>, "dir") :
                    Done(t, vfs_node_release(d.r, d.n))

\* Faulty variant: the reference counts are not looked at.
RemoveAnyway(r, n, path) ==
  \E d \in vfs_lookup_dir(tree, r, path) :
    /\ d.ret = "ok"
    /\ \E t \in FsRemoves(n) : Done(t, vfs_node_release(vfs_node_release(d.r, d.n), n))

\* The rest of vfs_rmdir and vfs_unlink, once the node has been acquired: the root of
\* a mount, and a node somebody else refers to, stay.  The directory above is found:
\* its nodes are cached by now.
RemoveNode(r, n, path) ==
  \/ Return(vfs_node_release(r, n))
  \/ /\ n[2] # <<>> /\ r[n].ref < 2
     /\ \E d \in vfs_lookup_dir(tree, r, path), t \in FsRemoves(n) :
          Done(t, vfs_node_release(vfs_node_release(d.r, d.n), n))

\* vfs_rmdir.  vfs_check_dir_empty opens the directory, which takes a descriptor, and
\* closes it again.
vfs_rmdir(path) ==
  \E a \in vfs_node_acquire(tree, nodes, path) :
    \/ NotFound(a)
    \/ /\ a.ret = "ok"
       /\ LET closed == vfs_node_release(a.r, a.n)
          IN \/ /\ \/ a.r[a.n].type # "dir" \/ ~Empty(a.n)
                   \/ \A fd \in Fd : fd_file[fd] # NoNode
                /\ Return(closed)
             \/ /\ a.r[a.n].type = "dir" /\ Empty(a.n)
                /\ \E fd \in Fd : fd_file[fd] = NoNode
                /\ \E b \in vfs_node_acquire(tree, closed, path) :
                     \/ b.ret = "ok" /\ RemoveNode(b.r, b.n, path)
                     \/ b.ret = "err" /\ Return(b.r)

vfs_unlink(path) ==
  \E a \in vfs_node_acquire(tree, nodes, path) :
    \/ NotFound(a)
    \/ a.ret = "ok" /\ a.r[a.n].type = "dir" /\ Return(vfs_node_release(a.r, a.n))
    \/ a.ret = "ok" /\ a.r[a.n].type # "dir" /\ RemoveNode(a.r, a.n, path)

\* The rest of vfs_rename, with n1 and its directory sn acquired.
RenameTo(r, n1, sn, dst) ==
  LET back(q) == vfs_node_release(vfs_node_release(q, sn), n1)
  IN \E a \in vfs_node_acquire(tree, r, dst) :
       \/ a.ret = "unset" /\ Undefined("unset")
       \/ a.ret = "ok" /\ Return(back(vfs_node_release(a.r, a.n)))
       \/ /\ a.ret = "err"
          /\ \E d \in vfs_lookup_dir(tree, a.r, dst) :
               \/ NotFound([d EXCEPT !.r = back(@)])
               \/ /\ d.ret = "ok"
                  /\ \E t \in IF d.n[1] # sn[1] THEN {tree}
                              ELSE FsRenames(sn[1], n1[2], Append(d.n[2], Last(dst))) :
                       Done(t, back(vfs_node_release(d.r, d.n)))

vfs_rename(src, dst) ==
  /\ src # <<>> /\ ~IsPrefix(src, dst)
  /\ \E a \in vfs_node_acquire(tree, nodes, src) :
       \/ NotFound(a)
       \/ a.ret = "ok" /\ Return(vfs_node_release(a.r, a.n))
       \/ /\ a.ret = "ok" /\ a.r[a.n].ref < 2
          /\ \E d \in vfs_lookup_dir(tree, a.r, src) : RenameTo(d.r, a.n, d.n, dst)

\* vfs_access, vfs_chmod and vfs_stat acquire the node and release it.
PathCall(path) ==
  \E a \in vfs_node_acquire(tree, nodes, path) :
    \/ NotFound(a)
    \/ a.ret = "ok" /\ Return(vfs_node_release(a.r, a.n))

Call ==
  \/ \E m \in Mount, path \in MountPoint : vfs_mount(m, path)
  \/ \E m \in Mounted : vfs_unmount(m) \/ vfs_force_unmount(m)
  \/ \E path \in Path, flags \in Flags : vfs_open(path, flags)
  \/ \E path \in Path : \/ vfs_opendir(path) \/ vfs_mkdir(path) \/ vfs_rmdir(path)
                        \/ vfs_unlink(path) \/ PathCall(path)
  \/ \E fd \in Fd : vfs_close(fd) \/ UseFreedMount(fd)
  \/ \E src, dst \in Path : vfs_rename(src, dst)

Next == undefined = "no" /\ Call

Spec == Init /\ [][Next]_vars

(***************************************************************************)
(* Properties                                                              *)
(***************************************************************************)

Users(n) == Cardinality({fd \in Fd : fd_file[fd] # NoNode /\ n \in Chain(fd_file[fd])})
          + Cardinality({m \in Mounted : info[m].covered # NoNode /\ n \in Chain(info[m].covered)})
          + (IF n[2] = <<>> /\ n[1] \in Mounted THEN 1 ELSE 0)

\* Reference counts are exact: whatever calls succeed, fail halfway or refuse, a node
\* of a mount has one reference for each open file and each nested mount at it or
\* below it, and one more for the mount at its root; it is cached just as long.  The
\* exception is vfs_node_acquire out of memory, which forgets the references it took
\* above the directory it was in.
RefsExact ==
  undefined = "no" =>
    \A n \in Node : n[1] \in Mounted => nodes[n].ref = Users(n) + nodes[n].lost

\* The cache never goes stale: a cached node stands for a file that exists and has the
\* type the node says, however files are removed, renamed and made again under it.
CacheCoherent ==
  \A n \in Node : n[1] \in Mounted /\ Cached(nodes, n) => nodes[n].type = tree[n[1]][n[2]]

\* Unmounting leaves nobody behind: a mount whose files or directories are open, or that
\* has a mount on one of its directories, stays mounted.  m_refcnt counts nodes, so the
\* mount's own root may still be open.
UnmountSparesOpenFiles ==
  /\ \A fd \in Fd : LET n == fd_file[fd]
                    IN n # NoNode /\ n[2] # <<>> => n[1] \in Mounted
  /\ \A m \in Mounted : info[m].covered # NoNode => info[m].covered[1] \in Mounted

-----------------------------------------------------------------------------
(***************************************************************************)
(* The file system the kernel and the file server mount: fs/cpio/cpio.c,   *)
(* which looks every name up by walking a cpio archive from its start.     *)
(* Paths are sequences of characters, because the code compares prefixes   *)
(* of them.                                                                *)
(***************************************************************************)

CONSTANTS Entry,       \* what an archive may hold: [path, type, size]
          MaxEntries   \* bound on the archive

VARIABLE archive       \* the entries in the order of the archive, TRAILER!!! left out

Header == 110          \* sizeof(struct cpio_newc_header_t)
Align4(n) == ((n + 3) \div 4) * 4
Floor4(n) == (n \div 4) * 4     \* n & ~3
NameSize(e) == Len(e.path) + 1

(***************************************************************************)
(* The archive as the cpio program writes it: header and name padded to 4, *)
(* data padded to 4.                                                       *)
(***************************************************************************)

RECURSIVE Start(_)
Data(i) == Start(i) + Align4(Header + NameSize(archive[i]))
Start(i) == IF i = 1 THEN 0 ELSE Align4(Data(i - 1) + archive[i - 1].size)

\* block_read of a header at off: the entries that begin there.
HeaderAt(off) == {i \in DOMAIN archive : Start(i) = off}

(***************************************************************************)
(* The walk                                                                *)
(***************************************************************************)

SkipSlash(p) == IF p # <<>> /\ Head(p) = "/" THEN Tail(p) ELSE p
From(p, n) == SubSeq(p, n + 1, Len(p))

\* get_next_token: the name of path in the directory prefix; none for FALSE.
get_next_token(path0, prefix0) ==
  LET path == SkipSlash(path0)
      prefix == SkipSlash(prefix0)
      p == SkipSlash(From(path, Len(prefix)))
      slash == {i \in DOMAIN p : p[i] = "/"}
  IN IF ~IsPrefix(prefix, path) \/ p = <<>> \/ \E i \in slash : i < Len(p) THEN {}
     ELSE {IF slash = {} THEN p ELSE Front(p)}

\* Faulty variant: the directory is not compared.
CheckNameOnly(path, prefix, name) == IsSuffix(name, path)

check_path(path0, prefix0, name) ==
  LET path == SkipSlash(path0)
      prefix == SkipSlash(prefix0)
  IN IsPrefix(prefix, path) /\ SkipSlash(From(path, Len(prefix))) = name

\* From an entry to its data, as cpio_lookup and cpio_readdir compute it.
Skip(e) == Header + Floor4(NameSize(e) + 1) + 2

NextOff(off, e) == Align4(off + Skip(e) + e.size)

Hidden(e) == Head(e.path) = "."

\* cpio_lookup from offset off on: the node it fills in, or none at the trailer.
RECURSIVE Lookup(_, _, _)
Lookup(dir, name, off) ==
  UNION {LET e == archive[i]
         IN IF ~Hidden(e) /\ check_path(e.path, dir, name)
            THEN {[type |-> e.type, size |-> e.size, data |-> off + Skip(e)]}
            ELSE Lookup(dir, name, NextOff(off, e)) : i \in HeaderAt(off)}

cpio_lookup(dir, name) == Lookup(dir, name, 0)

\* cpio_readdir: entry number n of the directory, as [name, type].
RECURSIVE Readdir(_, _, _)
Readdir(dir, n, off) ==
  UNION {LET e == archive[i]
             t == IF Hidden(e) THEN {} ELSE get_next_token(e.path, dir)
         IN IF t = {} THEN Readdir(dir, n, NextOff(off, e))
            ELSE IF n > 0 THEN Readdir(dir, n - 1, NextOff(off, e))
            ELSE {[name |-> CHOOSE x \in t : TRUE, type |-> e.type]} : i \in HeaderAt(off)}

cpio_readdir(dir, n) == Readdir(dir, n, 0)

CpioInit == archive = <<>>

\* The image is built with one more entry.
Grow == \E e \in Entry : /\ Len(archive) < MaxEntries
                         /\ \A i \in DOMAIN archive : archive[i].path # e.path
                         /\ archive' = Append(archive, e)

CpioSpec == CpioInit /\ [][Grow]_archive

(***************************************************************************)
(* Properties                                                              *)
(***************************************************************************)

CpioRoot == <<"/">>
PathIn(dir, name) == IF dir = CpioRoot THEN name ELSE SkipSlash(dir) \o <<"/">> \o name
Dirs == {CpioRoot} \cup {<<"/">> \o archive[i].path :
                           i \in {j \in DOMAIN archive : archive[j].type = "dir"}}
Names == UNION {{SubSeq(e.path, i, Len(e.path)) : i \in DOMAIN e.path} : e \in Entry}

\* No name in the archive goes on where the path of a directory ends: the code does not ask
\* for a slash there, and would take a file binary for a file ary of the directory bin.
NamesApart ==
  \A i, j \in DOMAIN archive :
    archive[j].type = "dir" /\ i # j /\ IsPrefix(archive[j].path, archive[i].path)
      => archive[i].path[Len(archive[j].path) + 1] = "/"

Visible == {i \in DOMAIN archive : Head(archive[i].path) # "."}

\* What cpio_lookup finds is exactly what the archive holds, with its size and the place of
\* its data, wherever in the archive it lies and however long the names before it are; and
\* cpio_readdir lists a directory's entries, each once and in the order of the archive,
\* under the names by which they are found.
ArchiveIsTree ==
  NamesApart =>
    \A dir \in Dirs :
      /\ \A name \in {n \in Names : ~Contains(n, "/")} :
           cpio_lookup(dir, name) =
             {[type |-> archive[i].type, size |-> archive[i].size, data |-> Data(i)] :
                i \in {j \in Visible : archive[j].path = PathIn(dir, name)}}
      /\ LET here == SelectSeq(archive, LAMBDA e : Head(e.path) # "." /\
                       \E name \in Names : ~Contains(name, "/") /\ e.path = PathIn(dir, name))
         IN \A n \in 0..MaxEntries :
              IF n < Len(here)
              THEN \E d \in cpio_readdir(dir, n) :
                     d.type = here[n + 1].type /\ PathIn(dir, d.name) = here[n + 1].path
              ELSE cpio_readdir(dir, n) = {}
=============================================================================
