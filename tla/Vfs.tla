-------------------------------- MODULE Vfs ---------------------------------
(***************************************************************************)
(* The tree of the virtual file system: kernel/fs/vfs.c over the ramfs     *)
(* directories and the fixed directories of devfs and procfs, and the      *)
(* descriptors that system calls open on its nodes.                        *)
(*                                                                         *)
(* A path is the sequence of its names: the code skips empty names and     *)
(* compares a mounted path only up to a '/' or the end, so "/a//b" and     *)
(* "/a/b" are <<"a", "b">>.  Nodes of ramfs carry their inode numbers.     *)
(***************************************************************************)
EXTENDS Integers, Sequences, SequencesExt

CONSTANTS
  Names,                  \* the names that files and directories are given
  FixedDir, FixedEntries, \* devfs or procfs: its root and name -> node
  FixedPath,              \* where the boot sequence mounts it
  MAX_NODES,              \* the ramfs nodes that memory is left for
  MAX_CHILDREN,           \* BLACK_RAMFS_MAX_CHILDREN
  MAX_MOUNTS,             \* BLACK_MAX_MOUNTS
  MAX_FDS                 \* MAX_FDS_PER_PROC

NULL == 0
ROOT == 1         \* the node black_ramfs_init makes
RamNodes == 1 .. MAX_NODES
MountSlots == 1 .. MAX_MOUNTS
Fds == 0 .. MAX_FDS - 1
Paths == {<<>>} \cup UNION {[1 .. n -> Names] : n \in 1 .. 2}
MountPaths == {<<n>> : n \in Names}
NoMount == [path |-> <<>>, root |-> NULL]

VARIABLES
  next_inode, \* black_ramfs_next_inode
  name, kind, \* black_name and black_flags, of the nodes made so far
  children,   \* black_children, a sequence of nodes
  mounts,     \* black_mounts; NoMount when not active
  fd_node     \* black_fd_table: the node, or NULL when not in use

tree == <<next_inode, name, kind, children>>
vfsvars == <<next_inode, name, kind, children, mounts, fd_node>>

Made == 1 .. next_inode - 1

\* The boot sequence: ramfs is the root, devfs is mounted.
VfsInit ==
  /\ next_inode = 2
  /\ name = [n \in RamNodes |-> "/"]
  /\ kind = [n \in RamNodes |-> "dir"]
  /\ children = [n \in RamNodes |-> <<>>]
  /\ mounts = [i \in MountSlots |->
                 IF i = 1 THEN [path |-> FixedPath, root |-> FixedDir] ELSE NoMount]
  /\ fd_node = [f \in Fds |-> NULL]
-----------------------------------------------------------------------------
\* black_vfs_finddir: the first child of that name.  Only directories have
\* the operation.
FindLast(n, nm) ==
  LET hits == {i \in DOMAIN children[n] : name[children[n][i]] = nm}
  IN IF hits = {} THEN NULL ELSE children[n][CHOOSE i \in hits : \A j \in hits : i >= j]
FindChild(n, nm) ==
  LET hits == {i \in DOMAIN children[n] : name[children[n][i]] = nm}
  IN IF hits = {} THEN NULL ELSE children[n][CHOOSE i \in hits : \A j \in hits : i <= j]

FindDir(n, nm) ==
  IF n = FixedDir THEN IF nm \in DOMAIN FixedEntries THEN FixedEntries[nm] ELSE NULL
  ELSE IF n \in RamNodes /\ kind[n] = "dir" THEN FindChild(n, nm)
  ELSE NULL

\* black_vfs_traverse, from the root that is current.
Traverse(root, path) == FoldLeft(FindDir, root, path)

\* black_vfs_lookup: the first mount in the table whose path the given one
\* continues, not the longest.
Covers(i, path) == mounts[i] # NoMount /\ IsPrefix(mounts[i].path, path)
Lookup(path) ==
  LET hits == {i \in MountSlots : Covers(i, path)}
      i    == CHOOSE j \in hits : \A k \in hits : j <= k
  IN IF hits = {} THEN Traverse(ROOT, path)
     ELSE Traverse(mounts[i].root, SubSeq(path, Len(mounts[i].path) + 1, Len(path)))
-----------------------------------------------------------------------------
\* black_vfs_create on the directory that path leads to.  The name is not
\* looked for: a second child of the same name stays hidden behind the first.
Create(path, nm, type) ==
  LET dir == Lookup(path) IN
    /\ dir \in RamNodes /\ kind[dir] = "dir"
    /\ Len(children[dir]) < MAX_CHILDREN
    /\ next_inode \in RamNodes
    /\ name' = [name EXCEPT ![next_inode] = nm]
    /\ kind' = [kind EXCEPT ![next_inode] = type]
    /\ children' = [children EXCEPT ![dir] = Append(@, next_inode)]
    /\ next_inode' = next_inode + 1
    /\ UNCHANGED <<mounts, fd_node>>

\* black_vfs_mkdir: the last name is made in the directory before it.
Mkdir(path) == path # <<>> /\ Create(Front(path), Last(path), "dir")

\* black_vfs_mount and black_vfs_unmount: the first slot that qualifies.
Mount(path, root) ==
  \E i \in MountSlots :
    /\ mounts[i] = NoMount /\ \A j \in 1 .. i - 1 : mounts[j] # NoMount
    /\ mounts' = [mounts EXCEPT ![i] = [path |-> path, root |-> root]]
    /\ UNCHANGED <<next_inode, name, kind, children, fd_node>>

Unmount(path) ==
  \E i \in MountSlots :
    /\ mounts[i] # NoMount /\ mounts[i].path = path
    /\ \A j \in 1 .. i - 1 : mounts[j].path # path
    /\ mounts' = [mounts EXCEPT ![i] = NoMount]
    /\ UNCHANGED <<next_inode, name, kind, children, fd_node>>

\* black_sys_open and black_sys_close.
Open(path) ==
  \E f \in Fds :
    /\ Lookup(path) # NULL
    /\ fd_node[f] = NULL /\ \A g \in 0 .. f - 1 : fd_node[g] # NULL
    /\ fd_node' = [fd_node EXCEPT ![f] = Lookup(path)]
    /\ UNCHANGED <<next_inode, name, kind, children, mounts>>

CloseFd(f) ==
  /\ fd_node[f] # NULL
  /\ fd_node' = [fd_node EXCEPT ![f] = NULL]
  /\ UNCHANGED <<next_inode, name, kind, children, mounts>>

Changes == \E p \in MountPaths : Mount(p, FixedDir) \/ Unmount(p)

VfsNext ==
  \/ \E p \in Paths :
       \/ \E nm \in Names : Create(p, nm, "file")
       \/ Mkdir(p)
       \/ Open(p)
  \/ Changes
  \/ \E f \in Fds : CloseFd(f)
-----------------------------------------------------------------------------
Nodes == RamNodes \cup {FixedDir} \cup {FixedEntries[nm] : nm \in DOMAIN FixedEntries}

\* The tables stay within their limits, and every node that was made is the
\* child of one directory, older than itself.
VfsTypeOK ==
  /\ next_inode \in 2 .. MAX_NODES + 1
  /\ name \in [RamNodes -> Names \cup {"/"}]
  /\ kind \in [RamNodes -> {"file", "dir"}]
  /\ \A n \in RamNodes : Len(children[n]) <= MAX_CHILDREN
  /\ \A c \in Made \ {ROOT} :
       \E d \in 1 .. c - 1 : /\ kind[d] = "dir" /\ c \in ToSet(children[d])
                             /\ \A e \in Made \ {d} : c \notin ToSet(children[e])
  /\ mounts \in [MountSlots -> [path : MountPaths \cup {<<>>}, root : Nodes \cup {NULL}]]
  /\ fd_node \in [Fds -> Nodes \cup {NULL}]

\* A path that leads to a node keeps leading to it, whatever is created
\* later, also under the same name: black_ramfs_create appends and
\* black_ramfs_finddir takes the first.  Only mounting and unmounting may
\* change where a path leads.
LookupStable ==
  [][\A p \in Paths : Lookup(p) # NULL => Lookup(p)' = Lookup(p) \/ Changes]_vfsvars
=============================================================================
