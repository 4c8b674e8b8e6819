------------------------------ MODULE FileSystem ------------------------------
(***************************************************************************)
(* The tree of directories and files of Kernel/drivers/fs.c, the contents  *)
(* kept by filesystem/ramfs.c, and the descriptors of the tasks in         *)
(* Kernel/syscalls.c.  A system call runs with interrupts disabled, so     *)
(* each is one action; the calls of the tasks interleave in any way.       *)
(* Nothing is ever removed from a directory, so its used slots are a       *)
(* prefix of its array: a sequence.  A path is the sequence of its         *)
(* components.  Only fs_unmount, which nobody calls, is left out.          *)
(***************************************************************************)
EXTENDS Integers, Sequences

CONSTANTS
  Tasks,
  Names,
  Begins,       \* Begins[n]: the names that begin with n, n itself included
  DeviceNames,  \* the names of the root directories of the devices
  DirPaths,     \* the paths that programs pass to sys_mkdir
  MountPaths,   \* where devices are mounted
  Paths,        \* the paths that programs open
  OpenFlags,    \* the sets of flags they open them with
  Chunks,       \* what they write
  Gap,          \* a byte that was never written
  Slots,        \* MAX_FS_CHILDS: 16
  Fds,          \* the descriptors of a task: 3 .. 15
  MaxDirs,      \* bound: directories
  MaxFiles,     \* bound: files
  MaxSize       \* bound: cursors and sizes

Flags == {"O_RDONLY", "O_WRONLY", "O_RDWR", "O_APPEND", "O_CREAT", "O_TRUNC"}

\* What a file may hold.
Bytes == (UNION {{chunk[k] : k \in DOMAIN chunk} : chunk \in Chunks}) \union {Gap}

ASSUME FileSystemAssumption ==
  /\ Begins \in [Names -> SUBSET Names] /\ \A n \in Names : n \in Begins[n]
  /\ DeviceNames \in Seq(Names)
  /\ Len(DeviceNames) \in 1 .. Slots   \* the code mounts two
  /\ DirPaths \subseteq Seq(Names) \ {<<>>}
  /\ MountPaths \subseteq Seq(Names) /\ Paths \subseteq Seq(Names) \ {<<>>}
  /\ OpenFlags \subseteq SUBSET Flags
  /\ Chunks \subseteq Seq(Bytes)
  /\ Slots \in Nat /\ MaxDirs \in Nat /\ MaxFiles \in Nat /\ MaxSize \in Nat
  /\ Fds \subseteq Nat /\ 0 \notin Fds

VARIABLES
  dir,      \* the directories ever made, the root of the first device first
  mounted,  \* mountinfo: the devices that are mounted
  file,     \* the files ever made
  fd        \* task->files

vars == <<dir, mounted, file, fd>>

Root == 1
None == 0   \* NULL, for a directory and for a file

Directory(name) == [name |-> name, childs |-> <<>>, leaves |-> <<>>]

NoDescriptor == [file |-> None, cursor |-> 0, flags |-> {}]

Init ==
  /\ dir = [d \in 1 .. Len(DeviceNames) |-> Directory(DeviceNames[d])]
  /\ mounted = <<Root>>
  /\ file = <<>>
  /\ fd = [t \in Tasks |-> [i \in Fds |-> NoDescriptor]]

-----------------------------------------------------------------------------
\* Mutant of Lowest: the loop does not stop at the first one.
Highest(i, S) == i \in S /\ \A j \in S : i >= j

\* i is the lowest of the indexes in S, where a loop over the array stops.
Lowest(i, S) == i \in S /\ \A j \in S : i <= j

\* The slots of d whose directory matches n: strncmp compares as many
\* characters as n has, so a name that only begins with n matches.
ChildHits(d, n) ==
  {i \in DOMAIN dir[d].childs : dir[dir[d].childs[i]].name \in Begins[n]}

LeafHits(d, n) ==
  {i \in DOMAIN dir[d].leaves : file[dir[d].leaves[i]].name = n}

Child(d, n) ==
  LET hits == ChildHits(d, n) IN
  IF \E i \in hits : Lowest(i, hits)
  THEN dir[d].childs[CHOOSE i \in hits : Lowest(i, hits)]
  ELSE None

\* find_file
Leaf(d, n) ==
  LET hits == LeafHits(d, n) IN
  IF \E i \in hits : Lowest(i, hits)
  THEN dir[d].leaves[CHOOSE i \in hits : Lowest(i, hits)]
  ELSE None

\* fs_traverse: the directory that the first n components of path lead to.
Walk(path, n) ==
  LET at[k \in 0 .. n] ==
        IF k = 0 THEN Root
        ELSE LET d == at[k - 1] IN IF d = None THEN None ELSE Child(d, path[k])
  IN at[n]

Traverse(path) == Walk(path, Len(path))

\* fs_basedir followed by fs_traverse, and fs_filename.
Parent(path) == Walk(path, Len(path) - 1)
FileName(path) == path[Len(path)]

\* The file that opening path without O_CREAT gives.
Lookup(path) ==
  LET d == Parent(path) IN IF d = None THEN None ELSE Leaf(d, FileName(path))

-----------------------------------------------------------------------------
(* sys_mkdir.  A directory that exists already is made again.  When the      *)
(* parent is not found fs_mkdir works on a directory at address NULL, which *)
(* is in no tree: nothing here changes.                                     *)
MkDir(path) ==
  LET d == Parent(path) IN
  /\ d # None
  /\ Len(dir[d].childs) < Slots
  /\ Len(dir) < MaxDirs
  /\ dir' = Append([dir EXCEPT ![d].childs = Append(@, Len(dir) + 1)],
                   Directory(FileName(path)))
  /\ UNCHANGED <<mounted, file, fd>>

\* Mutant of Mount: find_device is not asked.
MountAgain(device, path) ==
  LET d == Traverse(path) IN
  /\ d # None
  /\ Len(dir[d].childs) < Slots
  /\ dir' = [dir EXCEPT ![d].childs = Append(@, device)]
  /\ mounted' = IF Len(mounted) < Slots THEN Append(mounted, device) ELSE mounted
  /\ UNCHANGED <<file, fd>>

(* fs_mount of a device other than the first, at a directory that is there,  *)
(* as fs_test makes it first.  A full mountinfo leaves the device mounted   *)
(* but not recorded.                                                        *)
Mount(device, path) ==
  LET d == Traverse(path) IN
  /\ \A i \in DOMAIN mounted : mounted[i] # device
  /\ d # None
  /\ Len(dir[d].childs) < Slots
  /\ dir' = [dir EXCEPT ![d].childs = Append(@, device)]
  /\ mounted' = IF Len(mounted) < Slots THEN Append(mounted, device) ELSE mounted
  /\ UNCHANGED <<file, fd>>

\* The descriptor sys_open takes: the first whose file is NULL.
Free(t) == {i \in Fds : fd[t][i].file = None}

\* A descriptor for f, size bytes long, in the place of old, whose cursor
\* O_TRUNC leaves as it is.
Opened(old, f, size, flags) ==
  [file |-> f, flags |-> flags,
   cursor |-> IF "O_APPEND" \in flags THEN size
              ELSE IF "O_TRUNC" \in flags THEN old.cursor ELSE 0]

\* Mutant of Create: the file is made before a descriptor is looked for.
CreateFirst(t, path, flags) ==
  LET d == Parent(path) IN
  /\ "O_CREAT" \in flags
  /\ d # None
  /\ Len(dir[d].leaves) < Slots
  /\ Len(file) < MaxFiles
  /\ file' = Append(file, [name |-> FileName(path), data |-> <<>>])
  /\ dir' = [dir EXCEPT ![d].leaves = Append(@, Len(file) + 1)]
  /\ fd' = [fd EXCEPT ![t] = [i \in Fds |->
              IF Lowest(i, Free(t))
              THEN Opened(@[i], Len(file) + 1, 0, flags) ELSE @[i]]]
  /\ UNCHANGED mounted

(* sys_open with O_CREAT: always a new file, whatever the directory has.     *)
(* Without a descriptor, a directory or a place in it nothing is made.      *)
Create(t, path, flags) ==
  LET d == Parent(path) IN
  /\ "O_CREAT" \in flags
  /\ d # None
  /\ Len(dir[d].leaves) < Slots
  /\ Len(file) < MaxFiles
  /\ file' = Append(file, [name |-> FileName(path), data |-> <<>>])
  /\ dir' = [dir EXCEPT ![d].leaves = Append(@, Len(file) + 1)]
  /\ \E i \in Fds :
       /\ Lowest(i, Free(t))
       /\ fd' = [fd EXCEPT ![t][i] = Opened(@, Len(file) + 1, 0, flags)]
  /\ UNCHANGED mounted

\* sys_open without O_CREAT.  O_TRUNC counts only without O_APPEND.
Open(t, path, flags) ==
  LET f == Lookup(path) IN
  /\ "O_CREAT" \notin flags
  /\ f # None
  /\ \E i \in Fds :
       /\ Lowest(i, Free(t))
       /\ fd' = [fd EXCEPT ![t][i] = Opened(@, f, Len(file[f].data), flags)]
  /\ file' = IF "O_TRUNC" \in flags /\ "O_APPEND" \notin flags
             THEN [file EXCEPT ![f].data = <<>>] ELSE file
  /\ UNCHANGED <<dir, mounted>>

(* sys_read of n bytes, 0 for all.  ramfs_read counts against the size of    *)
(* the file and not against what is left behind the cursor: at the end of   *)
(* the file the cursor moves on past it.                                    *)
Read(t, i, n) ==
  LET f == fd[t][i].file
      size == Len(file[f].data)
      count == IF n = 0 \/ n > size THEN size ELSE n
  IN
  /\ fd[t][i].flags \cap {"O_RDONLY", "O_RDWR"} # {}
  /\ f # None
  /\ fd[t][i].cursor + count <= MaxSize
  /\ fd' = [fd EXCEPT ![t][i].cursor = @ + count]
  /\ UNCHANGED <<dir, mounted, file>>

\* Mutant of Overlay: the old bytes are not copied to the larger buffer.
OverlayNew(bytes, at, chunk) ==
  LET end == at + Len(chunk)
      size == IF end > Len(bytes) THEN end ELSE Len(bytes)
  IN [k \in 1 .. size |->
        IF k > at /\ k <= end THEN chunk[k - at]
        ELSE IF k <= Len(bytes) /\ end <= Len(bytes) THEN bytes[k] ELSE Gap]

(* ramfs_write: a file that is too short is copied to a larger buffer, of    *)
(* which nobody wrote what lies between its old end and the cursor.         *)
Overlay(bytes, at, chunk) ==
  LET end == at + Len(chunk)
      size == IF end > Len(bytes) THEN end ELSE Len(bytes)
  IN [k \in 1 .. size |->
        IF k > at /\ k <= end THEN chunk[k - at]
        ELSE IF k <= Len(bytes) THEN bytes[k] ELSE Gap]

\* sys_write
Write(t, i, chunk) ==
  LET f == fd[t][i].file
      at == fd[t][i].cursor
  IN
  /\ fd[t][i].flags \cap {"O_WRONLY", "O_RDWR"} # {}
  /\ f # None
  /\ at + Len(chunk) <= MaxSize
  /\ file' = [file EXCEPT ![f].data = Overlay(@, at, chunk)]
  /\ fd' = [fd EXCEPT ![t][i].cursor = @ + Len(chunk)]
  /\ UNCHANGED <<dir, mounted>>

\* Mutant of LSeek: the offset counts backwards.
LSeekBack(t, i, offset) ==
  LET f == fd[t][i].file IN
  /\ f # None
  /\ fd' = [fd EXCEPT ![t][i].cursor = Len(file[f].data) - offset]
  /\ UNCHANGED <<dir, mounted, file>>

\* sys_lseek: from the start, the cursor or the end of the file.
LSeek(t, i, offset) ==
  LET f == fd[t][i].file IN
  /\ f # None
  /\ \E from \in {0, fd[t][i].cursor, Len(file[f].data)} :
       /\ from + offset <= MaxSize
       /\ fd' = [fd EXCEPT ![t][i].cursor = from + offset]
  /\ UNCHANGED <<dir, mounted, file>>

\* Mutant of Close: the cursor stays.
CloseKeepCursor(t, i) ==
  /\ fd' = [fd EXCEPT ![t][i].file = None]
  /\ UNCHANGED <<dir, mounted, file>>

\* sys_close: the flags stay.
Close(t, i) ==
  /\ fd' = [fd EXCEPT ![t][i] = [file |-> None, cursor |-> 0, flags |-> @.flags]]
  /\ UNCHANGED <<dir, mounted, file>>

\* The task ends without closing anything, and another one is created.
Exit(t) ==
  /\ fd' = [fd EXCEPT ![t] = [i \in Fds |-> NoDescriptor]]
  /\ UNCHANGED <<dir, mounted, file>>

Next ==
  \/ \E path \in DirPaths : MkDir(path)
  \/ \E device \in 2 .. Len(DeviceNames), path \in MountPaths : Mount(device, path)
  \/ \E t \in Tasks, path \in Paths, flags \in OpenFlags :
       Create(t, path, flags) \/ Open(t, path, flags)
  \/ \E t \in Tasks, i \in Fds :
       \/ \E n \in 0 .. MaxSize : Read(t, i, n) \/ LSeek(t, i, n)
       \/ \E chunk \in Chunks : Write(t, i, chunk)
       \/ Close(t, i)
  \/ \E t \in Tasks : Exit(t)

Spec == Init /\ [][Next]_vars

-----------------------------------------------------------------------------
\* Directories and descriptors name directories and files that exist, and no
\* array is longer than its slots.
TypeOK ==
  /\ dir \in Seq([name : Names, childs : Seq(1 .. Len(dir)),
                  leaves : Seq(1 .. Len(file))])
  /\ Len(dir) >= Len(DeviceNames)
  /\ \A d \in 1 .. Len(dir) :
       Len(dir[d].childs) <= Slots /\ Len(dir[d].leaves) <= Slots
  /\ mounted \in Seq(1 .. Len(DeviceNames)) /\ Len(mounted) \in 1 .. Slots
  /\ file \in Seq([name : Names, data : Seq(Bytes)])
  /\ fd \in [Tasks -> [Fds -> [file : 0 .. Len(file), cursor : Nat,
                               flags : SUBSET Flags]]]

\* The places of directory c in the tree.
Places(c) == {p \in (1 .. Len(dir)) \X (1 .. Slots) :
                p[2] \in DOMAIN dir[p[1]].childs /\ dir[p[1]].childs[p[2]] = c}

(* The directories are a tree, whatever is mounted into it: the root is in   *)
(* no directory, the root of a device in one once it is mounted, and any    *)
(* other directory in exactly one.  dumpdir (sys_ls) follows every childs   *)
(* array and comes to an end because of it.                                 *)
TreeShape ==
  /\ Places(Root) = {}
  /\ \A c \in 2 .. Len(dir) :
       IF c <= Len(DeviceNames) /\ \A i \in DOMAIN mounted : mounted[i] # c
       THEN Places(c) = {} ELSE \E p \in Places(c) : Places(c) = {p}

\* A descriptor that sys_open hands out starts at the first byte, or at the end
\* with O_APPEND, although O_TRUNC does not set the cursor.
OpensAtStart ==
  [][\A t \in Tasks, i \in Fds :
       fd[t][i].file = None /\ fd'[t][i].file # None =>
         fd'[t][i].cursor =
           IF "O_APPEND" \in fd'[t][i].flags
           THEN Len(file'[fd'[t][i].file].data) ELSE 0]_vars

\* A call to sys_open that fails for want of a descriptor leaves no file behind:
\* whoever makes a file holds it.
CreatedIsOpen ==
  [][file' # file /\ Len(file') # Len(file) =>
       \E t \in Tasks, i \in Fds :
         fd[t][i].file = None /\ fd'[t][i].file = Len(file')]_vars

\* No step changes what a directory finds under a name that it already finds:
\* neither a file or a directory made later under the same name nor one whose
\* name begins with it takes its place.
NamesStable ==
  [][\A d \in 1 .. Len(dir), n \in Names :
       /\ Child(d, n) # None => Child(d, n)' = Child(d, n)
       /\ Leaf(d, n) # None => Leaf(d, n)' = Leaf(d, n)]_vars

\* The refinement: paths are bound once, and bytes change where they are written.
Store == INSTANCE FileStore WITH
  MaxAt <- MaxSize,
  binding <- [path \in Paths |-> Lookup(path)],
  content <- [f \in 1 .. Len(file) |-> file[f].data]

StoreSpec == Store!Spec

=============================================================================
