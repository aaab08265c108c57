-------------------------------- MODULE Files -------------------------------
(***************************************************************************)
(* What is read from files: bytes kept in memory, and texts that are made  *)
(* by the read.                                                            *)
(***************************************************************************)
EXTENDS Integers, Sequences, FiniteSets, Numerals

(***************************************************************************)
(* The bytes of a ramfs file (kernel/fs/ramfs.c) and the descriptors that  *)
(* read and write it (kernel/syscall/syscall.c), next to the devices null  *)
(* and zero of kernel/fs/devfs.c, which use the same descriptors.          *)
(***************************************************************************)

CONSTANTS
  Bytes,        \* the values that are written
  FileFds,      \* the descriptors
  MAX_FILESIZE, \* BLACK_RAMFS_MAX_FILESIZE
  FIRST_CAP,    \* the first capacity, 512 in the code
  MAX_IO,       \* the longest read or write that is tried
  OFFSET_MOD    \* offsets are modulo 2^32 in the code

Junk == 0       \* what kmalloc leaves in a byte
Targets == {"file", "null", "zero"}
Positions == 0 .. MAX_FILESIZE - 1

VARIABLES
  data,     \* black_data, as far as black_capacity: a function of positions
  length,   \* black_length
  target,   \* the node of a descriptor, or "closed"
  offset,   \* black_offset
  written   \* the byte last written at each position since the file was
            \* last truncated, a function of those positions

filevars == <<data, length, target, offset, written>>

capacity == Cardinality(DOMAIN data)
Smaller(a, b) == IF a < b THEN a ELSE b

FileInit ==
  /\ data = [i \in {} |-> Junk]
  /\ length = 0
  /\ target = [f \in FileFds |-> "closed"]
  /\ offset = [f \in FileFds |-> 0]
  /\ written = [i \in {} |-> Junk]
-----------------------------------------------------------------------------
\* The capacity for needed bytes: doubled until it is enough, then limited.
Doubled[c \in 1 .. 2 * MAX_FILESIZE, needed \in 0 .. MAX_FILESIZE] ==
  IF c >= needed THEN c ELSE Doubled[2 * c, needed]
NewCapacity(needed) ==
  Smaller(Doubled[IF capacity = 0 THEN FIRST_CAP ELSE capacity, needed], MAX_FILESIZE)

\* The buffer after it has grown, if it has to: the bytes of the file are
\* copied, the others are what kmalloc returned.
GrownForgets(needed) ==
  IF needed <= capacity THEN data ELSE [i \in 0 .. NewCapacity(needed) - 1 |-> Junk]
Grown(needed) ==
  IF needed <= capacity THEN data
  ELSE [i \in 0 .. NewCapacity(needed) - 1 |-> IF i < length THEN data[i] ELSE Junk]

\* black_ramfs_write of n bytes b at off.
RamfsWrite(off, n, b) ==
  LET hit == off .. off + n - 1 IN
    /\ off + n <= MAX_FILESIZE
    /\ data' = [i \in DOMAIN Grown(off + n) |-> IF i \in hit THEN b ELSE Grown(off + n)[i]]
    /\ length' = IF off + n > length THEN off + n ELSE length
    /\ written' = [i \in DOMAIN written \cup hit |-> IF i \in hit THEN b ELSE written[i]]

\* What black_ramfs_read, black_devfs_null_read and black_devfs_zero_read
\* return: a count.
ReadCount(node, off, n) ==
  CASE node = "file" -> IF off >= length THEN 0 ELSE Smaller(n, length - off)
    [] node = "null" -> 0
    [] node = "zero" -> n

Advance(f, n) == offset' = [offset EXCEPT ![f] = (@ + n) % OFFSET_MOD]

\* black_sys_read: only a count above 0 moves the offset.
SysRead(f, n) ==
  /\ target[f] # "closed"
  /\ Advance(f, ReadCount(target[f], offset[f], n))
  /\ UNCHANGED <<data, length, target, written>>

\* black_sys_write: to a file, or to a device that takes all.
SysWrite(f, n, b) ==
  /\ target[f] # "closed"
  /\ \/ target[f] = "file" /\ RamfsWrite(offset[f], n, b)
     \/ target[f] # "file" /\ UNCHANGED <<data, length, written>>
  /\ Advance(f, n)
  /\ UNCHANGED target

\* black_vfs_append writes at the end, black_vfs_truncate forgets the length
\* and keeps the buffer; neither goes through a descriptor.
VfsAppend(n, b) == RamfsWrite(length, n, b) /\ UNCHANGED <<target, offset>>

VfsTruncate ==
  /\ length' = 0
  /\ written' = [i \in {} |-> Junk]
  /\ UNCHANGED <<data, target, offset>>

SysOpen(f, node) ==
  /\ target[f] = "closed"
  /\ target' = [target EXCEPT ![f] = node]
  /\ offset' = [offset EXCEPT ![f] = 0]
  /\ UNCHANGED <<data, length, written>>

SysClose(f) ==
  /\ target[f] # "closed"
  /\ target' = [target EXCEPT ![f] = "closed"]
  /\ UNCHANGED <<data, length, offset, written>>

FileNext ==
  \/ \E f \in FileFds, n \in 1 .. MAX_IO :
       SysRead(f, n) \/ \E b \in Bytes : SysWrite(f, n, b)
  \/ \E n \in 1 .. MAX_IO, b \in Bytes : VfsAppend(n, b)
  \/ VfsTruncate
  \/ \E f \in FileFds : SysClose(f) \/ \E node \in Targets : SysOpen(f, node)
-----------------------------------------------------------------------------
\* The file fits its buffer and the buffer fits the limit.
FileTypeOK ==
  /\ capacity <= MAX_FILESIZE /\ DOMAIN data = 0 .. capacity - 1
  /\ \A i \in DOMAIN data : data[i] \in Bytes \cup {Junk}
  /\ length \in 0 .. capacity
  /\ target \in [FileFds -> Targets \cup {"closed"}]
  /\ offset \in [FileFds -> 0 .. OFFSET_MOD - 1]

\* What was written is what is read: every position written since the file
\* was truncated lies in the file and holds its last byte, however often the
\* buffer has been replaced by a larger one and whoever wrote.
FileKeepsData ==
  \A i \in DOMAIN written : i < length /\ data[i] = written[i]
-----------------------------------------------------------------------------
(***************************************************************************)
(* The files of kernel/fs/procfs.c, whose text is made anew by every read, *)
(* as a program reads them piece by piece through a descriptor, and the    *)
(* directories of procfs.c and devfs.c.                                    *)
(***************************************************************************)

CONSTANTS
  LATEST,       \* the last second: bounds the run
  TOTAL,        \* the memory, in kB
  PieceSizes    \* how much a program asks for at a time

NewLine == 17
Label(k) == 18 + k    \* "MemTotal: ", " kB\nMemFree: ", " kB\nMemUsed: ", " kB\n"
Version == <<21, 22, 17>>

VARIABLES
  seconds, used,   \* the time since the start and the memory in use
  file, off, buf,  \* the file being read, the offset, and what was read
  calm             \* nothing has changed since the first: not in the code

procvars == <<seconds, used, file, off, buf, calm>>

\* black_procfs_uptime_read, meminfo_read and version_read make a text.
Text(f, s, u) ==
  CASE f = "uptime" -> PutDec(s) \o <<NewLine>>
    [] f = "meminfo" -> <<Label(0)>> \o PutDec(TOTAL) \o <<Label(1)>> \o PutDec(TOTAL - u)
                          \o <<Label(2)>> \o PutDec(u) \o <<Label(3)>>
    [] f = "version" -> Version

\* Their common end: the part of the text that was asked for.
ReadPart(text, o, n) ==
  IF o >= Len(text) THEN << >> ELSE SubSeq(text, o + 1, o + Min({n, Len(text) - o}))

ProcInit ==
  /\ seconds = 8 /\ used = 9
  /\ file = "none" /\ off = 0 /\ buf = << >> /\ calm = TRUE

OpenProc(f) ==
  /\ file' = f /\ off' = 0 /\ buf' = << >> /\ calm' = TRUE
  /\ UNCHANGED <<seconds, used>>
ReadProc(n) ==
  /\ file # "none"
  /\ LET got == ReadPart(Text(file, seconds, used), off, n) IN
       /\ got # << >>
       /\ buf' = buf \o got /\ off' = off + Len(got)
  /\ UNCHANGED <<seconds, used, file, calm>>
Changes ==
  /\ \/ seconds < LATEST /\ seconds' = seconds + 1 /\ used' = used
     \/ \E u \in {9, 10} : used' = u /\ seconds' = seconds
  /\ calm' = (off = 0)
  /\ UNCHANGED <<file, off, buf>>

ProcNext ==
  \/ \E f \in {"uptime", "meminfo", "version"} : OpenProc(f)
  \/ \E n \in PieceSizes : ReadProc(n)
  \/ Changes

AtEnd == file # "none" /\ off > 0 /\ ReadPart(Text(file, seconds, used), off, 1) = << >>

\* A program that reads to the end has the text of the file as it was, if
\* nothing changed meanwhile, whatever the size of its pieces; the version
\* always.
ProcTextWhole ==
  AtEnd /\ (calm \/ file = "version") => buf = Text(file, seconds, used)
-----------------------------------------------------------------------------
\* black_procfs_add and black_devfs_add, as black_procfs_init and
\* black_devfs_init use them; readdir and finddir.
Added(base, max, table, name) ==
  IF Len(table) >= max THEN table
  ELSE Append(table, [name |-> name, inode |-> base + Len(table) + 1])
ProcTable == FoldLeft(LAMBDA t, n : Added(2000, 8, t, n), << >>, <<"uptime", "meminfo", "version">>)
DevTable == FoldLeft(LAMBDA t, n : Added(1000, 16, t, n), << >>, <<"null", "zero", "random", "urandom">>)
Missing == [name |-> "", inode |-> 0]
ReadDir(table, i) == IF i >= Len(table) THEN Missing ELSE table[i + 1]
FindDir(table, name) ==
  LET hits == {i \in DOMAIN table : table[i].name = name}
  IN IF hits = {} THEN Missing ELSE table[Min(hits)]

\* What a directory lists is found in it, and no two files of the system
\* have the same inode.
ListedIsFound ==
  /\ \A t \in {ProcTable, DevTable}, i \in 0 .. 4 : FindDir(t, ReadDir(t, i).name) = ReadDir(t, i)
  /\ LET all == ProcTable \o DevTable
     IN \A i, j \in DOMAIN all : all[i].inode = all[j].inode => i = j
=============================================================================
