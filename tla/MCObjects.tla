------------------------------ MODULE MCObjects -----------------------------
(***************************************************************************)
(* What processes share, for TLC: the pipes, message queues and shared     *)
(* memory of kernel/ipc and the files of kernel/fs.  A behaviour exercises *)
(* the one that part names; they share no state.                           *)
(***************************************************************************)
EXTENDS Pipe, Vfs

CONSTANTS
  Senders, Receivers, MAX_MESSAGES, COUNT_MOD, SENT_CAP,
  ShmProcs, MAX_SHM, Addresses,
  FileFds, MAX_FILESIZE, FIRST_CAP, MAX_IO, OFFSET_MOD,
  BITS, LATEST, TOTAL, PieceSizes

VARIABLES
  part,   \* what is exercised
  mq_messages, mq_head, mq_tail, mq_count, mq_checked, mq_heap, mq_received,
  sh_addr, sh_ref_count, sh_active, sh_allocated, sh_attached,
  data, length, target, offset, written,
  seconds, used, file, off, buf, calm

mq == <<mq_messages, mq_head, mq_tail, mq_count, mq_checked, mq_heap, mq_received>>
sh == <<sh_addr, sh_ref_count, sh_active, sh_allocated, sh_attached>>
rf == <<data, length, target, offset, written>>
pr == <<seconds, used, file, off, buf, calm>>

Mq == INSTANCE MsgQueue WITH
        messages <- mq_messages, head <- mq_head, tail <- mq_tail, count <- mq_count,
        checked <- mq_checked, heap <- mq_heap, received <- mq_received
Sh == INSTANCE Shm WITH
        addr <- sh_addr, ref_count <- sh_ref_count, active <- sh_active,
        allocated <- sh_allocated, attached <- sh_attached
Fs == INSTANCE Files

\* devfs: its root is node 999 and its first entry node 1001.
MCFixedEntries == [nm \in {"null"} |-> 1001]
DevPath == <<"dev">>

ObjectsInit ==
  /\ part \in {"pipe", "msgq", "shm", "tree", "file", "proc"}
  /\ Init /\ Mq!Init /\ Sh!ShmInit /\ VfsInit /\ Fs!FileInit /\ Fs!ProcInit

ObjectsNext ==
  /\ part' = part
  /\ IF part = "pipe" THEN Next ELSE UNCHANGED vars
  /\ IF part = "msgq" THEN Mq!Next ELSE UNCHANGED mq
  /\ IF part = "shm" THEN Sh!ShmNext ELSE UNCHANGED sh
  /\ IF part = "tree" THEN VfsNext ELSE UNCHANGED vfsvars
  /\ IF part = "file" THEN Fs!FileNext ELSE UNCHANGED rf
  /\ IF part = "proc" THEN Fs!ProcNext ELSE UNCHANGED pr

ObjectsSpec == ObjectsInit /\ [][ObjectsNext]_<<part, vars, mq, sh, vfsvars, rf, pr>>
-----------------------------------------------------------------------------
\* Message queue: every message arrives once, in order, and none leaks.
\* The positions of the pipe stay inside its buffer.
QueueReliable == TypeOK /\ Mq!TypeOK /\ Mq!Reliable

\* Shared memory: a segment lives exactly as long as somebody uses it.
ShmSegmentsLiveWhileUsed == Sh!ShmTypeOK /\ Sh!SegmentsLiveWhileUsed

\* A file in memory holds what was written to it; a file of procfs gives a
\* reader its whole text, piece by piece.
FilesGiveTheirText ==
  /\ Fs!FileTypeOK /\ (part = "tree" => VfsTypeOK)
  /\ Fs!FileKeepsData
  /\ Fs!ProcTextWhole /\ Fs!ListedIsFound
=============================================================================
