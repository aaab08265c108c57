--------------------------------- MODULE Ata --------------------------------
(***************************************************************************)
(* The disk driver, kernel/drivers/ata/ata.c: identification of the drives *)
(* and polled reads and writes, sector by sector, against two drives on    *)
(* one channel, which are the environment.                                 *)
(***************************************************************************)
EXTENDS Integers, Sequences, SequencesExt, FiniteSets

CONSTANTS
  Units,      \* the drive positions, in the order black_ata_init asks them
  Sectors,    \* sector numbers
  Counts,     \* how many sectors a call transfers; never 0, which means 256
  SectorData  \* what a sector may hold

VARIABLES
  kinds,     \* what is at every position: "ata", "packet" or "none"
  devices,   \* black_ata_devices as far as black_ata_count
  asked,     \* the positions black_ata_init has asked
  chan,      \* the channel: its state and the command it works on
  disk,      \* what the drives hold
  call,      \* the call of the driver that is under way, or NoCall
  written,   \* what each sector holds for all the callers know: not in the code
  answer,    \* what the last read gave, and what it should: not in the code
  excused    \* a call gave up on a busy drive, or a drive failed while no
             \* caller listened: not in the code

atavars == <<kinds, devices, asked, chan, disk, call, written, answer, excused>>

Unknown == "unknown"
NoCall == [op |-> "none", unit |-> 0, lba |-> 0, n |-> 0, buf |-> << >>]
Idle == [st |-> "idle", op |-> "none", unit |-> 0, lba |-> 0, left |-> 0, cache |-> << >>]

NoAnswer == [got |-> << >>, want |-> << >>]

AtaInit ==
  /\ kinds \in [Units -> {"ata", "packet", "none"}]
  /\ devices = << >> /\ asked = 0 /\ chan = Idle
  /\ disk = [u \in Units |-> [s \in Sectors |-> Unknown]]
  /\ call = NoCall /\ written = disk /\ excused = FALSE
  /\ answer = NoAnswer

\* black_ata_identify: nobody answers, or the signature is that of a packet
\* device, or the drive does not get ready, or it is taken up.
Identify ==
  /\ asked < Cardinality(Units)
  /\ asked' = asked + 1
  /\ LET u == SetToSortSeq(Units, <)[asked + 1]
     IN \/ kinds[u] = "ata" /\ devices' = Append(devices, u)
        \/ UNCHANGED devices
  /\ UNCHANGED <<kinds, chan, disk, call, written, answer, excused>>

\* Writing the command register starts a drive that is not busy.  A busy
\* drive goes on with what it does.
Started(c, op, u, lba, n) ==
  IF c.st = "busy" THEN c
  ELSE [st |-> "busy", op |-> op, unit |-> u, lba |-> lba, left |-> n, cache |-> << >>]

\* black_ata_read_sectors and black_ata_write_sectors up to their loops.
ReadCall(i, lba, n) ==
  /\ call = NoCall /\ lba + n - 1 \in Sectors
  /\ chan' = Started(chan, "read", devices[i], lba, n)
  /\ call' = [op |-> "read", unit |-> devices[i], lba |-> lba, n |-> n, buf |-> << >>]
  /\ answer' = NoAnswer
  /\ UNCHANGED <<kinds, devices, asked, disk, written, excused>>

WriteCall(i, lba, data) ==
  /\ call = NoCall /\ lba + Len(data) - 1 \in Sectors
  /\ chan' = Started(chan, "write", devices[i], lba, Len(data))
  /\ call' = [op |-> "write", unit |-> devices[i], lba |-> lba, n |-> 1, buf |-> data]
  \* until it succeeds, nobody knows what the sectors hold
  /\ written' = [written EXCEPT ![devices[i]] =
       [s \in Sectors |-> IF s \in lba .. lba + Len(data) - 1 THEN Unknown ELSE @[s]]]
  /\ answer' = NoAnswer
  /\ UNCHANGED <<kinds, devices, asked, disk, excused>>
-----------------------------------------------------------------------------
\* The drive finishes what it is busy with: it stores the sector it was
\* given, and has one to give, wants one, or is done; or it fails.
DriveReady ==
  /\ chan.st = "busy"
  /\ disk' = IF chan.cache = << >> THEN disk
             ELSE [disk EXCEPT ![chan.unit][chan.lba - 1] = chan.cache[1]]
  /\ chan' = IF chan.left > 0 THEN [chan EXCEPT !.st = "drq", !.cache = << >>] ELSE Idle
  /\ UNCHANGED <<kinds, devices, asked, call, written, answer, excused>>
DriveFails ==
  /\ chan.st = "busy"
  /\ chan' = [Idle EXCEPT !.st = "error"]
  /\ UNCHANGED <<kinds, devices, asked, disk, call, written, answer, excused>>

\* What a sector taken from the data port is, and the channel after it: the
\* drive is done with the last sector it gave, and busy after any other.
Taken == IF chan.st = "drq" /\ chan.op = "read" THEN disk[chan.unit][chan.lba] ELSE Unknown
Gave == IF chan.st # "drq" THEN chan
        ELSE IF chan.op = "read" /\ chan.left = 1 THEN Idle
        ELSE [chan EXCEPT !.st = "busy", !.lba = @ + 1, !.left = @ - 1]
Got(d) == IF chan.st # "drq" \/ chan.op # "write" THEN Gave
          ELSE [Gave EXCEPT !.cache = <<d>>]

\* black_ata_poll: it gives up on a drive that stays busy, and it fails on
\* an error; the call returns -1.
PollGivesUp == chan.st = "busy" /\ excused' = TRUE
PollError == chan.st = "error" /\ UNCHANGED excused
PollFailed ==
  /\ call.op \in {"read", "write"}
  /\ PollGivesUp \/ PollError
  /\ call' = NoCall
  /\ UNCHANGED <<kinds, devices, asked, chan, disk, written, answer>>

PolledBusyToo == TRUE
Polled == chan.st \in {"drq", "idle"}

\* A turn of the read loop; after the last one the call returns 0.
ReadSector ==
  /\ call.op = "read" /\ Polled
  /\ LET buf == Append(call.buf, Taken) IN
       IF Len(buf) < call.n
       THEN call' = [call EXCEPT !.buf = buf] /\ UNCHANGED answer
       ELSE /\ call' = NoCall
            /\ answer' = [got |-> buf, want |-> [k \in 1 .. call.n |-> written[call.unit][call.lba + k - 1]]]
  /\ chan' = Gave
  /\ UNCHANGED <<kinds, devices, asked, disk, written, excused>>

\* A turn of the write loop; after the last one the cache is flushed.
WriteSector ==
  /\ call.op = "write" /\ Polled
  /\ LET d == call.buf[call.n] IN
       IF call.n < Len(call.buf)
       THEN call' = [call EXCEPT !.n = @ + 1] /\ chan' = Got(d)
       ELSE call' = [call EXCEPT !.op = "flush"] /\ chan' = Started(Got(d), "flush", call.unit, 0, 0)
  /\ UNCHANGED <<kinds, devices, asked, disk, written, answer, excused>>

\* The poll after the flush, whose outcome is ignored: the call returns 0.
FlushDone ==
  /\ call.op = "flush"
  /\ excused' = (excused \/ chan.st \in {"busy", "error"})
  /\ call' = NoCall
  /\ written' = [written EXCEPT ![call.unit] =
       [s \in Sectors |-> IF s - call.lba + 1 \in DOMAIN call.buf THEN call.buf[s - call.lba + 1]
                          ELSE @[s]]]
  /\ UNCHANGED <<kinds, devices, asked, chan, disk, answer>>

Driver == PollFailed \/ ReadSector \/ WriteSector \/ FlushDone

AtaNext ==
  \/ Identify \/ DriveReady \/ DriveFails \/ Driver
  \/ /\ asked = Cardinality(Units) /\ ~excused
     /\ \E i \in DOMAIN devices, lba \in Sectors, n \in Counts :
          \/ ReadCall(i, lba, n)
          \/ \E data \in [1 .. n -> SectorData] : WriteCall(i, lba, data)
-----------------------------------------------------------------------------
\* What a read returns is what was last written to those sectors of that
\* drive, through calls that fail in the middle, drives that report errors,
\* and the other drive on the channel; until a call has given up on a busy
\* drive, whose late answer the next call takes for its own, or the flush
\* has failed.  Only disks are taken up.
DiskKeepsData ==
  /\ ~excused =>
       \A k \in DOMAIN answer.got : answer.want[k] \in {answer.got[k], Unknown}
  /\ \A i \in DOMAIN devices : kinds[devices[i]] = "ata"
=============================================================================
