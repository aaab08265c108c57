----------------------------- MODULE BusAndClock ----------------------------
(***************************************************************************)
(* The clock chip and the PCI bus of kernel/drivers.                       *)
(***************************************************************************)
EXTENDS Integers, Sequences, FiniteSets, SequencesExt, FiniteSetsExt

(***************************************************************************)
(* The clock chip, kernel/drivers/rtc/rtc.c: reading its registers one by  *)
(* one while it goes on, and the days since 1970.  The registers hold      *)
(* decimal digits packed in halves of a byte.                              *)
(***************************************************************************)

CONSTANTS
  FIELDS,     \* the registers that are read, from seconds upwards
  PERIODS,    \* the values of a register before it starts again
  NOTICE,     \* register reads that fit between the announcement of an
              \* update and the update: 244 microseconds in the chip
  DateInputs  \* the dates given to the conversion

VARIABLES
  clock,      \* the registers, as packed decimals
  announced,  \* the update flag, and how many reads ago it was raised
  field,      \* the next register black_rtc_get_time reads; 0 outside
  got,        \* the fields of black_t that are filled
  shown,      \* the times the registers showed during the call: not in the code
  held,       \* interrupts kept the reader from its reads: not in the code
  date        \* a date, for the conversion

rtc == <<clock, announced, field, got, shown, held>>

NotAnnounced == -1
Pack(v) == ((v \div 10) * 16) + (v % 10)

\* black_bcd_to_bin
Bcd(b) == ((b \div 16) * 10) + (b % 16)

RtcInit ==
  /\ clock = [f \in 1 .. FIELDS |-> Pack(0)] /\ announced = NotAnnounced
  /\ field = 0 /\ got = << >> /\ shown = {} /\ held = FALSE

\* The chip: a second later, every register that is full starts again.
Time(c) == [f \in 1 .. FIELDS |-> ((c[f] \div 16) * 10) + (c[f] % 16)]
Later(t) ==
  [f \in 1 .. FIELDS |->
     IF \A g \in 1 .. f - 1 : t[g] = PERIODS - 1 THEN (t[f] + 1) % PERIODS ELSE t[f]]

Announce ==
  /\ announced = NotAnnounced /\ announced' = 0
  /\ UNCHANGED <<clock, field, got, shown, held>>
ChipUpdate ==
  /\ announced # NotAnnounced
  /\ field = 0 \/ held \/ announced >= NOTICE
  /\ LET t == Later(Time(clock)) IN
       /\ clock' = [f \in 1 .. FIELDS |-> Pack(t[f])]
       /\ shown' = IF held THEN shown ELSE IF field = 0 THEN {} ELSE shown \cup {t}
  /\ got' = IF field = 0 THEN << >> ELSE got  \* the caller is done with it
  /\ announced' = NotAnnounced
  /\ UNCHANGED <<field, held>>

\* black_rtc_get_time: wait until no update is announced, then read.
StillUpdating ==
  /\ field = 0 /\ announced \in 0 .. NOTICE - 1
  /\ announced' = announced + 1
  /\ UNCHANGED <<clock, field, got, shown, held>>
GetTimeNoWait ==
  /\ field = 0
  /\ field' = 1 /\ got' = << >> /\ shown' = {Time(clock)} /\ held' = FALSE
  /\ UNCHANGED <<clock, announced>>
GetTime ==
  /\ field = 0
  /\ announced = NotAnnounced
  /\ field' = 1 /\ got' = << >> /\ shown' = {Time(clock)} /\ held' = FALSE
  /\ UNCHANGED <<clock, announced>>
ReadField ==
  /\ field \in 1 .. FIELDS
  /\ got' = Append(got, Bcd(clock[field]))
  /\ field' = (field + 1) % (FIELDS + 1)
  /\ announced' = IF announced = NotAnnounced THEN announced ELSE announced + 1
  /\ UNCHANGED <<clock, shown, held>>

\* An interrupt handler runs between two reads for longer than the notice.
Delay ==
  /\ field # 0 /\ held' = TRUE /\ shown' = {}
  /\ UNCHANGED <<clock, announced, field, got>>

RtcNext == Announce \/ ChipUpdate \/ StillUpdating \/ GetTime \/ ReadField \/ Delay

\* The time that is returned is one the chip has shown, never a mixture of
\* two, as long as no interrupt holds the reader up between its reads.
TimeIsWhole ==
  field = 0 /\ got # << >> /\ ~held => [f \in 1 .. FIELDS |-> got[f]] \in shown
-----------------------------------------------------------------------------
Leap(y) == y % 4 = 0 /\ (y % 100 # 0 \/ y % 400 = 0)

\* black_rtc_get_unix_timestamp, in days.
MonthDays == <<0, 31, 59, 90, 120, 151, 181, 212, 243, 273, 304, 334>>
DaysSince1970(d) ==
  365 * (d.year - 1970)
    + Cardinality({y \in 1970 .. d.year - 1 : Leap(y)})
    + MonthDays[d.month]
    + (IF d.month > 2 /\ Leap(d.year) THEN 1 ELSE 0)
    + d.day - 1

\* The calendar, from the lengths of the months.
LastDay(y, m) == IF m = 2 THEN (IF Leap(y) THEN 29 ELSE 28)
                 ELSE IF m \in {4, 6, 9, 11} THEN 30 ELSE 31
NextDate(d) ==
  IF d.day < LastDay(d.year, d.month) THEN [d EXCEPT !.day = @ + 1]
  ELSE IF d.month < 12 THEN [d EXCEPT !.month = @ + 1, !.day = 1]
  ELSE [year |-> d.year + 1, month |-> 1, day |-> 1]

NoDate == [year |-> 1970, month |-> 1, day |-> 1]
DateGiven == date = NoDate /\ date' \in DateInputs

\* The count of days starts at 0 and grows by one from every date to the
\* next, over the ends of months, leap years and centuries.
DaysFollowCalendar ==
  /\ DaysSince1970(NoDate) = 0
  /\ date.day <= LastDay(date.year, date.month) =>
       DaysSince1970(NextDate(date)) = DaysSince1970(date) + 1
-----------------------------------------------------------------------------
(***************************************************************************)
(* The enumeration of the PCI bus, kernel/drivers/pci/pci.c, over every    *)
(* population of a small bus.                                              *)
(***************************************************************************)

CONSTANTS
  SLOTS,            \* the slots that are scanned, 256 times 32 in the code
  FUNCS,            \* the functions of a slot, 8 in the code
  PCI_MAX_DEVICES   \* 64 in the code

VARIABLE bus  \* slot -> function -> "absent", "single" or "multi"

NoBus == [s \in 0 .. SLOTS - 1 |-> [f \in 0 .. FUNCS - 1 |-> "absent"]]

PciInit == bus = NoBus
BusGiven ==
  /\ bus = NoBus
  /\ bus' \in [0 .. SLOTS - 1 -> [0 .. FUNCS - 1 -> {"absent", "single", "multi"}]]

\* black_pci_scan_device, for one function; for function 0 of a device that
\* has several, the others follow.
ScanFunction(b, s, f, list) ==
  IF b[s][f] = "absent" \/ Len(list) >= PCI_MAX_DEVICES THEN list ELSE Append(list, <<s, f>>)
ScanDevice(b, s, list) ==
  IF b[s][0] = "multi" /\ Len(list) < PCI_MAX_DEVICES
  THEN FoldLeft(LAMBDA l, f : ScanFunction(b, s, f, l), list, [i \in 1 .. FUNCS |-> i - 1])
  ELSE ScanFunction(b, s, 0, list)

\* black_pci_init
Devices == FoldLeft(LAMBDA l, s : ScanDevice(bus, s, l), << >>, [i \in 1 .. SLOTS |-> i - 1])

\* Every function that answers, and whose device says that it has more than
\* one or is its only one, is listed once, in the order of the bus, until
\* the table is full.
BusListed ==
  LET found == {p \in (0 .. SLOTS - 1) \X (0 .. FUNCS - 1) :
                  /\ bus[p[1]][p[2]] # "absent"
                  /\ p[2] = 0 \/ bus[p[1]][0] = "multi"}
      order == SetToSortSeq(found, LAMBDA p, q : p[1] * FUNCS + p[2] < q[1] * FUNCS + q[2])
  IN Devices = SubSeq(order, 1, Min({PCI_MAX_DEVICES, Len(order)}))
=============================================================================
