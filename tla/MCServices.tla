----------------------------- MODULE MCServices -----------------------------
(***************************************************************************)
(* Drivers, Rust crates and small tables for TLC, as a disjoint union: a   *)
(* behaviour exercises the part that spart names.                          *)
(***************************************************************************)
EXTENDS E1000, RustCore, Slab, Formats, Tables, CString, Shell

VARIABLE spart

ServicesVars == <<spart, rx, tx, ringvars, slabvars, shavars, accounts, lookupvars,
                  elf, packets, cmem, shellvars, countvars>>

MCHash == [p \in {"black", "x", "y"} |-> IF p = "y" THEN 1 ELSE 2]
MCAddresses == {<<1, 1>>, <<1, 2>>, <<2, 1>>}
MCCut == [k \in {"PATH", "A", "AB"} |-> IF k = "AB" THEN "A" ELSE k]

\* Program headers and files on both sides of every limit of the tests.
MCSegments ==
  {[type |-> t, offset |-> 0, filesz |-> 9, memsz |-> 0, vaddr |-> 0] : t \in {"NULL", "NOTE"}}
    \cup [type : {"LOAD"}, offset : {2}, filesz : {1, 2, 4}, memsz : {1, 4}, vaddr : {0, 1}]
MCElfFiles ==
  [len : {1, 2, 4, 6}, ident : {0, -2}, phoff : {2, 7}, shoff : {0, 7}, phnum : 0 .. 2,
   phentsize : {1, 2}, ph : [0 .. 1 -> MCSegments]]
MCFrames ==
  [len : {13, 14, 33, 34, 42, 54, 60}, ethertype : {"ipv4", "arp", "other"}, version : {4, 6},
   ihl : {0, 5, 6, 15}, total : {19, 20, 28, 40, 41}, ttl : {0, 1}, sum_ok : BOOLEAN,
   protocol : {"tcp", "udp", "icmp"}, tcp_offset : {0, 5, 6}, udp_len : {7, 8, 9, 26}]
MCNumerals == {<<0>>, <<1>>, <<9>>, <<1, 0>>, <<1, 1>>, <<1, 2>>, <<9, 9>>, <<1, 0, 0>>, <<1, 2, 7>>}
MCCalcLines ==
  {g \o a \o g \o <<o>> \o g \o b : g \in {<< >>, <<Space>>}, a \in MCNumerals,
                                    o \in 16 .. 19, b \in MCNumerals}
MCHeaders == [1 .. 3 -> 0 .. 7]

ServicesInit ==
  /\ spart \in {"card", "ring", "slab", "digest", "accounts",
               "routes", "arp", "env", "elf", "frame", "checksum", "string",
               "shell", "bits", "stats"}
  /\ E1000Init /\ RingInit /\ SlabInit /\ ShaInit /\ AccountsInit /\ LookupsInit
  /\ ElfInit /\ PacketsInit /\ CStringInit /\ ShellInit
  /\ CountersInit /\ (spart # "bits" => bit_size = 3)

ServicesNext ==
  /\ spart' = spart
  /\ IF spart = "card" THEN E1000Next ELSE UNCHANGED <<rx, tx>>
  /\ IF spart = "ring" THEN RingNext ELSE UNCHANGED ringvars
  /\ IF spart = "slab" THEN SlabNext ELSE UNCHANGED slabvars
  /\ IF spart = "digest" THEN ShaNext ELSE UNCHANGED shavars
  /\ IF spart = "accounts" THEN AccountsNext ELSE UNCHANGED accounts
  /\ \/ spart = "routes" /\ RouteStep
     \/ spart = "arp" /\ ArpStep
     \/ spart = "env" /\ EnvStep
     \/ spart \notin {"routes", "arp", "env"} /\ UNCHANGED lookupvars
  /\ IF spart = "elf" THEN ElfGiven ELSE UNCHANGED elf
  /\ \/ spart = "frame" /\ FrameGiven
     \/ spart = "checksum" /\ HeaderGiven
     \/ spart \notin {"frame", "checksum"} /\ UNCHANGED packets
  /\ IF spart = "string" THEN MemoryGiven ELSE UNCHANGED cmem
  /\ IF spart = "shell" THEN InputGiven ELSE UNCHANGED shellvars
  /\ \/ spart = "bits" /\ BitStep
     \/ spart = "stats" /\ PoolStep
     \/ spart \notin {"bits", "stats"} /\ UNCHANGED countvars

ServicesSpec == ServicesInit /\ [][ServicesNext]_ServicesVars
-----------------------------------------------------------------------------
\* Frames pass the rings of the card, and bytes the ring of the Rust core,
\* once and in order.
RingsInOrder == FramesInOrder /\ RingKeepsOrder

\* Logins name one user, the environment has what was last set, and the
\* counters and the bit set say what they have been told.
AnswersRight == LoginNamesOneUser /\ EnvKeepsLast /\ CountersTrue

\* ELF files and packets that pass the tests can be loaded and parsed,
\* checksums that were computed are accepted, the string functions agree
\* with what they promise, and the shell's numbers and answers are right.
FunctionsRight ==
  /\ ValidatedSegmentsLoad /\ ValidPacketsParse /\ ChecksumAccepted
  /\ spart = "string" => StringsRight
  /\ spart = "shell" => ShellRight

\* Logins, memberships, routes and hardware addresses that were found once
\* are found ever after.
AnswersStable == [][AccountsStable /\ LookupsStable]_ServicesVars
=============================================================================
