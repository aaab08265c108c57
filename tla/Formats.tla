------------------------------- MODULE Formats ------------------------------
(***************************************************************************)
(* What the Rust crates black_parser, black_net and black_crypto do with   *)
(* bytes that come from outside: pure functions, on inputs of a bounded    *)
(* set.                                                                    *)
(***************************************************************************)
EXTENDS Integers, FiniteSets, Sequences, SequencesExt

(***************************************************************************)
(* The tests of rust/black_parser/src/lib.rs on an ELF file: the header,   *)
(* the program headers, and the segments that are handed out one by one.   *)
(* Sizes are small numbers; a file is what the tests read of it.           *)
(***************************************************************************)

CONSTANTS
  HEADER,      \* the size of the file header, 52 in the code
  PH_SIZE,     \* the size of a program header, 32 in the code
  LOW_VADDR,   \* the lowest address of a segment, 0x08048000 in the code
  ElfFiles     \* the files that are tested

NoFile == [len |-> 0]

VARIABLE elf   \* black_data and black_len, or NoFile

ElfInit == elf = NoFile
ElfGiven == elf = NoFile /\ elf' \in ElfFiles

\* black_elf_verify_rust.  ident is 0 or the number of the identification
\* test that fails: magic, class, byte order or machine.
Verify(f) ==
  IF f.len < HEADER THEN -1
  ELSE IF f.ident # 0 THEN f.ident
  ELSE IF f.phoff > f.len THEN -6
  ELSE IF f.shoff > f.len THEN -7
  ELSE IF f.phoff + f.phnum * f.phentsize > f.len THEN -8 ELSE 0

HeaderInFile(f, i) == f.phoff + i * f.phentsize + PH_SIZE <= f.len
ProgramHeaders(f) == 0 .. f.phnum - 1

\* black_elf_get_load_segment: 0 when the segment is handed out.
GetLoadSegment(f, i) ==
  IF f.len < HEADER THEN -1
  ELSE IF i >= f.phnum THEN -2
  ELSE IF ~HeaderInFile(f, i) THEN -3
  ELSE IF f.ph[i].type # "LOAD" THEN -4 ELSE 0

\* What black_elf_validate_segments finds wrong with one program header,
\* and its answer: the first error, or the number of segments to load.
SegmentError(f, i) ==
  LET p == f.ph[i] IN
    IF ~HeaderInFile(f, i) THEN -2
    ELSE IF p.type # "LOAD" THEN 0
    ELSE IF p.offset + p.filesz > f.len THEN -3
    ELSE IF p.memsz < p.filesz THEN -4
    ELSE IF p.vaddr < LOW_VADDR THEN -5 ELSE 0

ValidateSegments(f) ==
  LET bad == {i \in ProgramHeaders(f) : SegmentError(f, i) # 0}
      loads == {i \in ProgramHeaders(f) : f.ph[i].type = "LOAD"}
  IN IF f.len < HEADER THEN -1
     ELSE IF bad # {} THEN SegmentError(f, CHOOSE i \in bad : \A j \in bad : i <= j)
     ELSE IF loads = {} THEN -6 ELSE Cardinality(loads)
-----------------------------------------------------------------------------
\* A positive answer of black_elf_validate_segments is the number of segments
\* that black_elf_get_load_segment then hands out; all of them lie in the
\* file, and no program header is refused as lying outside.  The header test
\* is at least as strict as the segment test about the place of the program
\* headers, as long as they have at least the standard size.
ValidatedSegmentsLoad ==
  elf # NoFile =>
    /\ ValidateSegments(elf) > 0 =>
         LET given == {i \in ProgramHeaders(elf) : GetLoadSegment(elf, i) = 0}
         IN /\ Cardinality(given) = ValidateSegments(elf)
            /\ \A i \in given : elf.ph[i].offset + elf.ph[i].filesz <= elf.len
            /\ \A i \in ProgramHeaders(elf) : GetLoadSegment(elf, i) \in {0, -4}
    /\ Verify(elf) = 0 /\ elf.phentsize >= PH_SIZE => ValidateSegments(elf) # -2
-----------------------------------------------------------------------------
(***************************************************************************)
(* The packet tests of rust/black_net/src/lib.rs, and black_parse_packet,  *)
(* which finds the payload without them.  A packet is the fields that are  *)
(* read; header lengths are those of the protocols.                        *)
(***************************************************************************)

CONSTANTS
  SIZE_MOD,     \* usize wraps here, 2^32 in the code
  WORD,         \* the values of a 16-bit word of the checksum
  FrameInputs,  \* the packets that are tested
  HeaderInputs  \* the headers whose checksum is computed: three words

NoFrame == [len |-> 0]
NoHeader == <<0, 0, 0>>

VARIABLES frame, header

packets == <<frame, header>>

PacketsInit == frame = NoFrame /\ header = NoHeader
FrameGiven == frame = NoFrame /\ frame' \in FrameInputs /\ UNCHANGED header
HeaderGiven == header = NoHeader /\ header' \in HeaderInputs /\ UNCHANGED frame

Ihl(p) == 4 * p.ihl
TcpHeader(p) == 4 * p.tcp_offset
IpLen(p) == p.len - 14
TransportLen(p) == (IpLen(p) - Ihl(p)) % SIZE_MOD

\* The one's complement sum, and black_compute_ip_checksum.
Folded[s \in Nat] == IF s < WORD THEN s ELSE Folded[(s % WORD) + s \div WORD]
SumOf(h) == h[1] + h[2] + h[3]
Checksum(h) == WORD - 1 - Folded[SumOf(h)]

\* black_validate_ethernet, _ipv4, _tcp and _udp.  sum_ok is the test of the
\* header checksum.
ValidEthernet(p) == p.len >= 14 /\ p.ethertype \in {"ipv4", "arp", "ipv6"}
ValidIpv4(p) ==
  /\ IpLen(p) >= 20 /\ p.version = 4
  /\ Ihl(p) >= 20 /\ Ihl(p) <= IpLen(p)
  /\ p.total >= Ihl(p) /\ p.total <= IpLen(p)
  /\ p.ttl # 0 /\ p.sum_ok
ValidTcp(p) ==
  TransportLen(p) >= 20 /\ TcpHeader(p) >= 20 /\ TcpHeader(p) <= TransportLen(p)
ValidUdp(p) == TransportLen(p) >= 8 /\ p.udp_len >= 8 /\ p.udp_len <= TransportLen(p)

\* black_parse_packet: the answer, and the payload where it is written.  The
\* lengths are 16-bit numbers.
ParseError(p) ==
  IF p.len < 14 THEN -1
  ELSE IF p.ethertype # "ipv4" THEN -2
  ELSE IF IpLen(p) < 20 THEN -3
  ELSE IF p.protocol = "tcp" /\ TransportLen(p) < 20 THEN -4
  ELSE IF p.protocol = "udp" /\ TransportLen(p) < 8 THEN -5 ELSE 0
PayloadOffset(p) == 14 + Ihl(p) + (IF p.protocol = "tcp" THEN TcpHeader(p) ELSE 8)
PayloadLen(p) == (p.udp_len - 8) % 65536
-----------------------------------------------------------------------------
\* A packet that passes the tests of its layers is parsed, and its payload
\* lies in the packet.
ValidPacketsParse ==
  /\ frame # NoFrame /\ ValidEthernet(frame) /\ frame.ethertype = "ipv4" /\ ValidIpv4(frame)
  /\ \/ frame.protocol = "tcp" /\ ValidTcp(frame)
     \/ frame.protocol = "udp" /\ ValidUdp(frame)
  => /\ ParseError(frame) = 0
     /\ PayloadOffset(frame) <= frame.len
     /\ frame.protocol = "udp" => PayloadOffset(frame) + PayloadLen(frame) <= frame.len

\* A header that carries the checksum computed while that field was zero
\* passes the test of black_validate_ipv4.
ChecksumAccepted ==
  LET filled == [header EXCEPT ![2] = Checksum([header EXCEPT ![2] = 0])]
  IN Folded[SumOf(filled)] = WORD - 1
-----------------------------------------------------------------------------
(***************************************************************************)
(* How rust/black_crypto/src/lib.rs cuts a message into the blocks that    *)
(* black_sha256_transform compresses: black_sha256_update collects bytes   *)
(* in a buffer, black_sha256_final adds the padding and the length.  The   *)
(* compression is left out: the sequence of blocks stands for black_state. *)
(***************************************************************************)

CONSTANTS
  BLOCK,      \* the bytes of a block, 64 in the code
  LEN_FIELD,  \* the bytes of the length field, 8 in the code
  RADIX,      \* the values of a byte, 256 in the code
  Chunk,      \* the longest message part that is given at once
  MAX_MESSAGE \* bound: the longest message

Mark == RADIX \div 2   \* the byte 0x80
MessageBytes == {1, 2}
Chunks == UNION {[1 .. n -> MessageBytes] : n \in 1 .. Chunk}

VARIABLES
  blocks,     \* the blocks compressed so far
  sha_buf,    \* black_buffer; what lies behind black_buflen is kept too
  buflen,     \* black_buflen
  total,      \* black_total
  finished,   \* black_sha256_final has run
  message     \* all bytes given to black_sha256_update: not in the code

shavars == <<blocks, sha_buf, buflen, total, finished, message>>

ShaInit ==
  /\ blocks = <<>> /\ sha_buf = [i \in 1 .. BLOCK |-> 0] /\ buflen = 0
  /\ total = 0 /\ finished = FALSE /\ message = <<>>

\* The context as one value, and a byte stored at black_buflen.
Context == [blocks |-> blocks, buf |-> sha_buf, len |-> buflen]
Stored(c, b) == [c EXCEPT !.buf[c.len + 1] = b, !.len = @ + 1]
Compressed(c) == [c EXCEPT !.blocks = Append(@, c.buf), !.len = 0]

SetContext(c) == blocks' = c.blocks /\ sha_buf' = c.buf /\ buflen' = c.len

\* black_sha256_update: as much as fits, and a full buffer is compressed.
Absorbed(c, b) ==
  LET d == Stored(c, b) IN IF d.len = BLOCK THEN Compressed(d) ELSE d

Update(data) ==
  /\ ~finished /\ Len(message) + Len(data) <= MAX_MESSAGE
  /\ SetContext(FoldLeft(Absorbed, Context, data))
  /\ total' = total + Len(data)
  /\ message' = message \o data
  /\ UNCHANGED finished
-----------------------------------------------------------------------------
\* Zeros up to position n, and the length in bits, highest byte first.
Filled(c, n) ==
  [c EXCEPT !.buf = [i \in 1 .. BLOCK |-> IF i \in c.len + 1 .. n THEN 0 ELSE @[i]],
            !.len = IF c.len < n THEN n ELSE @]
LengthByte(i) == ((8 * total) \div RADIX ^ (LEN_FIELD - i)) % RADIX

\* black_sha256_final: a block more when the length does not fit behind the
\* mark.
FinalNoExtraBlock(c) == Filled(c, BLOCK - LEN_FIELD)
FinalRoom(c) ==
  Filled(IF c.len > BLOCK - LEN_FIELD THEN Compressed(Filled(c, BLOCK)) ELSE c,
         BLOCK - LEN_FIELD)

Final ==
  LET c == FinalRoom(Stored(Context, Mark))
      last == [i \in 1 .. BLOCK |-> IF i > BLOCK - LEN_FIELD
                                    THEN LengthByte(i - (BLOCK - LEN_FIELD)) ELSE c.buf[i]]
  IN /\ ~finished
     /\ SetContext([blocks |-> Append(c.blocks, last), buf |-> last, len |-> c.len])
     /\ finished' = TRUE
     /\ UNCHANGED <<total, message>>

ShaNext == (\E data \in Chunks : Update(data)) \/ Final \/ (finished /\ UNCHANGED shavars)
-----------------------------------------------------------------------------
\* The standard's padded message: the mark, as few zeros as make the whole a
\* number of blocks, and the length.
Padded ==
  LET n == CHOOSE k \in Len(message) + 1 + LEN_FIELD .. Len(message) + LEN_FIELD + BLOCK :
             k % BLOCK = 0
  IN [i \in 1 .. n |->
        CASE i <= Len(message) -> message[i]
          [] i = Len(message) + 1 -> Mark
          [] i > n - LEN_FIELD -> LengthByte(i - (n - LEN_FIELD))
          [] OTHER -> 0]

\* However a message is cut into calls of black_sha256_update, the blocks
\* that are compressed are those of the message, nothing is lost or doubled
\* at a block boundary, and black_sha256_final completes them to the padded
\* message of the standard, also when the padding needs a block of its own.
DigestOfPaddedMessage ==
  FlattenSeq(blocks) = IF finished THEN Padded
                       ELSE SubSeq(message, 1, Len(message) - buflen)
=============================================================================
