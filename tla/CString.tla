------------------------------ MODULE CString ------------------------------
(***************************************************************************)
(* libc/string/string.c, which the whole kernel is linked with.  A call    *)
(* reads and writes the bytes of one memory m at the addresses it is       *)
(* given, so source and destination may overlap.  A loop of the code is a  *)
(* function of the number of its turns.                                    *)
(***************************************************************************)
EXTENDS Integers, Sequences, SequencesExt

CONSTANTS
  MEMORY,  \* size of the memory
  Chars    \* bytes, 0 among them

NULL == -1
BYTE == 256

ASSUME CStringAssumption == MEMORY \in Nat \ {0} /\ 0 \in Chars /\ Chars \subseteq 0 .. BYTE - 1

VARIABLE cmem  \* the memory that the functions are tried on

Cells == 0 .. MEMORY - 1
-----------------------------------------------------------------------------
\* memset, memcpy: the bytes are written in the order of their addresses.
Memset(m, dst, val, n) ==
  [a \in DOMAIN m |-> IF a \in dst .. dst + n - 1 THEN val % BYTE ELSE m[a]]

Memcpy(m, dst, src, n) ==
  LET turn[i \in 0 .. n] ==
        IF i = 0 THEN m
        ELSE LET w == turn[i - 1] IN [w EXCEPT ![dst + i - 1] = w[src + i - 1]]
  IN turn[n]

\* The second loop of memmove starts from the end.
CopyDown(m, dst, src, n) ==
  LET turn[i \in 0 .. n] ==
        IF i = 0 THEN m
        ELSE LET w == turn[i - 1] IN [w EXCEPT ![dst + n - i] = w[src + n - i]]
  IN turn[n]

\* Mutant: upwards whatever the order of the two areas.
MemmoveUp(m, dst, src, n) == Memcpy(m, dst, src, n)

Memmove(m, dst, src, n) ==
  IF dst < src THEN Memcpy(m, dst, src, n) ELSE CopyDown(m, dst, src, n)

Memcmp(m, a, b, n) ==
  LET from[k \in 0 .. n] ==
        IF k = n THEN 0
        ELSE IF m[a + k] # m[b + k] THEN m[a + k] - m[b + k] ELSE from[k + 1]
  IN from[0]

Strlen(m, s) ==
  LET from[k \in 0 .. MEMORY] == IF m[s + k] = 0 THEN k ELSE from[k + 1] IN from[0]

\* strcpy copies the terminator too.  The loops of strcpy, strncpy, strcat
\* and strncat look for the end of the source as they go; that it can be
\* found before they begin needs a destination that does not start inside
\* the source, which is all that their callers use.
Strcpy(m, dst, src) == Memcpy(m, dst, src, Strlen(m, src) + 1)

\* strncpy fills up with zeros; it leaves no terminator in a full area.
Strncpy(m, dst, src, n) ==
  LET k == Min({n, Strlen(m, src)})
  IN Memset(Memcpy(m, dst, src, k), dst + k, 0, n - k)

Strncmp(m, a, b, n) ==
  LET from[k \in 0 .. n] ==
        IF k = n THEN 0
        ELSE IF m[a + k] # 0 /\ m[a + k] = m[b + k] THEN from[k + 1]
        ELSE m[a + k] - m[b + k]
  IN from[0]

Strcmp(m, a, b) == Strncmp(m, a, b, MEMORY)

Strcat(m, dst, src) == Strcpy(m, dst + Strlen(m, dst), src)

\* strncat always writes the terminator, as byte n + 1 if need be.
Strncat(m, dst, src, n) ==
  LET d == dst + Strlen(m, dst)
      k == Min({n, Strlen(m, src)})
  IN [Memcpy(m, d, src, k) EXCEPT ![d + k] = 0]

Strchr(m, s, c) ==
  LET from[a \in s .. s + Strlen(m, s)] ==
        IF m[a] = 0 THEN IF c = 0 THEN a ELSE NULL
        ELSE IF m[a] = c THEN a ELSE from[a + 1]
  IN from[s]

Strrchr(m, s, c) ==
  LET end == s + Strlen(m, s)
      last[a \in s .. end] ==
        IF a = s THEN NULL ELSE IF m[a - 1] = c THEN a - 1 ELSE last[a - 1]
  IN IF c = 0 THEN end ELSE last[end]

Strstr(m, haystack, needle) ==
  LET nlen == Strlen(m, needle)
      from[a \in haystack .. haystack + Strlen(m, haystack)] ==
        IF m[a] = 0 THEN NULL
        ELSE IF Strncmp(m, a, needle, nlen) = 0 THEN a ELSE from[a + 1]
  IN IF nlen = 0 THEN haystack ELSE from[haystack]
-----------------------------------------------------------------------------
\* Every memory is tried.
CStringInit == cmem = [a \in Cells |-> 0]

MemoryGiven == cmem = [a \in Cells |-> 0] /\ cmem' \in [Cells -> Chars]
-----------------------------------------------------------------------------
\* n bytes, and the string at an address if it ends within the memory.
Bytes(m, a, n) == [i \in 1 .. n |-> m[a + i - 1]]
IsString(m, a) == \E e \in a .. MEMORY - 1 : m[e] = 0
StringAt(m, a) == Bytes(m, a, Min({e \in a .. MEMORY - 1 : m[e] = 0}) - a)
FirstOf(s, n) == SubSeq(s, 1, Min({n, Len(s)}))

\* What it means to copy n bytes: all are read before one is written.
Copied(m, dst, src, n) ==
  [a \in DOMAIN m |-> IF a \in dst .. dst + n - 1 THEN m[src + a - dst] ELSE m[a]]

\* The order of two strings: by the first character in which they differ,
\* the end of a string being the least.
Before(s, t) ==
  \E k \in 0 .. Len(s) :
    /\ k < Len(t) /\ SubSeq(s, 1, k) = SubSeq(t, 1, k)
    /\ k < Len(s) => s[k + 1] < t[k + 1]

\* An area of n bytes at d that fits, and does not begin inside the string s
\* that it is filled from.
Fits(d, n) == d + n <= MEMORY
Behind(m, d, s) == d <= s \/ d > s + Strlen(m, s)

\* Comparisons and searches agree with the mathematics of strings.
SearchesRight(m) ==
  \A a, b \in {x \in Cells : IsString(m, x)} :
    LET s == StringAt(m, a)
        t == StringAt(m, b)
        at == {x \in a .. a + Len(s) : IsPrefix(t, StringAt(m, x))}
    IN /\ Strcmp(m, a, b) = 0 <=> s = t
       /\ Strcmp(m, a, b) < 0 <=> Before(s, t)
       /\ Strstr(m, a, b) = IF at = {} THEN NULL ELSE Min(at)
       /\ \A n \in 0 .. MEMORY :
            /\ Strncmp(m, a, b, n) = 0 <=> FirstOf(s, n) = FirstOf(t, n)
            /\ Strncmp(m, a, b, n) < 0 <=> Before(FirstOf(s, n), FirstOf(t, n))
       /\ \A c \in Chars :
            LET here == {x \in a .. a + Len(s) : m[x] = c}
            IN /\ Strchr(m, a, c) = IF here = {} THEN NULL ELSE Min(here)
               /\ Strrchr(m, a, c) = IF here = {} THEN NULL ELSE Max(here)

\* Copying leaves the bytes it should and no other byte changed.
CopiesRight(m) ==
  /\ \A d, s \in Cells, n \in 0 .. MEMORY : Fits(d, n) /\ Fits(s, n) =>
       /\ Memmove(m, d, s, n) = Copied(m, d, s, n)
       /\ Memcmp(m, d, s, n) = 0 <=> Bytes(m, d, n) = Bytes(m, s, n)
       /\ Memcmp(m, d, s, n) < 0 <=> Before(Bytes(m, d, n), Bytes(m, s, n))
  /\ \A d, s \in Cells : IsString(m, s) /\ Behind(m, d, s) =>
       LET len == Strlen(m, s) IN
       /\ Fits(d, len + 1) => Strcpy(m, d, s) = Copied(m, d, s, len + 1)
       /\ \A n \in {x \in 0 .. MEMORY : Fits(d, x)} :
            Strncpy(m, d, s, n) =
              [a \in DOMAIN m |-> IF a \notin d .. d + n - 1 THEN m[a]
                                  ELSE IF a < d + len THEN m[s + a - d] ELSE 0]

\* Appending makes the concatenation.
AppendsRight(m) ==
  \A d, s \in {x \in Cells : IsString(m, x)} :
    LET end == d + Strlen(m, d) IN
    Behind(m, end, s) =>
      /\ Fits(end, Strlen(m, s) + 1) =>
           StringAt(Strcat(m, d, s), d) = StringAt(m, d) \o StringAt(m, s)
      /\ \A n \in 0 .. MEMORY : Fits(end, Min({n, Strlen(m, s)}) + 1) =>
           StringAt(Strncat(m, d, s, n), d) = StringAt(m, d) \o FirstOf(StringAt(m, s), n)

\* The string functions do what their names promise on every memory: moves
\* are right for areas that overlap in either direction, searches find the
\* first or the last place, comparisons order the strings, and nothing
\* outside the destination is written.
StringsRight == SearchesRight(cmem) /\ CopiesRight(cmem) /\ AppendsRight(cmem)
=============================================================================
