-------------------------------- MODULE Shell -------------------------------
(***************************************************************************)
(* The commands of kernel/shell/shell.c that compute: which handler a line *)
(* gets, calc, and the time of day of date and of the task bar.            *)
(***************************************************************************)
EXTENDS Numerals

CONSTANTS
  Words,      \* first words of command lines
  CalcLines,  \* arguments of calc, as characters
  Seconds     \* times since the start

Space == 20
Operators == [plus |-> 17, minus |-> 16, times |-> 18, by |-> 19]

VARIABLES
  number,  \* a number, to be printed and read
  line,    \* [word, arg]: a first word and what follows it and a space, if any
  sum,     \* an argument of calc
  uptime   \* seconds

shellvars == <<number, line, sum, uptime>>

\* black_execute_cmd: the handlers by whole lines, and by lines that begin
\* with a word and a space.
WholeLines ==
  [help |-> "help", clear |-> "clear", uname |-> "uname", meminfo |-> "meminfo", free |-> "meminfo",
   tasks |-> "tasks", ps |-> "tasks", ls |-> "ls", date |-> "date", time |-> "date",
   uptime |-> "uptime", whoami |-> "whoami", matrix |-> "matrix", version |-> "version",
   halt |-> "halt", shutdown |-> "halt"]
WithArgument == {"echo", "calc", "mkdir"}
ExecuteCmd(l) ==
  IF l.word = "" /\ l.arg = "" THEN "nothing"
  ELSE IF l.arg = "" /\ l.word \in DOMAIN WholeLines THEN WholeLines[l.word]
  ELSE IF l = [word |-> "uname", arg |-> "-a"] THEN "uname"
  ELSE IF l.arg # "" /\ l.word \in WithArgument THEN l.word
  ELSE "unrecognized"

\* What black_cmd_help lists.
Listed == {"help", "clear", "echo", "date", "calc", "ls", "mkdir", "uname", "meminfo", "tasks",
           "uptime", "whoami", "matrix", "version", "halt"}

\* black_cmd_calc: the operands are int, the answer is printed as a word
\* without sign.
SkipSpaces(s, i) ==
  LET ends == {j \in i .. Len(s) : s[j] # Space}
  IN IF ends = {} THEN Len(s) + 1 ELSE CHOOSE j \in ends : \A k \in ends : j <= k
CalcAnswer(a, op, b) ==
  CASE op = Operators.plus -> PutDec(Unsigned(a + b))
    [] op = Operators.minus -> IF a < b THEN <<Minus>> \o PutDec(b - a) ELSE PutDec(a - b)
    [] op = Operators.times -> PutDec(Unsigned(a * b))
    [] op = Operators.by -> IF b = 0 THEN << >> ELSE PutDec(a \div b)
    [] OTHER -> << >>
CmdCalc(s) ==
  LET i1 == SkipSpaces(s, 1)
      i2 == SkipSpaces(s, DigitsFrom(s, i1) + 1)
      is == i2 <= Len(s) /\ s[i2] \in {Operators[o] : o \in DOMAIN Operators}
      i3 == SkipSpaces(s, IF is THEN i2 + 1 ELSE i2)
  IN CalcAnswer(NumberFrom(s, i1), IF is THEN s[i2] ELSE 0, NumberFrom(s, i3))

\* black_cmd_date and the clock of black_gui_draw_taskbar.
TimeText(t) ==
  LET m  == t \div 60
      hr == m \div 60
  IN <<hr \div 10, hr % 10, (m % 60) \div 10, m % 10, (t % 60) \div 10, t % 10>>

ShellInit == number = 0 /\ line = [word |-> "", arg |-> ""] /\ sum = << >> /\ uptime = 0
InputGiven ==
  /\ number = 0 /\ line.word = "" /\ sum = << >> /\ uptime = 0
  /\ \/ number' \in -(2^(BITS - 1)) .. 2^(BITS - 1) - 1 /\ UNCHANGED <<line, sum, uptime>>
     \/ line' \in [word : Words, arg : {"", "-a", "text"}] /\ UNCHANGED <<number, sum, uptime>>
     \/ sum' \in CalcLines /\ UNCHANGED <<number, line, uptime>>
     \/ uptime' \in Seconds /\ UNCHANGED <<number, line, sum>>
-----------------------------------------------------------------------------
\* The exact answer of a line that is a number, an operator and a number.
Operand(s, P(_)) ==
  FoldLeft(LAMBDA a, i : IF s[i] <= 9 /\ P(i) THEN a * 10 + s[i] ELSE a, 0, [i \in 1 .. Len(s) |-> i])
Exact(s) ==
  LET op == CHOOSE i \in 1 .. Len(s) : s[i] \in {Operators[o] : o \in DOMAIN Operators}
      a  == Operand(s, LAMBDA i : i < op)
      b  == Operand(s, LAMBDA i : i > op)
  IN CASE s[op] = Operators.plus -> <<a + b>>
       [] s[op] = Operators.minus -> <<a - b>>
       [] s[op] = Operators.times -> <<a * b>>
       [] s[op] = Operators.by -> IF b = 0 THEN << >> ELSE <<a \div b>>

\* Every int that is printed reads as the same int, the least included, and
\* every word printed in hexadecimal has its value.  calc gives the exact
\* answer as long as that fits a word without sign, although it computes
\* with signed ones, and an error for a division by 0.  The time is right
\* until hour 99.  Every command that help lists has its handler.
ShellRight ==
  /\ Atoi(PrintInt(number)) = number
  /\ FoldLeft(LAMBDA a, d : a * 16 + d, 0, PutHex(Unsigned(number))) = Unsigned(number)
  /\ sum # << >> =>
       IF Exact(sum) = << >> THEN CmdCalc(sum) = << >>
       ELSE LET v == Exact(sum)[1] IN
         v < 2^BITS => CmdCalc(sum) = IF v < 0 THEN <<Minus>> \o PutDec(-v) ELSE PutDec(v)
  /\ LET d == TimeText(uptime) IN
       uptime < 360000 => /\ \A i \in 1 .. 6 : d[i] \in 0 .. 9
                          /\ (d[1] * 10 + d[2]) * 3600 + (d[3] * 10 + d[4]) * 60 + d[5] * 10 + d[6] = uptime
  /\ line.word \in Listed => \E a \in {"", "text"} : ExecuteCmd([line EXCEPT !.arg = a]) = line.word
=============================================================================
