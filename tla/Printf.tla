------------------------------- MODULE Printf -------------------------------
(***************************************************************************)
(* printf.c: vprintf(), one step per character it puts on the screen and   *)
(* per digit it writes to its local buffer.  Only one task of the kernel   *)
(* prints while interrupts are on, so calls follow one another.  The       *)
(* count that vprintf() returns is read by no caller.                      *)
(***************************************************************************)
EXTENDS Monitor, Integers, SequencesExt

CONSTANTS Formats,  \* the calls: a format, and its arguments after it
          BITS,     \* bits of an int, 32 in the source
          BUF,      \* characters of buf, 11 in the source
          MaxCalls  \* bound: calls of printf

hex == <<"0","1","2","3","4","5","6","7","8","9","a","b","c","d","e","f">>

Words == 0..(2^BITS - 1)
int(w) == IF w < 2^(BITS - 1) THEN w ELSE w - 2^BITS

Conversions == {"c", "s", "d", "u", "x"}

\* What va_arg() takes for a conversion.
Argument(c) == CASE c = "c" -> Chars [] c = "s" -> Seq(Chars) [] OTHER -> Words

\* n counts the arguments in a that are taken before a character of f, and is -1
\* at the second character of a conversion; each conversion finds its argument.
Counts(n, f, a) ==
  /\ n[1] = 0
  /\ \A i \in 1..Len(f) : n[i] # -1 =>
       IF f[i] # "%" THEN n[i + 1] = n[i]
       ELSE /\ i < Len(f)
            /\ IF f[i + 1] \in Conversions
               THEN /\ n[i] < Len(a) /\ n[i + 2] = n[i] + 1
                    /\ a[n[i] + 1] \in Argument(f[i + 1])
               ELSE n[i + 2] = n[i]

\* What a caller of printf() owes it; the kernel's calls do.
Fits(f, a) ==
  /\ f \in Seq(Chars \cup Conversions \cup {"%"})
  /\ a \in Seq({a[k] : k \in DOMAIN a})
  /\ \E n \in [1..(Len(f) + 1) -> -1..Len(a)] : Counts(n, f, a)

ASSUME PrintfAssumption ==
  /\ {hex[d] : d \in 1..16} \cup {"-"} \subseteq Glyphs
  /\ {BITS, BUF, 2^BITS, 2^(BITS - 1)} \subseteq Nat \ {0} /\ MaxCalls \in Nat
  /\ \A f \in Formats : Fits(Head(f), Tail(f))

VARIABLES
  calls, pc,
  fmt, ap,   \* the characters and the arguments still to be read
  s,         \* "%s": the characters still to be put
  u, buf,    \* a number: what is left to divide, and its digits, lowest first
  number,    \* history: the conversion and the argument of this number
  shown      \* history: the characters put for this number

vars == <<screen, calls, pc, fmt, ap, s, u, buf, number, shown>>

TypeOK ==
  /\ ScreenOK
  /\ calls \in 0..MaxCalls
  /\ pc \in {"idle", "format", "string", "digits", "dump", "overrun"}
  /\ s \in Seq(Chars) /\ u \in Words
  /\ buf \in Seq(Glyphs) /\ Len(buf) <= BUF /\ shown \in Seq(Glyphs)
  /\ number \in [conv : {"d", "u", "x"}, arg : Words]

Init ==
  /\ MonitorInit /\ calls = 0 /\ pc = "idle"
  /\ fmt = <<>> /\ ap = <<>> /\ s = <<>> /\ u = 0 /\ buf = <<>> /\ shown = <<>>
  /\ number = [conv |-> "u", arg |-> 0]

-----------------------------------------------------------------------------
printf ==
  /\ pc = "idle" /\ calls < MaxCalls
  /\ \E f \in Formats : fmt' = Head(f) /\ ap' = Tail(f)
  /\ calls' = calls + 1 /\ pc' = "format"
  /\ UNCHANGED <<screen, s, u, buf, number, shown>>

put(c) == screen' = monitor_put(screen, c)

Reading == pc = "format" /\ fmt # <<>> /\ UNCHANGED calls
Conversion(c) == Reading /\ Head(fmt) = "%" /\ fmt[2] = c /\ fmt' = Tail(Tail(fmt))

return ==
  /\ pc = "format" /\ fmt = <<>> /\ pc' = "idle"
  /\ UNCHANGED <<screen, calls, fmt, ap, s, u, buf, number, shown>>

\* A character of the format, which after '%' is one with no conversion.
plain ==
  /\ \/ Reading /\ Head(fmt) # "%" /\ put(Head(fmt)) /\ fmt' = Tail(fmt)
     \/ \E c \in Chars \ Conversions : Conversion(c) /\ put(c)
  /\ UNCHANGED <<pc, ap, s, u, buf, number, shown>>

percent_c ==
  /\ Conversion("c") /\ put(Head(ap)) /\ ap' = Tail(ap)
  /\ UNCHANGED <<pc, s, u, buf, number, shown>>

percent_s ==
  /\ Conversion("s") /\ s' = Head(ap) /\ ap' = Tail(ap) /\ pc' = "string"
  /\ UNCHANGED <<screen, u, buf, number, shown>>

string ==
  /\ pc = "string"
  /\ IF s # <<>> THEN put(Head(s)) /\ s' = Tail(s) /\ UNCHANGED pc
     ELSE pc' = "format" /\ UNCHANGED <<screen, s>>
  /\ UNCHANGED <<calls, fmt, ap, u, buf, number, shown>>

\* -i is computed in BITS bits and taken as unsigned.
MutNotNegated(w) == w
Magnitude(w) == IF int(w) < 0 THEN (-int(w)) % 2^BITS ELSE w

percent_number ==
  \E c \in {"d", "u", "x"} :
    /\ Conversion(c)
    /\ number' = [conv |-> c, arg |-> Head(ap)]
    /\ u' = IF c = "d" THEN Magnitude(Head(ap)) ELSE Head(ap)
    /\ ap' = Tail(ap) /\ buf' = <<>> /\ shown' = <<>> /\ pc' = "digits"
    /\ UNCHANGED <<screen, s>>

Radix(conv) == IF conv = "x" THEN 16 ELSE 10
Sign == IF number.conv = "d" /\ int(number.arg) < 0 THEN <<"-">> ELSE <<>>

\* do { *s++ = digit; } while (u /= base), and the sign behind the last digit.
digits ==
  /\ pc = "digits"
  /\ u' = u \div Radix(number.conv)
  /\ LET written == buf \o <<hex[(u % Radix(number.conv)) + 1]>>
                        \o (IF u' = 0 THEN Sign ELSE <<>>)
     IN IF Len(written) > BUF THEN pc' = "overrun" /\ UNCHANGED buf
        ELSE buf' = written /\ pc' = IF u' = 0 THEN "dump" ELSE "digits"
  /\ UNCHANGED <<screen, calls, fmt, ap, s, number, shown>>

\* while (--s >= buf)
dump ==
  /\ pc = "dump"
  /\ IF buf # <<>>
     THEN put(Last(buf)) /\ shown' = Append(shown, Last(buf)) /\ buf' = Front(buf)
          /\ UNCHANGED pc
     ELSE pc' = "format" /\ UNCHANGED <<screen, buf, shown>>
  /\ UNCHANGED <<calls, fmt, ap, s, u, number>>

Next ==
  printf \/ return \/ plain \/ percent_c \/ percent_s \/ string \/ percent_number
  \/ digits \/ dump

Spec == Init /\ [][Next]_vars

-----------------------------------------------------------------------------
DigitOf(c) == (CHOOSE d \in 1..16 : hex[d] = c) - 1
Value(digs, radix) ==
  LET v[n \in 0..Len(digs)] ==
        IF n = 0 THEN 0 ELSE v[n - 1] * radix + DigitOf(digs[n])
  IN  v[Len(digs)]

(* A number's characters are the one numeral of its argument, the lowest   *)
(* int and zero included: they read back to it, begin with '0' only when   *)
(* that is all, and always found room in buf (%d, %u and %x of vprintf).   *)
NumberReads ==
  /\ pc # "overrun"
  /\ pc = "dump" /\ buf = <<>> =>
       LET signed == shown[1] = "-"
           digs   == IF signed THEN Tail(shown) ELSE shown
           value  == Value(digs, Radix(number.conv))
       IN /\ (IF signed THEN -value ELSE value)
               = IF number.conv = "d" THEN int(number.arg) ELSE number.arg
          /\ digs[1] = "0" => Len(digs) = 1
          /\ signed => value > 0
=============================================================================
