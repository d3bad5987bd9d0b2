-------------------------------- MODULE Shell -------------------------------
(***************************************************************************)
(* shell.c: init_shell()'s loop over the one buffer that scanf() fills and *)
(* test_process() parses, with the echo on the screen.  What a command     *)
(* does is in Tasks, KHeap and Initrd; here it is what was asked for.      *)
(***************************************************************************)
EXTENDS Monitor, Integers, SequencesExt

CONSTANTS SIZE,     \* bytes of v, 256 in the source
          Prompt,   \* the end of "\nmashiro>>$ "
          Lines,    \* what the user may type before Enter
          Outputs,  \* what a command may print
          MaxLines  \* bound: lines typed without a known command

NUL == "NUL"   \* '\0'

ASSUME ShellAssumption ==
  /\ SIZE \in Nat /\ SIZE > 6 /\ MaxLines \in Nat
  /\ Lines \subseteq Seq(Chars \ {NL}) /\ Outputs \subseteq Seq(Chars)
  /\ Prompt \in Seq(Printable) /\ NUL \notin Chars

VARIABLES
  stage,
  v,        \* the buffer, v[i] of the source being v[i + 1]
  t_v,      \* scanf()'s pointer into it
  command,  \* what test_process() did: command, option, operand
  lines     \* history: the lines typed since the last known command

svars == <<screen, stage, v, t_v, command, lines>>

Unknown == <<"unknown">>
Options == [p |-> {"a"}, t |-> {"a", "c", "n", "k"}, f |-> {"n", "d", "a", "c"}]

ShellTypeOK ==
  /\ ScreenOK
  /\ stage \in {"prompt", "read", "finish", "overrun"}
  /\ v \in [1..SIZE -> Chars \cup {NUL}] /\ t_v \in 1..(SIZE + 1)
  /\ lines \in Seq(Seq(Chars)) /\ Len(lines) <= MaxLines
  /\ command # Unknown => command[2] \in Options[command[1]]

After(s, str) ==
  LET on[n \in 0..Len(str)] == IF n = 0 THEN s ELSE monitor_put(on[n - 1], str[n])
  IN  on[Len(str)]
print(str) == screen' = After(screen, str)
Zero == [i \in 1..SIZE |-> NUL]

\* After what main() printed.
ShellInit ==
  /\ screen \in {After(Cleared, out \o <<NL>>) : out \in Outputs}
  /\ stage = "prompt"
  /\ v = Zero /\ t_v = 1 /\ command = Unknown /\ lines = <<>>

-----------------------------------------------------------------------------
\* scanf() prints its tip and waits.
MutNoNewline == Prompt
Tip == <<NL>> \o Prompt
scanf ==
  /\ stage = "prompt" /\ Len(lines) < MaxLines
  /\ print(Tip) /\ t_v' = 1 /\ stage' = "read" /\ lines' = Append(lines, <<>>)
  /\ UNCHANGED <<v, command>>

\* A character is echoed and stored, a backspace as any other.  Nothing bounds
\* t_v; a store behind v ends the model.
key ==
  /\ stage = "read"
  /\ \E c \in {l[Len(Last(lines)) + 1] : l \in {m \in Lines : IsStrictPrefix(Last(lines), m)}} :
       /\ print(<<c>>)
       /\ lines' = [lines EXCEPT ![Len(lines)] = Append(@, c)]
       /\ IF t_v > SIZE THEN stage' = "overrun" /\ UNCHANGED <<v, t_v>>
          ELSE v' = [v EXCEPT ![t_v] = c] /\ t_v' = t_v + 1 /\ UNCHANGED stage
  /\ UNCHANGED command

\* memcpy(f, &v[5], 250) into fresh memory, read as a string.
MutShortCopy == SIZE - 7
CopyLength   == SIZE - 6
Unterminated == "?"
Name ==
  LET f == SubSeq(v, 6, 5 + CopyLength)
      nuls == {i \in DOMAIN f : f[i] = NUL}
  IN  IF nuls = {} THEN Append(f, Unterminated)
      ELSE SubSeq(f, 1, (CHOOSE i \in nuls : \A j \in nuls : i <= j) - 1)

Pids == {"2", "3", "4", "5", "6", "7", "8", "9"}

\* Case 't' ends without a return: the caller reads what thread_test() left in
\* eax, its own result, in the build that the Makefile makes, without -O.
test_process ==
  IF v[1] \in DOMAIN Options /\ v[2] = SPACE /\ v[3] = "-" /\ v[4] \in Options[v[1]]
  THEN <<v[1], v[4],
         CASE v[1] = "f" /\ v[4] \in {"n", "d"}      -> Name
           [] v[1] = "t" /\ v[4] = "k" /\ v[6] \in Pids -> <<v[6]>>
           [] OTHER                                  -> <<>> >>
  ELSE Unknown

enter ==
  /\ stage = "read" /\ Last(lines) \in Lines
  /\ \E out \in Outputs : print(<<NL>> \o out)
  /\ command' = test_process /\ stage' = "finish"
  /\ UNCHANGED <<v, t_v, lines>>

\* memset(v, '\0', 256*sizeof(char))
MutPointerSize == [i \in 1..SIZE |-> IF i <= 4 THEN NUL ELSE v[i]]
MemSet == Zero

known ==
  /\ stage = "finish" /\ command # Unknown
  /\ v' = MemSet /\ lines' = <<>> /\ stage' = "prompt"
  /\ UNCHANGED <<screen, t_v, command>>

\* continue, before the memset.
unknown ==
  /\ stage = "finish" /\ command = Unknown
  /\ \E out \in Outputs : print(out)
  /\ stage' = "prompt"
  /\ UNCHANGED <<v, t_v, command, lines>>

ShellNext == scanf \/ key \/ enter \/ known \/ unknown

ShellSpec == ShellInit /\ [][ShellNext]_svars

-----------------------------------------------------------------------------
\* What is read where lines were written over each other.
Overlaid(ls) ==
  LET on[n \in 0..Len(ls)] ==
        IF n = 0 THEN <<>>
        ELSE ls[n] \o SubSeq(on[n - 1], Len(ls[n]) + 1, Len(on[n - 1]))
  IN  on[Len(ls)]

Meant(text) ==
  LET c == text[1]
      o == text[4]
  IN  IF Len(text) < 4 \/ ~ \E d \in DOMAIN Options : text[1] = d THEN Unknown
      ELSE IF SubSeq(text, 2, 3) # <<SPACE, "-">> \/ o \notin Options[c] THEN Unknown
      ELSE IF c = "f" /\ o \in {"n", "d"} THEN <<c, o, SubSeq(text, 6, Len(text))>>
      ELSE IF c = "t" /\ o = "k" /\ Len(text) > 5 /\ text[6] \in Pids THEN <<c, o, <<text[6]>> >>
      ELSE <<c, o, <<>> >>

(* The command that runs, its file name to the last character, is the line *)
(* that was typed, and of earlier lines only what unknown commands since   *)
(* the last known one left behind it: true up to two characters less than  *)
(* v, where the copied name is still terminated (scanf, memcpy, memset).   *)
CommandAsTyped ==
  LET text == Overlaid(lines)
  IN  stage = "finish" /\ Len(text) <= SIZE - 2 => command = Meant(text)

(* While a line is typed, the row of the cursor is the prompt and what was *)
(* typed, with nothing left of what was printed there before (scanf).      *)
ShownIsTyped ==
  LET shown == Prompt \o Last(lines)
  IN  /\ stage = "read" /\ Len(shown) < MONITOR_WIDTH
      /\ \A i \in DOMAIN shown : shown[i] \in Printable
      => Row(screen.cursor_y) = [x \in 0..(MONITOR_WIDTH - 1) |->
           IF x < Len(shown) THEN shown[x + 1] ELSE SPACE]
=============================================================================
