----------------------------- MODULE CommandPolicy -----------------------------
(***************************************************************************)
(* validate_command_policy (security_guard): which command lines may be    *)
(* saved, imported, confirmed and started. A command line is a sequence of *)
(* words and of the characters the policy looks at; "&" stands for each of *)
(* the shell's control characters, "\n" for each of the others (at an end,  *)
(* those that are white space count as a blank), and "\\" for both path     *)
(* separators.                                                             *)
(***************************************************************************)
EXTENDS Naturals, Sequences, FiniteSets

CONSTANTS
  BLOCKED_LAUNCH_ENTRYPOINTS   \* words that are no entry point of a launch

Quote == "\""
Blank == " "

\* Blocked are words.
ASSUME PolicyAssumption ==
  BLOCKED_LAUNCH_ENTRYPOINTS \subseteq STRING \ {Quote, Blank, "\\", "@"}

\* The command without the blanks around it.
Trimmed(c) ==
  LET kept == {i \in 1 .. Len(c) : c[i] # Blank} IN
  IF kept = {} THEN <<>>
  ELSE SubSeq(c, CHOOSE i \in kept : \A j \in kept : i <= j,
                 CHOOSE i \in kept : \A j \in kept : j <= i)

\* in_double_quotes after each character: a quote opens or closes.
InDoubleQuotes(c) ==
  LET quoted[i \in 0 .. Len(c)] ==
        IF i = 0 THEN FALSE ELSE IF c[i] = Quote THEN ~quoted[i - 1] ELSE quoted[i - 1]
  IN quoted

\* Variant: a quote that is not closed is let through.
UnquotedControlOnly(c) == \E i \in 1 .. Len(c) : c[i] = "&" /\ ~InDoubleQuotes(c)[i - 1]

has_unquoted_shell_control(c) ==
  \/ \E i \in 1 .. Len(c) : c[i] = "&" /\ ~InDoubleQuotes(c)[i - 1]
  \/ InDoubleQuotes(c)[Len(c)]

\* c up to the first x, from position i on.
UpTo(c, i, x) ==
  LET ends == {j \in i .. Len(c) : c[j] = x} \cup {Len(c) + 1}
  IN SubSeq(c, i, (CHOOSE j \in ends : \A k \in ends : j <= k) - 1)

\* first_command_token
EntryToken(c) == IF c[1] = Quote THEN UpTo(c, 2, Quote) ELSE UpTo(c, 1, Blank)

\* command_basename: what follows the last separator and any leading "@".
BaseName(token) ==
  LET start(i) == \E b \in 0 .. i - 1 : \A j \in 1 .. i : token[j] = IF j <= b THEN Blank ELSE "@"
      cuts == {i \in 1 .. Len(token) : token[i] = "\\" \/ start(i)} \cup {0}
  IN Trimmed(SubSeq(token, (CHOOSE i \in cuts : \A j \in cuts : j <= i) + 1, Len(token)))

\* MAX_LAUNCH_COMMAND_LEN is left out: no command here is that long.
validate_command_policy(command) ==
  LET c == Trimmed(command) IN
  /\ c # <<>>
  /\ \A i \in 1 .. Len(c) : c[i] \notin {"\n", "%"}
  /\ c[1] # "@"
  /\ ~has_unquoted_shell_control(c)
  /\ \A word \in BLOCKED_LAUNCH_ENTRYPOINTS : BaseName(EntryToken(c)) # <<word>>

=============================================================================
