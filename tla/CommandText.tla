------------------------------ MODULE CommandText ------------------------------
(***************************************************************************)
(* From the text of RUN_COMMAND to the words of its commands: the loop of  *)
(* execute_command (src/ipc/commands/command_impl.cpp) with the string     *)
(* helpers of src/include/ipc/tools.hpp, on texts without criteria.        *)
(* argsep cuts off a command at the next separator, split_args cuts it     *)
(* into words, strip_quotes takes the quotes off; each has its own notion  *)
(* of what is quoted and what is escaped, and they have to agree.          *)
(*                                                                         *)
(* A text is a sequence of one-letter strings.                             *)
(***************************************************************************)
EXTENDS Integers, FiniteSets, Sequences, SequencesExt

CONSTANTS
  RawChars,    \* the characters of the raw texts
  MaxRaw,      \* bound: the length of a raw text
  WordChars,   \* the characters of a word that is going to be quoted
  MaxWord,     \* bound: the length of such a word
  MaxCommands  \* bound: how many commands of one quoted word a text has

Quotes == {"\"", "'"}
Backslash == "\\"
Blank == " "
Delims == {";", ","}
Interesting == Quotes \cup {Backslash} \cup Delims

VARIABLES
  text,   \* what RUN_COMMAND has received
  given,  \* the commands the text was written for, <<>> for a raw text
  head,   \* the rest of the text
  more,   \* is head not nullptr?
  out     \* the words of the commands handled so far

vars == <<text, given, head, more, out>>

-----------------------------------------------------------------------------
(* tools.hpp *)

\* argsep_next_interesting: the first interesting position from end on, or 0.
NextInteresting(s, end) ==
  LET found == {i \in end..Len(s) : s[i] \in Interesting}
  IN IF found = {} THEN 0 ELSE CHOOSE i \in found : \A j \in found : i <= j

(***************************************************************************)
(* argsep: st holds its variables start, end, in_string, in_char and       *)
(* escaped.  The result is the command and the rest of the text, if there  *)
(* is one.  Separators before the first other character are passed over.   *)
(***************************************************************************)
Argsep(s) ==
  LET RECURSIVE Scan(_)
      Scan(st) ==
        LET i == NextInteresting(s, st.end)
            x == s[i]
            escaped == st.escaped /\ i = st.end
        IN IF i = 0 THEN [cmd |-> SubSeq(s, st.start, Len(s)), rest |-> <<>>, more |-> FALSE]
           ELSE IF x = "\"" /\ ~st.chr /\ ~escaped
             THEN Scan([st EXCEPT !.str = ~@, !.end = i + 1, !.escaped = FALSE])
           ELSE IF x = "'" /\ ~st.str /\ ~escaped
             THEN Scan([st EXCEPT !.chr = ~@, !.end = i + 1, !.escaped = FALSE])
           ELSE IF x = Backslash
             THEN Scan([st EXCEPT !.end = i + 1, !.escaped = ~escaped])
           ELSE IF st.str \/ st.chr \/ escaped
             THEN Scan([st EXCEPT !.end = @ + 1, !.escaped = escaped])
           ELSE IF i > st.start
             THEN [cmd |-> SubSeq(s, st.start, i - 1), rest |-> SubSeq(s, i + 1, Len(s)),
                   more |-> TRUE]
           ELSE Scan([st EXCEPT !.start = @ + 1, !.end = st.start + 1, !.escaped = FALSE])
  IN Scan([start |-> 1, end |-> 1, str |-> FALSE, chr |-> FALSE, escaped |-> FALSE])

\* Broken form: a blank ends a word also inside quotes.
SplitArgs_Unquoted(s) ==
  LET Step(st, x) ==
        IF x = Blank /\ ~st.escaped
          THEN [st EXCEPT !.words = IF st.word = <<>> THEN @ ELSE Append(@, st.word),
                          !.word = <<>>]
          ELSE [st EXCEPT !.word = Append(@, x), !.escaped = x = Backslash /\ ~@]
      last == FoldLeft(Step, [words |-> <<>>, word |-> <<>>, escaped |-> FALSE], s)
  IN IF last.word = <<>> THEN last.words ELSE Append(last.words, last.word)

\* split_args, a character at a time: the words so far, the word begun, and
\* in_string, in_char, in_brackets and escaped.
SplitArgs(s) ==
  LET Step(st, x) ==
        LET plain == ~st.escaped
            inside == st.str \/ st.chr
            next == [st EXCEPT !.word = Append(@, x), !.escaped = x = Backslash /\ plain,
                       !.str = @ # (x = "\"" /\ ~st.chr /\ plain),
                       !.chr = @ # (x = "'" /\ ~st.str /\ plain),
                       !.brackets = IF inside \/ ~plain THEN @
                                    ELSE IF @ THEN x # "]" ELSE x = "["]
        IN IF x = Blank /\ plain /\ ~inside /\ ~st.brackets
             THEN [st EXCEPT !.words = IF st.word = <<>> THEN @ ELSE Append(@, st.word),
                             !.word = <<>>]
             ELSE next
      last == FoldLeft(Step, [words |-> <<>>, word |-> <<>>, str |-> FALSE, chr |-> FALSE,
                              brackets |-> FALSE, escaped |-> FALSE], s)
  IN IF last.word = <<>> THEN last.words ELSE Append(last.words, last.word)

\* strip_quotes: the quotes that open and close are removed, an escaped one
\* and one inside the quotes of the other kind stay.
StripQuotes(w) ==
  LET Step(st, x) ==
        LET plain == ~st.escaped
        IN IF x = "'" /\ ~st.str /\ plain THEN [st EXCEPT !.chr = ~@]
           ELSE IF x = "\"" /\ ~st.chr /\ plain THEN [st EXCEPT !.str = ~@]
           ELSE [st EXCEPT !.out = Append(@, x), !.escaped = x = Backslash /\ plain]
  IN FoldLeft(Step, [out |-> <<>>, str |-> FALSE, chr |-> FALSE, escaped |-> FALSE], w).out

\* join_args
JoinArgs(words) ==
  FoldLeft(LAMBDA s, w : IF s = <<>> THEN w ELSE s \o <<Blank>> \o w, <<>>, words)

-----------------------------------------------------------------------------
(* execute_command *)

\* The leading blanks of s removed.
Skipped(s) ==
  LET starts == {i \in 1..Len(s) : s[i] # Blank}
  IN IF starts = {} THEN <<>>
     ELSE SubSeq(s, CHOOSE i \in starts : \A j \in starts : i <= j, Len(s))

\* The quotes of every word but the first are stripped if it begins with one.
Stripped(words) ==
  [i \in DOMAIN words |->
     IF i > 1 /\ words[i][1] \in Quotes THEN StripQuotes(words[i]) ELSE words[i]]

\* One round of the loop; a command without words is not handled.
HandleCommand ==
  LET cut == Argsep(Skipped(head))
      cmd == Skipped(cut.cmd)
  IN /\ more
     /\ head' = cut.rest /\ more' = cut.more
     /\ out' = IF cmd = <<>> THEN out ELSE Append(out, Stripped(SplitArgs(cmd)))
     /\ UNCHANGED <<text, given>>

-----------------------------------------------------------------------------
(* The texts. *)
Texts(S, n) == UNION {[1..m -> S] : m \in 0..n}

\* A command as somebody writes it who wants its words to stay what they are:
\* a name, and words in quotes they do not hold.
Name == <<"a">>
Quoted(w, q) == <<q>> \o w \o <<q>>
Written(cmd, q) ==
  JoinArgs([i \in DOMAIN cmd |-> IF i = 1 THEN cmd[i] ELSE Quoted(cmd[i], q)])
WrittenList(cmds, q, d) ==
  FoldLeft(LAMBDA s, cmd : IF s = <<>> THEN Written(cmd, q)
                           ELSE s \o <<d, Blank>> \o Written(cmd, q), <<>>, cmds)

WordsFor(q) == Texts(WordChars \ {q}, MaxWord)
CommandsFor(q) ==
  {<<<<Name, v, w>>>> : v \in WordsFor(q), w \in WordsFor(q)}
    \cup UNION {[1..n -> {<<Name, w>> : w \in WordsFor(q)}] : n \in 1..MaxCommands}

Init ==
  /\ \/ text \in Texts(RawChars, MaxRaw) /\ given = <<>>
     \/ \E q \in Quotes, d \in Delims :
          given \in CommandsFor(q) /\ text = WrittenList(given, q, d)
  /\ head = text /\ more = TRUE /\ out = <<>>

Next == HandleCommand

Spec == Init /\ [][Next]_vars

-----------------------------------------------------------------------------
(***************************************************************************)
(* What the text means, position by position: a character is escaped if an *)
(* odd number of backslashes stands before it; an unescaped quote opens or *)
(* closes unless it is inside quotes of the other kind; an unescaped       *)
(* separator or blank outside quotes cuts.                                 *)
(***************************************************************************)
Meaning(s) ==
  LET escaped[i \in 1..Len(s) + 1] ==
        i > 1 /\ s[i - 1] = Backslash /\ ~escaped[i - 1]
      open[i \in 1..Len(s) + 1] ==   \* the quote position i is inside of
        IF i = 1 THEN ""
        ELSE LET o == open[i - 1]
                 x == s[i - 1]
             IN IF x \notin Quotes \/ escaped[i - 1] THEN o
                ELSE IF o = "" THEN x ELSE IF o = x THEN "" ELSE o
      marks == {i \in 1..Len(s) :
                  s[i] \in Quotes /\ ~escaped[i] /\ open[i] \in {"", s[i]}}
      cutsAt(set) == {i \in 1..Len(s) : s[i] \in set /\ ~escaped[i] /\ open[i] = ""}
      \* the non-empty intervals between the positions of a set
      between(cuts, a, b) ==
        SetToSortSeq({<<i, j>> \in (a..b) \X (a..b) :
                        /\ i <= j /\ \A k \in i..j : k \notin cuts
                        /\ i = a \/ i - 1 \in cuts
                        /\ j = b \/ j + 1 \in cuts},
                     LAMBDA x, y : x[1] < y[1])
      word(n, p) ==
        LET stays == IF n > 1 /\ s[p[1]] \in Quotes THEN 1..Len(s) \ marks ELSE 1..Len(s)
        IN [k \in 1..Cardinality((p[1]..p[2]) \cap stays) |->
              s[SetToSortSeq((p[1]..p[2]) \cap stays, <)[k]]]
      words(p) ==
        LET ws == between(cutsAt({Blank}), p[1], p[2])
        IN [n \in DOMAIN ws |-> word(n, ws[n])]
  IN SelectSeq([n \in DOMAIN between(cutsAt(Delims), 1, Len(s)) |->
                  words(between(cutsAt(Delims), 1, Len(s))[n])],
               LAMBDA ws : ws # <<>>)

\* An escaped quote or separator has another interesting character behind it:
\* argsep takes that one for escaped, too, and split_args does not.
EscapeRunsOn(s) ==
  \E i \in 1..Len(s) - 1 :
    /\ s[i] \in Quotes \cup Delims /\ s[i + 1] \in Interesting
    /\ \E n \in 1..i - 1 : /\ n % 2 = 1 /\ \A k \in i - n..i - 1 : s[k] = Backslash
                           /\ i - n = 1 \/ s[i - n - 1] # Backslash

(***************************************************************************)
(* argsep, split_args and strip_quotes agree on what a text means, so that *)
(* quoted separators, blanks and brackets stay inside their words, and     *)
(* what was quoted as the manual advises arrives as it was.                *)
(***************************************************************************)
SplitsAsMeant ==
  ~more => /\ EscapeRunsOn(text) \/ out = Meaning(text)
           /\ given # <<>> => out = given
================================================================================
