---------------------------- MODULE MCCommandText ----------------------------
(***************************************************************************)
(* Instances of module CommandText for TLC.                                *)
(***************************************************************************)
EXTENDS CommandText

\* Raw texts: what makes a difference to one of the helpers, without brackets,
\* which stand for criteria at the beginning of a command.
SomeChars == {"a", Blank, "\"", "'", Backslash, ";"}

\* Words that are quoted may hold separators, brackets and the other quote.
SomeWordChars == {"a", Blank, "\"", "'", ";", ",", "["}
==============================================================================
