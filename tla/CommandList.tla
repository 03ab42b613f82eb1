------------------------------- MODULE CommandList -------------------------------
(***************************************************************************)
(* execute_command (src/ipc/commands/command_impl.cpp:221-384): a list of  *)
(* commands, separated by semicolons or commas, is executed from left to   *)
(* right.  Criteria in front of a command select the views it and the      *)
(* commands after it, up to the next semicolon, are applied to; without    *)
(* criteria that is the active view.  The first command that fails ends    *)
(* the list, a command for which no view matches does not.  A step is one  *)
(* call of a handler; the sub-commands of "output" are steps of their own, *)
(* because each takes effect although a later one may fail.                *)
(***************************************************************************)
EXTENDS Criteria, OutputCommands

CONSTANTS
  Lists,       \* the lists of commands that may be executed
  Worlds,      \* the states the compositor may be in before
  Configs      \* and the configurations of its outputs

(***************************************************************************)
(* An item of a list: criteria (<<>> if there are none), a command, and    *)
(* the separator behind it.  NoCommand and Blank stand for two separators  *)
(* in a row, with nothing between them or with blanks.  An output command  *)
(* has the words that follow instead of a number.                          *)
(***************************************************************************)
Item(crit, cmd, sep) == [crit |-> crit, cmd |-> cmd, sep |-> sep]
OutputCommand(name, words) == [name |-> "output", word |-> name, n |-> {}, words |-> words]
NoCommand == Command("", "", {})
Blank == Command("", " ", {})
Unknown == Command("?", "", {})

\* A list is a sequence of items, criteria are one of tokens, and what
\* follows "output" is one of words.
ASSUME ListsAssumption ==
  /\ \A l \in Lists : l \in Seq(Range(l))
  /\ \A l \in Lists : \A i \in DOMAIN l :
       /\ l[i].crit \in Seq(Range(l[i].crit)) /\ l[i].sep \in {";", ",", ""}
       /\ l[i].cmd.name = "output" => l[i].cmd.words \in Seq(STRING)
  /\ Worlds \subseteq World /\ Configs \subseteq Config

VARIABLES
  list,        \* the commands
  phase,       \* "next" | "focus" | "each" | "sub" | "done"
  pos,         \* the next item
  matched,     \* matched_delim
  usingCriteria,
  containers,  \* those that matched the criteria
  todo,        \* those the command has not been applied to
  cmd,         \* the command being executed
  args,        \* the words output_handler has not used
  ctx,         \* container and node_overridden of the handler context
  results,     \* "ok" | "fail" | "nomatch" for each command
  world, config,
  segment,     \* the item at which criteria were looked for last: only remembered,
  began,       \* as are the world at that time
  calls        \* and the calls of handlers, in order

shape == <<list, pos, matched, usingCriteria, containers, segment, began, cmd>>
vars == <<list, phase, pos, matched, usingCriteria, containers, todo, cmd, args,
          ctx, results, world, config, segment, began, calls>>

Init ==
  /\ list \in Lists /\ world \in Worlds /\ config \in Configs
  /\ phase = "next" /\ pos = 1 /\ matched = ";" /\ usingCriteria = FALSE
  /\ containers = <<>> /\ todo = <<>> /\ cmd = NoCommand /\ args = <<>>
  /\ ctx = [con |-> NoContainer, overridden |-> FALSE]
  /\ results = <<>> /\ segment = 1 /\ began = world /\ calls = <<>>

-----------------------------------------------------------------------------
\* Criteria are recognised at the beginning and behind a semicolon, anywhere
\* else they are taken for a command, which is unknown.
AtCriteria == matched = ";" /\ pos <= Len(list) /\ list[pos].crit # <<>>
Word(k) ==
  IF list[k].crit # <<>> /\ ~(k = pos /\ AtCriteria) THEN Unknown ELSE list[k].cmd

\* Blanks are skipped at the beginning and behind criteria.  argsep passes
\* over separators in front of a command, up to a blank: that is a command.
Passed(k) == Word(k) = NoCommand \/ (k = pos /\ Word(k) = Blank)
Rest == {k \in pos..Len(list) : ~Passed(k)}
NextWord == CHOOSE k \in Rest : \A j \in Rest : k <= j

\* Nothing but separators is left.
Finish ==
  /\ phase = "next" /\ Rest = {}
  /\ AtCriteria => Parses(list[pos].crit, world)
  /\ phase' = "done"
  /\ UNCHANGED <<shape, todo, args, ctx, results, world, config, calls>>

RejectCriteria ==
  /\ phase = "next" /\ AtCriteria /\ ~Parses(list[pos].crit, world)
  /\ results' = Append(results, "fail")
  /\ phase' = "done"
  /\ UNCHANGED <<shape, todo, args, ctx, world, config, calls>>

\* Broken form: criteria last until others come.
Split_Sticks ==
  /\ phase = "next" /\ Rest # {}
  /\ AtCriteria => Parses(list[pos].crit, world)
  /\ pos' = NextWord + 1 /\ matched' = list[NextWord].sep
  /\ usingCriteria' = (AtCriteria \/ usingCriteria)
  /\ containers' = IF AtCriteria THEN GetContainers(list[pos].crit, world) ELSE containers
  /\ segment' = IF matched = ";" THEN pos ELSE segment
  /\ began' = IF matched = ";" THEN world ELSE began

\* The criteria, if any, the next command and the separator behind it.
Split ==
  /\ phase = "next" /\ Rest # {}
  /\ AtCriteria => Parses(list[pos].crit, world)
  /\ pos' = NextWord + 1 /\ matched' = list[NextWord].sep
  /\ usingCriteria' = IF matched = ";" THEN AtCriteria ELSE usingCriteria
  /\ containers' = IF AtCriteria THEN GetContainers(list[pos].crit, world) ELSE containers
  /\ segment' = IF matched = ";" THEN pos ELSE segment
  /\ began' = IF matched = ";" THEN world ELSE began

\* A command of blanks is ignored.
IgnoreBlank ==
  /\ Split /\ Word(NextWord) = Blank
  /\ UNCHANGED <<list, phase, todo, cmd, args, ctx, results, world, config, calls>>

\* Broken form: the list goes on behind an unknown command.
TakeCommand_GoesOn ==
  /\ Split /\ Word(NextWord) # Blank
  /\ cmd' = Word(NextWord)
  /\ todo' = containers'
  /\ phase' = IF cmd'.name \notin Handled \cup {"output"} THEN "next"
              ELSE IF ~usingCriteria' THEN "focus"
              ELSE IF todo' = <<>> THEN "next" ELSE "each"
  /\ results' = IF cmd'.name \notin Handled \cup {"output"} THEN Append(results, "fail")
                ELSE IF phase' = "next" THEN Append(results, "nomatch") ELSE results
  /\ UNCHANGED <<list, args, ctx, world, config, calls>>

\* Any other is looked up.
TakeCommand ==
  /\ Split /\ Word(NextWord) # Blank
  /\ cmd' = Word(NextWord)
  /\ todo' = containers'
  /\ phase' = IF cmd'.name \notin Handled \cup {"output"} THEN "done"
              ELSE IF ~usingCriteria' THEN "focus"
              ELSE IF todo' = <<>> THEN "next" ELSE "each"
  /\ results' = CASE phase' = "done" -> Append(results, "fail")
                  [] phase' = "next" -> Append(results, "nomatch")
                  [] OTHER -> results
  /\ UNCHANGED <<list, args, ctx, world, config, calls>>

\* What a call leaves behind, for the properties.
Called == calls' = Append(calls,
  [item |-> pos - 1, segment |-> segment, began |-> began, active |-> ActiveView(world),
   view |-> ctx'.con.id, overridden |-> ctx'.overridden, ok |-> phase' # "done"])

\* A handler has returned, with todo' left to do.
Return(ok) ==
  /\ phase' = CASE ~ok -> "done" [] ok /\ todo' # <<>> -> "each" [] OTHER -> "next"
  /\ results' = CASE ~ok -> Append(results, "fail")
                  [] ok /\ todo' = <<>> -> Append(results, "ok")
                  [] OTHER -> results

\* The call of a handler in the context ctx'.
Call ==
  IF cmd.name = "output"
    THEN /\ phase' = "sub" /\ args' = cmd.words
         /\ UNCHANGED <<world, results>>
    ELSE LET r == Handler(cmd, world, ctx'.con, ctx'.overridden)
         IN /\ world' = r.world /\ Return(r.ok)
            /\ UNCHANGED args

\* Without criteria.  set_config_node is not called if there is no active
\* view: the context stays what it was.
CallOnFocus ==
  LET active == ActiveView(world)
  IN /\ phase = "focus"
     /\ ctx' = IF active = NoView THEN ctx
               ELSE [con |-> Describe(active), overridden |-> FALSE]
     /\ todo' = <<>>
     /\ Call /\ Called
     /\ UNCHANGED <<shape, config>>

\* Broken form: the last container is forgotten.
CallOnContainer_NotLast ==
  /\ phase = "each"
  /\ ctx' = [con |-> todo[1], overridden |-> TRUE]
  /\ todo' = IF Len(todo) = 2 THEN <<>> ELSE Tail(todo)
  /\ Call /\ Called
  /\ UNCHANGED <<shape, config>>

\* With criteria, for the next container.
CallOnContainer ==
  /\ phase = "each"
  /\ ctx' = [con |-> todo[1], overridden |-> TRUE]
  /\ todo' = Tail(todo)
  /\ Call /\ Called
  /\ UNCHANGED <<shape, config>>

\* Broken form: leftovers is not reset.
SubCommand_Repeats ==
  LET r == SubHandler(args[1], Tail(args), cmd.word, config)
  IN /\ phase = "sub" /\ args # <<>>
     /\ UNCHANGED <<shape, todo, ctx, world, calls>>
     /\ config' = r.config
     /\ args' = IF r.ok /\ r.used > 1 THEN SubSeq(args, 1 + r.used, Len(args)) ELSE args
     /\ IF r.ok THEN UNCHANGED <<phase, results>> ELSE Return(FALSE)

\* output_handler: the next sub-command
SubCommand ==
  LET r == SubHandler(args[1], Tail(args), cmd.word, config)
  IN /\ phase = "sub" /\ args # <<>>
     /\ UNCHANGED <<shape, todo, ctx, world, calls>>
     /\ config' = r.config
     /\ args' = SubSeq(args, 2 + r.used, Len(args))
     /\ IF r.ok THEN UNCHANGED <<phase, results>> ELSE Return(FALSE)

SubCommandsDone ==
  /\ phase = "sub" /\ args = <<>>
  /\ UNCHANGED <<shape, todo, args, ctx, world, config, calls>>
  /\ Return(TRUE)

Next ==
  \/ Finish \/ RejectCriteria \/ IgnoreBlank \/ TakeCommand
  \/ CallOnFocus \/ CallOnContainer \/ SubCommand \/ SubCommandsDone

Spec == Init /\ [][Next]_vars

\* The program does not stop between two steps.
FairSpec == Spec /\ WF_vars(Next)

-----------------------------------------------------------------------------
\* The locals of execute_command and what its handlers change.
TypeOK ==
  /\ world \in World
  /\ config \in [Outputs -> OutputRec]
  /\ phase \in {"next", "focus", "each", "sub", "done"}
  /\ pos \in 1..Len(list) + 1 /\ matched \in {";", ",", ""}

\* The items that are not empty.
Commands == {k \in DOMAIN list : list[k].cmd \notin {NoCommand, Blank}}

(***************************************************************************)
(* Scope of criteria.  The criteria of a command are those in front of an  *)
(* item at or before it, which is the first or follows a semicolon; no     *)
(* command between them ends with a semicolon.  However criteria, commas,  *)
(* semicolons, empty and failing commands follow each other, the command   *)
(* is applied to views that the criteria select in the state in which they *)
(* were read; without criteria to the active view of the moment, which     *)
(* earlier commands may have changed, and if there is none to the view of  *)
(* the call before.                                                        *)
(***************************************************************************)
Governed ==
  \A i \in DOMAIN calls :
    LET c == calls[i]
        crit == list[c.segment].crit
    IN /\ c.segment \in 1..c.item
       /\ c.segment # 1 => list[c.segment - 1].sep = ";"
       /\ \A k \in Commands \cap c.segment..c.item - 1 : list[k].sep # ";"
       /\ IF crit # <<>>
            THEN Understood(crit, c.began) => c.overridden /\ c.view \in Selected(crit, c.began)
          ELSE IF c.active # NoView
            THEN ~c.overridden /\ c.view = Describe(c.active).id
          ELSE c.view = IF i = 1 THEN NoView ELSE calls[i - 1].view

(***************************************************************************)
(* And to all of them, those in the scratchpad and on other workspaces     *)
(* included: when the command has succeeded, no selected view is missed.   *)
(***************************************************************************)
CallsOf(k) == {calls[i] : i \in {j \in DOMAIN calls : calls[j].item = k}}
Reached ==
  phase = "next" /\ results # <<>> /\ results[Len(results)] = "ok" =>
    LET c == calls[Len(calls)]
        crit == list[c.segment].crit
    IN crit # <<>> /\ Understood(crit, c.began) =>
         {d.view : d \in CallsOf(c.item)} = Selected(crit, c.began)

(***************************************************************************)
(* A client can tell from the results what has happened: there is one for  *)
(* each command, in their order, up to the first that failed, behind which *)
(* no other was called.  "ok" means that it was called and did not fail    *)
(* for any view, "nomatch" that it was not called.                         *)
(***************************************************************************)
ResultsTell ==
  /\ \A i \in 1..Len(results) - 1 : results[i] # "fail"
  /\ \A i, j \in DOMAIN calls : i < j /\ ~calls[i].ok => calls[j].item = calls[i].item
  /\ \A k \in Commands :
       LET m == Cardinality(Commands \cap 1..k)
       IN m <= Len(results) /\ results[m] # "fail" =>
            /\ results[m] = "nomatch" <=> CallsOf(k) = {}
            /\ \A c \in CallsOf(k) : c.ok
  /\ phase = "done" /\ (results # <<>> => results[Len(results)] # "fail") =>
       Len(results) = Cardinality(Commands)

(***************************************************************************)
(* What comments say.  node_overridden is true if the node is selected by  *)
(* means other than focus (command.h:70): not for a command without        *)
(* criteria.  When a command fails for several views, the last failure     *)
(* takes precedence (command_impl.cpp:357): it is called for each of them. *)
(* A list after which SomeClaimHolds is false refutes both.                *)
(***************************************************************************)
OverriddenBySelection ==
  \A i \in DOMAIN calls : calls[i].overridden => list[calls[i].segment].crit # <<>>
LastFailureWins ==
  phase = "done" /\ calls # <<>> /\ ~calls[Len(calls)].ok => todo = <<>>
SomeClaimHolds == OverriddenBySelection \/ LastFailureWins

(***************************************************************************)
(* A command that fails on a view has not changed it; "output" is the      *)
(* exception, its earlier sub-commands have taken effect.                  *)
(***************************************************************************)
FailureChangesNothing ==
  [][results' # results /\ results'[Len(results')] = "fail" =>
       UNCHANGED <<world, config>>]_vars

(***************************************************************************)
(* The words of "output" are consumed exactly: a sub-command that succeeds *)
(* leaves the name of the next or nothing, whatever number of words its    *)
(* arguments take, so that in a list of well-formed ones each succeeds.    *)
(***************************************************************************)
SubNames == {"scale", "position", "mode", "transform", "power", "dpms"}
Starts(words) == {i \in DOMAIN words : words[i] \in SubNames}
\* The last of the words that belong to the sub-command that starts at i.
EndOf(words, i) ==
  CHOOSE e \in i..Len(words) :
    (\A j \in i + 1..e : j \notin Starts(words)) /\ (e = Len(words) \/ e + 1 \in Starts(words))
Proper(sub, a) ==
  CASE sub = "scale" -> Len(a) = 1 /\ a[1] \in DOMAIN Number
    [] sub = "position" ->
         \/ Len(a) = 1 /\ a[1] \in DOMAIN Point
         \/ Len(a) = 2 /\ a[1] \in DOMAIN Number /\ a[2] \in DOMAIN Number
    [] sub = "mode" ->
         \/ Len(a) = 1 /\ a[1] \in DOMAIN Extent /\ Extent[a[1]] \in Modes
         \/ Len(a) = 2 /\ a[1] = "--custom" /\ a[2] \in DOMAIN Extent
         \/ Len(a) = 3 /\ a[1] = "--custom" /\ {a[2], a[3]} \subseteq DOMAIN Number
    [] sub = "transform" ->
         /\ Len(a) \in 1..2 /\ a[1] \in DOMAIN Quarters
         /\ Len(a) = 2 => a[2] \in {"clockwise", "anticlockwise"}
    [] OTHER -> Len(a) = 1
WellFormed(words) ==
  /\ words # <<>> => 1 \in Starts(words)
  /\ \A i \in Starts(words) : Proper(words[i], SubSeq(words, i + 1, EndOf(words, i)))
OutputWordsConsumed ==
  phase = "sub" /\ args # <<>> /\ Known(cmd.word) /\ WellFormed(cmd.words) =>
    SubHandler(args[1], Tail(args), cmd.word, config).ok

(***************************************************************************)
(* The list comes to its end: every pass of the loop consumes a command,   *)
(* every sub-command a word.                                               *)
(***************************************************************************)
Ends == <>(phase = "done")
================================================================================
