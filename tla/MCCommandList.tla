------------------------------ MODULE MCCommandList ------------------------------
(***************************************************************************)
(* Instances of module CommandList for TLC: a window, its dialog, a window *)
(* that is always on top and lies on the other workspace, and a panel.     *)
(***************************************************************************)
EXTENDS CommandList

CONSTANTS term, dialog, player, panel, none, appx, appy

ViewList == <<term, dialog, player, panel>>
Windows == {term, dialog, player}
Parents == [v \in Windows |-> IF v = dialog THEN term ELSE none]
AppIds == [v \in Views |-> IF v \in {term, player} THEN appx ELSE appy]
Shells == [v \in Windows |-> IF v = term THEN "xwayland" ELSE "xdg_shell"]
Pids == [v \in Views |-> IF v = player THEN 2 ELSE 1]

\* No view has the id of a workspace.
Ids == [v \in Views |-> CHOOSE i \in 1..4 : ViewList[i] = v]

-----------------------------------------------------------------------------
\* Worlds: all windows visible in turn; nothing has the focus; an empty
\* workspace whose only window is in the scratchpad, so that the panel is
\* active.
Looks(ws, minimized, alpha, sticky) ==
  [sticky |-> sticky, full |-> FALSE, asked |-> FALSE, minimized |-> minimized,
   alpha |-> alpha, ws |-> ws]
Usual ==
  [view |-> (term :> Looks(1, FALSE, 4, FALSE) @@ dialog :> Looks(1, FALSE, 3, FALSE)
             @@ player :> Looks(2, FALSE, 1, FALSE) @@ panel :> Looks(1, TRUE, 4, TRUE)),
   ws |-> 1, focus |-> TRUE, closing |-> {}, down |-> FALSE]
Unfocused == [Usual EXCEPT !.focus = FALSE, !.view[player].minimized = TRUE]
Panel == [Usual EXCEPT !.ws = 2, !.view[player].minimized = TRUE, !.view[panel].minimized = FALSE,
                       !.view[term].full = TRUE]
SomeWorlds == {Usual, Unfocused, Panel}

-----------------------------------------------------------------------------
\* Lists of three commands: one with or without criteria, then one that may
\* change what is active, then another with or without criteria.
SomeCriteria ==
  {<<>>, <<Token("app_id", {appx})>>, <<Focused("app_id"), Token("floating", {})>>,
   <<Token("con_id", {2})>>, <<Token("app_id", {}), Bad>>, <<Focused("con_id")>>,
   <<Focused("shell")>>}
Openers ==
  {Item(c, e, s) : c \in SomeCriteria, s \in {";", ","},
     e \in {Command("sticky", "toggle", {}), Command("opacity", "minus", {2}),
            Command("kill", "", {}), NoCommand, Blank}}
Changers ==
  {Item(c, e, s) : c \in {<<>>, <<Token("all", {})>>}, s \in {";", ","},
     e \in {Command("workspace", "next", {}), Command("scratchpad", "show", {}),
            Command("fullscreen", "toggle", {}), NoCommand, Blank, Unknown}}
Closers ==
  {Item(c, e, "") : c \in {<<>>, <<Token("pid", {1}), Token("con_id", {1})>>},
     e \in {Command("opacity", "plus", {3}), Command("kill", "", {})}}
ViewLists == {<<o, c, e>> : o \in Openers, c \in Changers, e \in Closers}

\* Lists that end with a command for all windows, which may fail for some.
Toggle == Command("sticky", "toggle", {})
ListsForAll ==
  {<<Item(<<Token("app_id", {appx})>>, Toggle, ";"), Item(c, Toggle, s),
     Item(<<Token("all", {})>>, Command("opacity", step, {3}), "")>> :
     c \in {<<>>, <<Focused("app_id")>>}, s \in {";", ","}, step \in {"plus", "minus"}}

\* Lists of output commands: two sub-commands, the second well-formed or not.
Numbers == ("2" :> 2) @@ ("30" :> 30)
Points == "10,20" :> <<10, 20>>
Extents == ("10x20" :> <<10, 20>>) @@ ("30x40" :> <<30, 40>>)
Turns == ("90" :> 1) @@ ("270" :> 3)
Sizes == {<<10, 20>>}
SubCommands ==
  {<<"scale", "2">>, <<"position", "10,20">>, <<"position", "2", "30">>,
   <<"mode", "10x20">>, <<"mode", "--custom", "30x40">>,
   <<"mode", "--custom", "2", "30">>, <<"transform", "90">>,
   <<"transform", "270", "clockwise">>, <<"transform", "90", "anticlockwise">>,
   <<"power", "off">>}
Broken == {<<>>, <<"scale">>, <<"mode", "30x40">>, <<"position", "2">>, <<"bogus">>}
OutputLists ==
  {<<Item(<<>>, OutputCommand(o, first \o second), ","), Item(<<>>, NoCommand, "")>> :
     o \in {"o", "unknown"}, first \in SubCommands, second \in SubCommands \cup Broken}
Plain == [o \in {"o"} |-> [scale |-> 1, pos |-> <<0, 0>>, turn |-> 1, mode |-> <<10, 20>>]]

SomeLists == ViewLists \cup ListsForAll \cup OutputLists
PlainConfigs == {Plain}
================================================================================
