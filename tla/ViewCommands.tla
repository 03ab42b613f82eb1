------------------------------ MODULE ViewCommands ------------------------------
(***************************************************************************)
(* The command handlers that change views and workspaces (the files of     *)
(* src/ipc/commands), on the part of the compositor's state they read and  *)
(* write, for one output.  A handler gets the world, its arguments and the *)
(* context execute_command has set up, and returns a status and the world  *)
(* after it.  The workspaces are a row.                                    *)
(***************************************************************************)
EXTENDS Integers, Sequences

CONSTANTS
  AllViews,       \* the views, in the order in which the compositor lists them
  TopLevels,      \* those that are toplevel views; the others are panels and the like
  Parent,         \* the parent of a toplevel view that is a dialog, of others NoView
  Above,          \* the toplevel views that are always on top
  Raised,         \* those in the layer of panels or that of desktop widgets
  NoView,
  NumWorkspaces,  \* of the output
  Opaque          \* alpha goes from 0 to Opaque

Views == {AllViews[i] : i \in DOMAIN AllViews}

ASSUME ViewsAssumption ==
  /\ AllViews \in Seq(Views)
  /\ TopLevels \subseteq Views /\ NoView \notin Views
  /\ Above \subseteq TopLevels /\ Raised \subseteq TopLevels
  /\ Parent \in [TopLevels -> TopLevels \cup {NoView}]
  /\ \A v \in TopLevels : Parent[v] # NoView => Parent[Parent[v]] = NoView
  /\ NumWorkspaces \in Nat \ {0} /\ Opaque \in Nat

(***************************************************************************)
(* The world.  A client takes up a request for full screen later, so the   *)
(* state that was asked for differs from the current one for a while.      *)
(***************************************************************************)
ViewRec ==
  [sticky : BOOLEAN, full : BOOLEAN, asked : BOOLEAN, minimized : BOOLEAN,
   alpha : 0..Opaque, ws : 1..NumWorkspaces]
World ==
  [view : [Views -> ViewRec],
   ws : 1..NumWorkspaces,     \* the current workspace, by its index
   focus : BOOLEAN,           \* does the output have an active view if it can?
   closing : SUBSET Views,    \* asked to close
   down : BOOLEAN]            \* asked to shut down

\* The first view of a set in the compositor's order.
First(S) ==
  IF S = {} THEN NoView
  ELSE AllViews[CHOOSE i \in DOMAIN AllViews :
         AllViews[i] \in S /\ \A j \in 1..i - 1 : AllViews[j] \notin S]

Visible(w, v) == ~w.view[v].minimized /\ (w.view[v].sticky \/ w.view[v].ws = w.ws)
ActiveView(w) == IF w.focus THEN First({v \in Views : Visible(w, v)}) ELSE NoView

\* The type of a view is floating_con.
Floating == Above \cup Raised

\* A container is the description of a toplevel view, with the views in its
\* "nodes"; NoContainer is the null value.
Container(v, nodes) == [id |-> v, nodes |-> nodes]
NoContainer == Container(NoView, {})

\* describe_view, which describes toplevel views only
Describe(v) == IF v \in TopLevels THEN Container(v, {}) ELSE NoContainer

Done(w) == [ok |-> TRUE, world |-> w]
Failed(w) == [ok |-> FALSE, world |-> w]

-----------------------------------------------------------------------------
\* A command: its name, a word and a number that follow, the number as a set
\* that is empty if there is none.
Command(name, word, n) == [name |-> name, word |-> word, n |-> n]

\* parse_boolean; "enable" stands for all words that say yes.
Boolean(word, current) == word = "enable" \/ (word = "toggle" /\ ~current)

Kill(w, con) ==
  IF con.id = NoView THEN Failed(w)
  ELSE Done([w EXCEPT !.closing = @ \cup {con.id} \cup con.nodes])

Sticky(c, w, con) ==
  IF c.word = "" \/ con.id = NoView THEN Failed(w)
  ELSE Done([w EXCEPT !.view[con.id].sticky = Boolean(c.word, @)])

Fullscreen(c, w, con) ==
  IF con.id = NoView THEN Failed(w)
  ELSE LET is == w.view[con.id].full
           enable == IF c.word \in {"", "global"} THEN ~is ELSE Boolean(c.word, is)
       IN Done([w EXCEPT !.view[con.id].asked = enable])

\* Broken form: the bounds are not checked after plus and minus.
Opacity_Unbounded(c, w, con) ==
  IF con.id = NoView \/ c.n = {} THEN Failed(w)
  ELSE LET n == CHOOSE x \in c.n : TRUE
           alpha == w.view[con.id].alpha
           val == CASE c.word = "plus" -> alpha + n [] c.word = "minus" -> alpha - n [] OTHER -> n
       IN Done([w EXCEPT !.view[con.id].alpha = val])

Opacity(c, w, con) ==
  IF con.id = NoView \/ c.n = {} \/ c.word \notin {"", "set", "plus", "minus"} THEN Failed(w)
  ELSE LET n == CHOOSE x \in c.n : TRUE
           alpha == w.view[con.id].alpha
           val == CASE c.word = "plus" -> alpha + n [] c.word = "minus" -> alpha - n [] OTHER -> n
       IN IF val \notin 0..Opaque THEN Failed(w)
          ELSE Done([w EXCEPT !.view[con.id].alpha = val])

\* get_workspace_at_index: the index itself, or none.  A name is the number
\* it is read as.
Workspace(c, w) ==
  LET target == CASE c.word = "next" /\ w.ws < NumWorkspaces -> w.ws + 1
                  [] c.word = "prev" /\ w.ws > 1 -> w.ws - 1
                  [] c.word \notin {"next", "prev"} /\ c.n # {} -> CHOOSE x \in c.n : TRUE
                  [] OTHER -> w.ws
  IN IF (c.n = {} /\ c.word \in {"", "number"}) \/ target \notin 1..NumWorkspaces
       THEN Failed(w)
       ELSE Done([w EXCEPT !.ws = target, !.focus = TRUE])

\* scratchpad_toggle_auto.  The requests to hide and to show are made with
\* the opposite flag, so that only the workspace of a view ever changes.
ScratchpadAuto(w) ==
  LET active == ActiveView(w)
      hidden == {v \in TopLevels \ {active} : w.view[v].minimized}
      here == First({v \in hidden : w.view[v].ws = w.ws})
      there == First({v \in hidden : \A u \in hidden : w.view[v].ws <= w.view[u].ws})
  IN CASE active \in TopLevels -> [w EXCEPT !.view[active].minimized = FALSE]
       [] active \notin TopLevels /\ here # NoView -> [w EXCEPT !.view[here].minimized = TRUE]
       [] active \notin TopLevels /\ here = NoView /\ there # NoView ->
            [w EXCEPT !.view[there].minimized = TRUE, !.view[there].ws = w.ws]
       [] OTHER -> w

Scratchpad(c, w, con, overridden) ==
  CASE c.word # "show" -> Failed(w)
    [] c.word = "show" /\ ~overridden -> Done(ScratchpadAuto(w))
    [] c.word = "show" /\ overridden /\ con.id = NoView -> Done(w)
    [] OTHER -> Done([w EXCEPT !.view[con.id].minimized = ~@])

Exit(c, w) == IF c.word # "" THEN Failed(w) ELSE Done([w EXCEPT !.down = TRUE])

\* core_handler, for the commands that are one step
Handler(c, w, con, overridden) ==
  CASE c.name = "kill" -> Kill(w, con)
    [] c.name = "sticky" -> Sticky(c, w, con)
    [] c.name = "fullscreen" -> Fullscreen(c, w, con)
    [] c.name = "opacity" -> Opacity(c, w, con)
    [] c.name = "workspace" -> Workspace(c, w)
    [] c.name = "scratchpad" -> Scratchpad(c, w, con, overridden)
    [] c.name = "exit" -> Exit(c, w)
Handled == {"kill", "sticky", "fullscreen", "opacity", "workspace", "scratchpad", "exit"}
================================================================================
