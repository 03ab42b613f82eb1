-------------------------------- MODULE Criteria --------------------------------
(***************************************************************************)
(* Criteria such as [app_id="foo" floating] (src/ipc/commands/criteria.cpp)*)
(* select the views a command is applied to.  They are parsed token by     *)
(* token into a record, and matched against the containers of the tree     *)
(* that GET_TREE describes.  A regular expression is the set of names it   *)
(* matches; app_id stands for title too, which is treated alike.           *)
(***************************************************************************)
EXTENDS ViewCommands, SequencesExt

CONSTANTS
  App,        \* the app_id of a view
  Pid,        \* the process of a view
  Shell,      \* the shell of a toplevel view
  Id,         \* the id of a view
  OutputId,   \* the id of the output
  ScratchId   \* that of the workspace __i3_scratch

ASSUME NamesAssumption ==
  /\ DOMAIN App = Views /\ DOMAIN Pid = Views /\ DOMAIN Shell = TopLevels
  /\ Id \in [Views -> Nat \ {0}] /\ \A u, v \in Views : Id[u] = Id[v] => u = v
  /\ {OutputId, ScratchId} \subseteq Nat \ {0} /\ NumWorkspaces < 100

(***************************************************************************)
(* A token: its name, its value as a set of names or numbers, and whether  *)
(* the value is __focused__.  An ill-formed token, value or bracket is     *)
(* named "bad".                                                            *)
(***************************************************************************)
Token(name, value) == [name |-> name, value |-> value, focused |-> FALSE]
Focused(name) == [name |-> name, value |-> {}, focused |-> TRUE]
Bad == Token("bad", {})

\* An absent pattern.
NoPattern == [on |-> FALSE, focused |-> FALSE, names |-> {}]
Pattern(t) == [on |-> TRUE, focused |-> t.focused, names |-> t.value]

NoCriteria ==
  [all |-> FALSE, floating |-> FALSE, tiling |-> FALSE, con_mark |-> FALSE,
   app_id |-> NoPattern, shell |-> NoPattern, workspace |-> NoPattern,
   con_id |-> 0, pid |-> 0]

IsEmpty(c) == c = NoCriteria

The(S) == CHOOSE x \in S : TRUE

FocusedId(w) == IF ActiveView(w) = NoView THEN 0 ELSE Id[ActiveView(w)]

\* parse_token.  A later token of the same name replaces an earlier one.
ParseToken(c, t, w) ==
  CASE t.name = "all" -> [c EXCEPT !.all = TRUE]
    [] t.name = "floating" -> [c EXCEPT !.floating = TRUE]
    [] t.name = "tiling" -> [c EXCEPT !.tiling = TRUE]
    [] t.name = "con_mark" -> [c EXCEPT !.con_mark = TRUE]
    [] t.name = "app_id" -> [c EXCEPT !.app_id = Pattern(t)]
    [] t.name = "shell" -> [c EXCEPT !.shell = Pattern(t)]
    [] t.name = "workspace" -> [c EXCEPT !.workspace = Pattern(t)]
    [] t.name = "con_id" -> [c EXCEPT !.con_id = IF t.focused THEN FocusedId(w) ELSE The(t.value)]
    [] t.name = "pid" -> [c EXCEPT !.pid = The(t.value)]

\* parse: does it succeed, and what does it yield?
Parses(tokens, w) ==
  /\ \A i \in DOMAIN tokens : tokens[i].name # "bad"
  /\ ~IsEmpty(FoldLeft(LAMBDA c, t : ParseToken(c, t, w), NoCriteria, tokens))
Parse(tokens, w) == FoldLeft(LAMBDA c, t : ParseToken(c, t, w), NoCriteria, tokens)

\* What a function says of the views of a set, in the compositor's order.
Each(S, of) ==
  LET each[i \in 0..Len(AllViews)] ==
        IF i = 0 THEN <<>>
        ELSE each[i - 1] \o IF AllViews[i] \in S THEN of[AllViews[i]] ELSE <<>>
  IN each[Len(AllViews)]

\* The workspace that matches_view compares: that of the last other view.
WorkspaceOf(v, w) ==
  LET others == Each(TopLevels \ {v}, [u \in Views |-> <<u>>])
  IN IF others = <<>> THEN {} ELSE {w.view[Last(others)].ws}

\* Broken form: of several tokens it is enough that one matches.
MatchesView_Either(c, v, w) ==
  \/ c.all
  \/ c.app_id.on /\ App[v] \in c.app_id.names
  \/ c.con_id = Id[v] \/ c.pid = Pid[v]
  \/ c.floating /\ v \in Floating

\* matches_view.  Where no toplevel view is active, __focused__ as a shell
\* matches nothing, as an app_id it matches everything if none at all is.
MatchesView(c, v, w) ==
  LET active == ActiveView(w)
  IN /\ c.app_id.on /\ c.app_id.focused /\ active # NoView => App[v] = App[active]
     /\ c.app_id.on /\ ~c.app_id.focused => App[v] \in c.app_id.names
     /\ c.shell.on /\ c.shell.focused => active \in TopLevels /\ Shell[v] = Shell[active]
     /\ c.shell.on /\ ~c.shell.focused => Shell[v] \in c.shell.names
     /\ c.con_id # 0 => Id[v] = c.con_id
     /\ c.floating => v \in Floating
     /\ ~c.tiling
     /\ c.workspace.on =>
          \E ws \in WorkspaceOf(v, w) :
            IF ~c.workspace.focused THEN ws \in c.workspace.names
            ELSE CASE active = NoView -> TRUE
                   [] active # NoView /\ active \notin TopLevels -> FALSE
                   [] OTHER -> ws = w.view[active].ws
     /\ c.pid # 0 => Pid[v] = c.pid

Children(v) == {u \in TopLevels : Parent[u] = v}

\* The id of a workspace: that of the output followed by the index.
WorkspaceId(i) == IF i < 10 THEN OutputId * 10 + i ELSE OutputId * 100 + i

\* A node of the tree: a workspace, which is no container for a command, or
\* a view.
WorkspaceNode(i) == [id |-> WorkspaceId(i), con |-> NoContainer]
ScratchNode == [id |-> ScratchId, con |-> NoContainer]
ViewNode(v, nodes) == [id |-> Id[v], con |-> Container(v, nodes)]

\* A view and what hangs below it.
Leaf == [u \in TopLevels |-> <<ViewNode(u, {})>>]
Subtree == [v \in TopLevels |->
  <<ViewNode(v, Children(v) \ Above)>>
  \o Each(Children(v) \ Above, Leaf) \o Each(Children(v) \cap Above, Leaf)]
Subtrees(S) == Each(S, Subtree)

On(i, hidden, w) ==
  {v \in TopLevels : w.view[v].minimized = hidden /\ w.view[v].ws = i}

\* Broken form: what is in the scratchpad is left out.
Tree_NoScratchpad(w) ==
  <<ScratchNode>>
  \o FlattenSeq([i \in 1..NumWorkspaces |->
       <<WorkspaceNode(i)>> \o Subtrees(On(i, FALSE, w)) \o Subtrees(On(i, FALSE, w) \cap Raised)])

\* The workspaces and views of get_tree, in the order in which
\* node_for_each_matched_container visits them: the scratchpad, then the
\* workspaces.  A dialog is listed by itself and below its parent, and a view
\* of the layers above the workspaces is once more one of floating_nodes.
Tree(w) ==
  <<ScratchNode>>
  \o FlattenSeq([i \in 1..NumWorkspaces |-> Subtrees(On(i, TRUE, w))])
  \o FlattenSeq([i \in 1..NumWorkspaces |->
       <<WorkspaceNode(i)>> \o Subtrees(On(i, FALSE, w)) \o Subtrees(On(i, FALSE, w) \cap Raised)])

\* get_containers, with matches_container for workspaces
GetContainers(tokens, w) ==
  LET c == Parse(tokens, w)
      matches(node) ==
        IF node.con = NoContainer THEN c.con_id # 0 /\ node.id = c.con_id
        ELSE MatchesView(c, node.con.id, w)
      matching[tree \in {Tree(w)}] ==
        FlattenSeq([i \in DOMAIN tree |-> IF matches(tree[i]) THEN <<tree[i].con>> ELSE <<>>])
  IN matching[Tree(w)]

(***************************************************************************)
(* What criteria are for, said without parser and tree: the views every    *)
(* token of which holds.  Said of the criteria that are implemented:       *)
(* marks and tiling are not, that of the workspace looks at another view,  *)
(* and a repeated token replaces the earlier one; __focused__ is given a   *)
(* meaning only when there is an active view, but for a shell, and a       *)
(* number only when it is not 0, which stands for no number, and is not    *)
(* the id of a workspace.                                                  *)
(***************************************************************************)
Means(t, v, w) ==
  CASE t.name = "app_id" -> IF t.focused THEN App[v] = App[ActiveView(w)] ELSE App[v] \in t.value
    [] t.name = "shell" ->
         IF t.focused THEN ActiveView(w) \in TopLevels /\ Shell[v] = Shell[ActiveView(w)]
         ELSE Shell[v] \in t.value
    [] t.name = "con_id" -> IF t.focused THEN v = ActiveView(w) ELSE Id[v] \in t.value
    [] t.name = "pid" -> Pid[v] \in t.value
    [] t.name = "floating" -> v \in Floating
    [] t.name = "all" -> TRUE
Selected(tokens, w) ==
  {v \in TopLevels : \A i \in DOMAIN tokens : Means(tokens[i], v, w)}

Understood(tokens, w) ==
  \A i \in DOMAIN tokens :
    /\ tokens[i].name \in {"app_id", "shell", "con_id", "pid", "floating", "all"}
    /\ tokens[i].focused =>
         tokens[i].name # "pid" /\ (tokens[i].name # "shell" => ActiveView(w) # NoView)
    /\ tokens[i].name \in {"con_id", "pid"} /\ ~tokens[i].focused =>
         0 \notin tokens[i].value /\ \E n \in tokens[i].value : tokens[i].value = {n}
    /\ tokens[i].name = "con_id" =>
         (IF tokens[i].focused THEN FocusedId(w) ELSE The(tokens[i].value))
           \notin {WorkspaceId(k) : k \in 1..NumWorkspaces} \cup {ScratchId}
    /\ \A j \in 1..i - 1 : tokens[j].name # tokens[i].name
================================================================================
