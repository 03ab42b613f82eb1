----------------------------- MODULE OutputCommands -----------------------------
(***************************************************************************)
(* The sub-commands of "output <name> ..." (src/ipc/commands/output/).     *)
(* Each gets the words that follow its name, and returns a status, how     *)
(* many of them it has used (the rest are the leftovers output_handler     *)
(* goes on with) and the configuration of the outputs.  "power" and "dpms" *)
(* only emit a signal, which module Power takes up.                        *)
(***************************************************************************)
EXTENDS Integers, Sequences

CONSTANTS
  Outputs,     \* the names of the outputs
  Number,      \* the words that are numbers, and which: a function
  Point,       \* the words such as 10,20, and which pair: a function
  Extent,      \* the words such as 10x20, and which pair: a function
  Quarters,    \* the words that are rotations, by quarters of a turn: a function
  Modes        \* the sizes an output has a mode for

ASSUME WordsAssumption ==
  /\ Number \in [DOMAIN Number -> Int] /\ Point \in [DOMAIN Point -> Int \X Int]
  /\ Extent \in [DOMAIN Extent -> Int \X Int]
  /\ DOMAIN Number \cap (DOMAIN Point \cup DOMAIN Extent) = {}
  /\ "--custom" \notin DOMAIN Extent
  /\ Quarters \in [DOMAIN Quarters -> 0..3] /\ Modes \subseteq Int \X Int

\* Rotations are kept as the code keeps them, counted against the clock.
OutputRec == [scale : Int, pos : Int \X Int, turn : 0..3, mode : Int \X Int]
Config == [Outputs -> OutputRec]

Reject(cfg) == [ok |-> FALSE, used |-> 0, config |-> cfg]
Accept(n, cfg) == [ok |-> TRUE, used |-> n, config |-> cfg]

Known(name) == name \in Outputs

Scale(args, name, cfg) ==
  IF args # <<>> /\ args[1] \in DOMAIN Number /\ Known(name)
    THEN Accept(1, [cfg EXCEPT ![name].scale = Number[args[1]]])
    ELSE Reject(cfg)

\* One word for both or two numbers: how many, and what they say; <<>> if
\* neither.
TwoNumbers(args, both) ==
  CASE args # <<>> /\ args[1] \in DOMAIN both -> <<1, both[args[1]]>>
    [] Len(args) > 1 /\ args[1] \in DOMAIN Number /\ args[2] \in DOMAIN Number ->
         <<2, <<Number[args[1]], Number[args[2]]>>>>
    [] OTHER -> <<>>

Position(args, name, cfg) ==
  LET p == TwoNumbers(args, Point)
  IN IF p # <<>> /\ Known(name)
       THEN Accept(p[1], [cfg EXCEPT ![name].pos = p[2]]) ELSE Reject(cfg)

\* Broken form: the word --custom is not counted among those used.
Mode_Miscounts(args, name, cfg) ==
  LET custom == args # <<>> /\ args[1] = "--custom"
      p == TwoNumbers(IF custom THEN Tail(args) ELSE args, Extent)
  IN IF p # <<>> /\ Known(name) /\ (custom \/ p[2] \in Modes)
       THEN Accept(p[1], [cfg EXCEPT ![name].mode = p[2]]) ELSE Reject(cfg)

\* Broken form: the mode is set before it is looked for among the modes.
Mode_SetsFirst(args, name, cfg) ==
  LET custom == args # <<>> /\ args[1] = "--custom"
      p == TwoNumbers(IF custom THEN Tail(args) ELSE args, Extent)
      n == IF custom THEN 1 ELSE 0
      set == [cfg EXCEPT ![name].mode = p[2]]
  IN IF p = <<>> \/ ~Known(name) THEN Reject(cfg)
     ELSE IF custom \/ p[2] \in Modes THEN Accept(p[1] + n, set) ELSE Reject(set)

Mode(args, name, cfg) ==
  LET custom == args # <<>> /\ args[1] = "--custom"
      p == TwoNumbers(IF custom THEN Tail(args) ELSE args, Extent)
      n == IF custom THEN 1 ELSE 0
  IN IF p # <<>> /\ Known(name) /\ (custom \/ p[2] \in Modes)
       THEN Accept(p[1] + n, [cfg EXCEPT ![name].mode = p[2]]) ELSE Reject(cfg)

\* invert_rotation_direction
Inverted(t) == (4 - t) % 4

\* A rotation is clockwise; it replaces the current one, or is relative to it.
Transform(args, name, cfg) ==
  IF args = <<>> \/ args[1] \notin DOMAIN Quarters \/ ~Known(name) THEN Reject(cfg)
  ELSE LET turn == Inverted(Quarters[args[1]])
           relative == Len(args) > 1 /\ args[2] \in {"clockwise", "anticlockwise"}
           by == IF args[2] = "anticlockwise" THEN Inverted(turn) ELSE turn
       IN IF relative THEN Accept(2, [cfg EXCEPT ![name].turn = (@ + by) % 4])
          ELSE Accept(1, [cfg EXCEPT ![name].turn = turn])

PowerSignal(args, cfg) == IF args = <<>> THEN Reject(cfg) ELSE Accept(1, cfg)

\* output_handler_map
SubHandler(sub, args, name, cfg) ==
  CASE sub = "scale" -> Scale(args, name, cfg)
    [] sub = "position" -> Position(args, name, cfg)
    [] sub = "mode" -> Mode(args, name, cfg)
    [] sub = "transform" -> Transform(args, name, cfg)
    [] sub \in {"power", "dpms"} -> PowerSignal(args, cfg)
    [] OTHER -> Reject(cfg)
================================================================================
