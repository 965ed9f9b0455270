--------------------------- MODULE MCTranslatedTurn ---------------------------
(* An instance of TranslatedTurn for TLC. *)
EXTENDS TranslatedTurn

CONSTANTS t1, t2

MCTools == {t1, t2}

Tool(id, input, stop) ==
    [type |-> "tool", id |-> id, input |-> input, stop |-> stop]

(* Of the empty frames only the thought that is just a signature is kept,  *)
(* and a reason is given by one frame.                                     *)
MCKinds ==
    {[type |-> "text", text |-> TRUE],
     [type |-> "thinking", text |-> TRUE, signature |-> FALSE],
     [type |-> "thinking", text |-> FALSE, signature |-> TRUE],
     [type |-> "metadata", reason |-> "TOOL_USE"]}
    \cup {Tool(id, input, stop) : id \in MCTools, input \in BOOLEAN, stop \in BOOLEAN}
    \cup {Tool(None, TRUE, FALSE), Tool(None, FALSE, TRUE)}
===============================================================================
