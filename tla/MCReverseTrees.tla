--------------------------- MODULE MCReverseTrees ---------------------------
(* A small instance of ReverseTrees.                                       *)
EXTENDS ReverseTrees

(* Recursion through expr alone and through select; two rules that lead    *)
(* from expr to select; a rule with the same token twice; a statement      *)
(* within a statement, under the root; a production used in one place.     *)
SmallGrammar ==
  [stmt |-> << <<"insert">> >>,
   insert |-> << <<"INSERT", "select", "UNION", "select">> >>,
   select |-> << <<"SELECT", "expr">>, <<"SELECT", "expr", "FROM", "x">> >>,
   expr |-> << <<"-", "expr">>, <<"(", "select", ")">>, <<"name">> >>,
   name |-> << <<"x">> >>]

SmallInteresting == <<"name", "select">>
=============================================================================
