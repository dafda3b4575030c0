---------------------------- MODULE MCPlanDocument ----------------------------
(* The plan itself, and short documents with tables of other shapes: widths *)
(* left to the script, rounding in every column, rows of different length.  *)
EXTENDS PlanDocument

Small(t) == <<Heading, Text(1), t, Code(2)>>

MCScripts ==
    {Plan}
    \cup {Small(TableOf(n, <<n, n>>, <<>>)) : n \in 1..7}
    \cup {Small(TableOf(3, <<a, b>>, <<33, 33, 34>>)) : a \in 0..4, b \in 0..4}
    \cup {Small(TableOf(7, <<7>>, <<13, 13, 13, 13, 13, 13, 22>>))}
===============================================================================
