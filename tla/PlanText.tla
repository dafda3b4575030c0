------------------------------- MODULE PlanText -------------------------------
(***************************************************************************)
(* The plan that build_plan_hwpx.py writes, as the calls its script makes:  *)
(* a heading, a run of paragraphs (title_main, p, L1, L2, L3, note,        *)
(* blank), a code block with its lines, a table with the widths of its     *)
(* columns in per cent and its rows.  Numbers and wording are left out.    *)
(***************************************************************************)
EXTENDS Integers, Sequences

Text(n) == [op |-> "text", n |-> n]
Heading == Text(1)   \* chapter and section
Code(n) == [op |-> "code", n |-> n]

\* headers: the number of columns; rows: the number of cells of each row;
\* pct: the widths, <<>> for col_widths_pct=None.
TableOf(headers, rows, pct) == [op |-> "table", headers |-> headers, rows |-> rows, pct |-> pct]
PctTable(pct, n) == TableOf(Len(pct), [r \in 1..n |-> Len(pct)], pct)
-------------------------------------------------------------------------------
Cover ==
    <<Text(9)>>

ChapterI ==
    <<Heading,
      Heading, Text(4),
      Heading, Text(21)>>

ChapterII ==
    <<Heading,
      Heading, PctTable(<<25, 75>>, 10), Text(1),
      Heading, PctTable(<<18, 42, 40>>, 11), Text(1),
      Heading, Text(17)>>

ChapterIII ==
    <<Heading,
      Heading, Text(18),
      Heading, Text(36),
      Heading, PctTable(<<25, 12, 63>>, 9), Text(2),
      Heading, Text(20),
      Heading, Text(31)>>

ChapterIV ==
    <<Heading,
      Heading, Text(8),
      Heading, PctTable(<<35, 65>>, 3), Text(7),
      Heading, Text(8),
      Heading, Text(10)>>

ChapterV ==
    <<Heading,
      Heading, Text(8),
      Heading, Text(1), Code(8), Text(1), Code(9), Text(1), Code(8), Text(1), Code(14),
      Text(1), Code(8), Text(1),
      Heading, Text(8), Code(14), Text(8), Code(11), Text(1),
      Heading, Text(6), Code(25), Text(1), PctTable(<<18, 24, 25, 18, 15>>, 3), Text(2),
      Heading, Text(6), Code(22), Text(1), Code(9), Text(1), Code(8), Text(1)>>

ChapterVI ==
    <<Heading,
      Heading, Text(5),
      Heading, Text(1), PctTable(<<40, 60>>, 7), Text(1), PctTable(<<40, 60>>, 3), Text(6),
      Heading, Text(1), Code(17), Text(1), Code(17), Text(2),
      Heading, Text(12)>>

ChapterVII ==
    <<Heading,
      Heading, PctTable(<<25, 75>>, 8), Text(1),
      Heading, Text(1), Code(12), Text(1), Code(9), Text(1),
      Heading, Text(3), Code(13), Text(1)>>

ChapterVIII ==
    <<Heading,
      Heading, Text(26),
      Heading, PctTable(<<8, 22, 70>>, 8), Text(1),
      Heading, Text(1), PctTable(<<35, 65>>, 9), Text(1), Code(8), Text(5),
      Heading, Text(10), Code(10), Text(1)>>

ChapterIX ==
    <<Heading,
      Heading, Text(11),
      Heading, Text(15),
      Heading, PctTable(<<25, 75>>, 6), Text(1),
      Heading, Text(12), PctTable(<<25, 75>>, 8), Text(2)>>

ChapterX ==
    <<Heading,
      Heading, Code(9), Text(1),
      Heading, Code(7), Text(1),
      Heading, Code(7), Text(1),
      Heading, Code(8), Text(1)>>

ChapterXI ==
    <<Heading,
      Heading, PctTable(<<25, 75>>, 8), Text(1),
      Heading, PctTable(<<25, 75>>, 8), Text(1),
      Heading, Text(5), Code(10), Text(9)>>

ChapterXII ==
    <<Heading,
      Heading, PctTable(<<25, 20, 55>>, 5), Text(1),
      Heading, PctTable(<<20, 80>>, 7), Text(1),
      Heading, PctTable(<<30, 70>>, 6), Text(1)>>

ChapterXIII ==
    <<Heading,
      Heading, PctTable(<<10, 24, 8, 58>>, 7), Text(1),
      Heading, Text(32),
      Heading, Text(39)>>

ChapterXIV ==
    <<Heading,
      Heading, PctTable(<<35, 35, 30>>, 9), Text(1),
      Heading, PctTable(<<35, 65>>, 7), Text(1),
      Heading, Text(6),
      Heading, Text(22)>>

ChapterXV ==
    <<Heading,
      Heading, Text(11),
      Heading, Text(7),
      Heading, Text(9),
      Heading, Text(8)>>
-------------------------------------------------------------------------------
\* The whole script.
Plan ==
    Cover \o ChapterI \o ChapterII \o ChapterIII \o ChapterIV \o ChapterV \o ChapterVI
    \o ChapterVII \o ChapterVIII \o ChapterIX \o ChapterX \o ChapterXI \o ChapterXII
    \o ChapterXIII \o ChapterXIV \o ChapterXV
===============================================================================
