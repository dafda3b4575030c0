----------------------------- MODULE PlanDocument -----------------------------
(***************************************************************************)
(* build_plan_hwpx.py: a script of calls (module PlanText) that builds     *)
(* section0.xml of the plan, paragraph by paragraph, and writes it.        *)
(*                                                                         *)
(* Every paragraph, the ones in the cells of a table too, takes an id from *)
(* one counter, every table takes one from another.  A table takes the id  *)
(* of the paragraph around it first, then those of its cells row by row,   *)
(* and is appended last.  A step is one call of p, of blank or of a        *)
(* heading, one line of a code block, or one row of a table.  Style, text, *)
(* the numbers of headings and escaping are left out.                      *)
(***************************************************************************)
EXTENDS Integers, Sequences, FiniteSets, PlanText

CONSTANT Scripts   \* the scripts that may be run

ASSUME ScriptsAssumption ==
    \A s \in Scripts : s \in Seq(
        [op : {"text", "code"}, n : Nat \ {0}]
        \cup [op : {"table"}, headers : Nat \ {0}, rows : Seq(Nat), pct : Seq(Nat)])

\* sum() of the first items of a list, and of the list.
SumsOf(w) ==
    LET upto[i \in Nat] == IF i = 0 THEN 0 ELSE upto[i - 1] + w[i] IN upto

SumOf(w) == SumsOf(w)[Len(w)]

\* What the docstring of table asks of its callers: a share for every column, 100 in all.
ASSUME SharesAssumption ==
    \A s \in Scripts : \A i \in DOMAIN s :
        s[i].op = "table" /\ s[i].pct # <<>> =>
            Len(s[i].pct) = s[i].headers /\ SumOf(s[i].pct) = 100

TXT_WIDTH == 42520
FirstId == 1000000001

VARIABLES
    script,      \* the script that is run
    at,          \* its next call
    k,           \* how far that call has come
    pid, tid,    \* the two counters
    paragraphs,  \* what has been appended
    table,       \* the table under construction
    status       \* running, failed, or written

planVars == <<script, at, k, pid, tid, paragraphs, table, status>>

NoTable == [id |-> 0]
Call == script[at]
Doing(ops) == status = "running" /\ at <= Len(script) /\ Call.op \in ops

\* Mutant of StartId: the default of Counter.
StartIdDefault == 1000000001

StartId == 1000000010

PlanInit ==
    /\ script \in Scripts
    /\ at = 1 /\ k = 0
    /\ pid = StartId
    /\ tid = 2000000001
    /\ paragraphs = <<>>
    /\ table = NoTable
    /\ status = "running"
-------------------------------------------------------------------------------
\* A paragraph with the next id.
Paragraph ==
    /\ paragraphs' = Append(paragraphs, [id |-> pid, op |-> Call.op, cells |-> {}])
    /\ pid' = pid + 1
    /\ UNCHANGED <<script, tid, table, status>>

\* The call is over after n of its steps.
StepOf(n) ==
    IF k + 1 < n THEN k' = k + 1 /\ UNCHANGED at ELSE k' = 0 /\ at' = at + 1

\* p and its callers (headings among them), blank: n calls in a row.
Texts == Doing({"text"}) /\ Paragraph /\ StepOf(Call.n)

\* code_block: a paragraph for each line, the empty ones too.
CodeBlock == Doing({"code"}) /\ Paragraph /\ StepOf(Call.n)
-------------------------------------------------------------------------------
(* table *)

\* A column's share of the width, rounded down.
Share(call, c) ==
    IF call.pct = <<>> THEN TXT_WIDTH \div call.headers ELSE (TXT_WIDTH * call.pct[c]) \div 100

ColumnsOf(call) == 1..(IF call.pct = <<>> THEN call.headers ELSE Len(call.pct))

\* Mutant of ColWidths: what rounding leaves is lost.
ColWidthsRounded(call) == [c \in ColumnsOf(call) |-> Share(call, c)]

\* What rounding leaves goes to the last column.
ColWidths(call) ==
    LET w == [c \in ColumnsOf(call) |-> Share(call, c)]
        diff == TXT_WIDTH - SumOf(w)
    IN  [w EXCEPT ![Len(w)] = @ + diff]

TableStart ==
    /\ Doing({"table"}) /\ k = 0
    /\ table' = [id |-> pid, tbl |-> tid, call |-> at, widths |-> ColWidths(Call), cells |-> {}]
    /\ pid' = pid + 1
    /\ tid' = tid + 1
    /\ k' = 1
    /\ UNCHANGED <<script, at, paragraphs, status>>

\* Row 1 holds the headers.
CellsIn(r) == IF r = 1 THEN Call.headers ELSE Call.rows[r - 1]

\* build_row: a row with more cells than columns ends the script with an
\* IndexError; a shorter one is accepted.
BuildRow ==
    /\ Doing({"table"}) /\ k \in 1..(Len(Call.rows) + 1)
    /\ \/ /\ 1..CellsIn(k) \subseteq DOMAIN table.widths
          /\ table' = [table EXCEPT !.cells = @ \cup
                {[id |-> pid + c - 1, row |-> k - 1, col |-> c - 1, width |-> table.widths[c]] :
                    c \in 1..CellsIn(k)}]
          /\ pid' = pid + CellsIn(k)
          /\ k' = k + 1
          /\ UNCHANGED status
       \/ /\ ~(1..CellsIn(k) \subseteq DOMAIN table.widths)
          /\ status' = "failed"
          /\ UNCHANGED <<table, pid, k>>
    /\ UNCHANGED <<script, at, tid, paragraphs>>

\* The table is complete: it is appended, in its paragraph.
TableEnd ==
    /\ Doing({"table"}) /\ k = Len(Call.rows) + 2
    /\ paragraphs' = Append(paragraphs,
          [id |-> table.id, op |-> "table", tbl |-> table.tbl, call |-> table.call,
           cells |-> table.cells])
    /\ table' = NoTable
    /\ at' = at + 1
    /\ k' = 0
    /\ UNCHANGED <<script, pid, tid, status>>

\* The first paragraph and all others are written.
WriteSection ==
    /\ status = "running" /\ at > Len(script)
    /\ status' = "written"
    /\ UNCHANGED <<script, at, k, pid, tid, paragraphs, table>>

PlanNext == Texts \/ CodeBlock \/ TableStart \/ BuildRow \/ TableEnd \/ WriteSection

PlanSpec == PlanInit /\ [][PlanNext]_planVars
-------------------------------------------------------------------------------
\* How far a call can have come before its last step.
Progress(call) ==
    IF call.op = "table" THEN Len(call.rows) + 2 ELSE call.n - 1

\* The variables have their types, and no call takes more steps than it has.
PlanTypeOK ==
    /\ script \in Scripts
    /\ at \in 1..(Len(script) + 1)
    /\ k \in Nat /\ k <= IF at <= Len(script) THEN Progress(Call) ELSE 0
    /\ pid \in Nat /\ tid \in Nat
    /\ table # NoTable <=> (at <= Len(script) /\ Call.op = "table" /\ k > 0)
    /\ status \in {"running", "failed", "written"}

\* The ids of a paragraph: its own and those in its cells.
IdsOf(x) == {x.id} \cup {c.id : c \in x.cells}

\* The paragraph appended last, a table with all its cells, has no id that an
\* earlier one or the first paragraph of the document (SEC_FIRST) has, and none twice.
IdsFresh ==
    LET n == Len(paragraphs) IN
    n > 0 =>
        /\ \A i \in 1..(n - 1) : IdsOf(paragraphs[i]) \cap IdsOf(paragraphs[n]) = {}
        /\ FirstId \notin IdsOf(paragraphs[n])
        /\ \A c \in paragraphs[n].cells : c.id # paragraphs[n].id
        /\ \A c, d \in paragraphs[n].cells : c.id = d.id => c = d

\* The paragraph appended last.
Newest == paragraphs[Len(paragraphs)]

\* The cells x.cells of a table lie in the rows and columns that its call declares.
TableFills(x, call) ==
    LET header == {c \in x.cells : c.row = 0}
        w == [c \in 1..call.headers |-> (CHOOSE h \in header : h.col = c - 1).width]
    IN  /\ SumOf(w) = TXT_WIDTH
        /\ \A c \in 1..call.headers : w[c] - Share(call, c) \in 0..call.headers
        /\ \A c \in x.cells : c.row \in 0..Len(call.rows) /\ c.col \in 0..(call.headers - 1)
        /\ \A c, d \in x.cells : c.row = d.row /\ c.col = d.col => c = d

\* A finished table is as wide as the text, rounding moves no column by more than
\* one unit per column from its share, and its cells lie in the rows and columns it
\* declares (rowCnt, colCnt), no two in the same place, also when the rows differ in
\* length.
TablesFill ==
    Len(paragraphs) > 0 /\ Newest.op = "table" => TableFills(Newest, script[Newest.call])
===============================================================================
