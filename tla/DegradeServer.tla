---------------------------- MODULE DegradeServer ----------------------------
(***************************************************************************)
(* degrade_server.py (src/experiments/): a proxy that damages every ranked *)
(* page on its way to the agent, and pins an excerpt onto every concept    *)
(* call on its way in.                                                     *)
(*                                                                         *)
(* main() copies the client's lines to the server while the pump thread    *)
(* copies the server's lines back.  A page is damaged in the text and in   *)
(* the structured content; one that cannot be is the end of the process.   *)
(* A column is a field of a row; a rendered row is the sequence of its     *)
(* cells, where a value that holds a raw tab makes two.                    *)
(***************************************************************************)
EXTENDS Naturals, Sequences

CONSTANTS
    Options,    \* arms: records of shuffle, halve (--page-fraction 1/2), blind, force
    Pages,      \* pages the server may answer with; see Page below
    Calls       \* bound: calls the agent makes

Fields == {"caller", "path", "symbol", "excerpt_truncated"}
Attribution == {"symbol", "caller"}

\* A page: for every row the fields it has, a path at least, and whether the path
\* holds a raw tab, the number of rows its text claims, and whether there is a
\* text block at all.
Page == [rows : Seq([fields : {f \in SUBSET Fields : "path" \in f}, tab : BOOLEAN]),
         claims : Nat, text : BOOLEAN]

ASSUME PagesAssumption == Pages \subseteq {p \in Page : p.claims >= Len(p.rows)}

ASSUME OptionsAssumption ==
    \A o \in Options : o.shuffle \/ o.halve \/ o.blind \/ o.force

VARIABLES
    arm,        \* the options of this run
    made,       \* calls the agent has made
    asked,      \* calls the server has received and not answered
    stdout,     \* what the server has written and the pump has not read
    shown,      \* what the agent has been given
    state       \* "running", "closing" (stdin at its end), "ended", "killed"

degradeVars == <<arm, made, asked, stdout, shown, state>>

-----------------------------------------------------------------------------
(* orderer, drop_column, rewrite_text, degrade. *)

\* Python's round, half to even.
HalfOf(n) == IF n % 2 = 0 THEN n \div 2 ELSE IF n % 4 = 1 THEN n \div 2 ELSE n \div 2 + 1

\* How many rows of n the page keeps: never none.
Keep(n) == IF arm.halve THEN IF HalfOf(n) < 1 THEN 1 ELSE HalfOf(n) ELSE n

\* order_for(n): the leading part of a permutation, any one under --shuffle.
Orders(n) ==
    IF arm.shuffle
    THEN {o \in [1 .. Keep(n) -> 1 .. n] : \A i, j \in 1 .. Keep(n) : o[i] = o[j] => i = j}
    ELSE {[i \in 1 .. Keep(n) |-> i]}

\* The columns of a page in the order the server renders them: sorted, except
\* that excerpt_truncated is last.
Column(f, fields) == IF f \in fields THEN <<f>> ELSE <<>>

Columns(fields) ==
    Column("caller", fields) \o <<"path">> \o Column("symbol", fields)
        \o Column("excerpt_truncated", fields)

\* The cells a row has under them.
Cell(i, f, fields) == IF f \in fields THEN <<<<i, f>>>> ELSE <<>>

PathCells(rows, i) ==
    IF rows[i].tab THEN <<<<i, "path">>, <<i, "rest of path">>>> ELSE <<<<i, "path">>>>

Rendered(rows, i, fields) ==
    Cell(i, "caller", fields) \o PathCells(rows, i) \o Cell(i, "symbol", fields)
        \o Cell(i, "excerpt_truncated", fields)

\* The fields some row has, which the server renders in the header.
Shown(rows) == UNION {rows[i].fields : i \in DOMAIN rows}

Without(s, k) == SubSeq(s, 1, k - 1) \o SubSeq(s, k + 1, Len(s))

\* Mutant of DropColumn: the column is cut where the header has it, unchecked.
DropColumnBlind(block, f) ==
    LET k == CHOOSE k \in DOMAIN block.columns : block.columns[k] = f
    IN  [columns |-> Without(block.columns, k), ok |-> block.ok,
         rows |-> [i \in DOMAIN block.rows |-> Without(block.rows[i], k)]]

\* drop_column: from an end by one split, from the middle only when the row has
\* one cell per column; otherwise it raises (ok is FALSE from then on).
DropColumn(block, f) ==
    LET k == CHOOSE k \in DOMAIN block.columns : block.columns[k] = f
        Cut(row) == Without(row, IF k = Len(block.columns) THEN Len(row) ELSE k)
    IN  [columns |-> Without(block.columns, k),
         ok |-> block.ok /\ (k \in {1, Len(block.columns)}
                             \/ \A i \in DOMAIN block.rows : Len(block.rows[i]) = Len(block.columns)),
         rows |-> [i \in DOMAIN block.rows |-> Cut(block.rows[i])]]

\* The identity fields to drop: those every row has.
Blind(rows) ==
    {f \in Attribution : arm.blind /\ \A i \in DOMAIN rows : f \in rows[i].fields}

Mixed(rows) ==
    arm.blind /\ \E f \in Attribution :
        /\ \E i \in DOMAIN rows : f \in rows[i].fields
        /\ \E i \in DOMAIN rows : f \notin rows[i].fields

\* rewrite_text: the rows of the block in the new order, without the columns.
Dropped(block, f, blind) == IF f \in blind THEN DropColumn(block, f) ELSE block

Rewritten(page, order) ==
    LET block == [columns |-> Columns(Shown(page.rows)),
                  rows |-> [k \in DOMAIN order |-> Rendered(page.rows, order[k], Shown(page.rows))],
                  ok |-> page.claims = Len(page.rows)]
    IN  Dropped(Dropped(block, "symbol", Blind(page.rows)), "caller", Blind(page.rows))

\* degrade: what the agent gets of a page with rows, in both representations;
\* ok is FALSE where the code raises.
Degraded(page, order) ==
    LET text == Rewritten(page, order)
    IN  [text |-> text.rows, columns |-> text.columns,
         ok |-> text.ok /\ page.text /\ ~Mixed(page.rows),
         structured |-> [k \in DOMAIN order |->
                            [row |-> order[k], fields |-> page.rows[order[k]].fields \ Blind(page.rows)]]]

-----------------------------------------------------------------------------
DegradeInit ==
    /\ arm \in Options
    /\ made = 0 /\ asked = <<>> /\ stdout = <<>> /\ shown = <<>>
    /\ state = "running"

\* pin_excerpt on a search_concept call: `fields` absent, a list, or a list that
\* already asks for the excerpt.
Pinned(fields) ==
    IF arm.force /\ fields \in {"absent", "list"} THEN "excerpt" ELSE fields

\* main() copies a call in; one it cannot pin ends the process.
CopyIn ==
    /\ state = "running" /\ made < Calls
    /\ made' = made + 1
    /\ \/ \E fields \in {"absent", "list", "excerpt"} :
            /\ asked' = Append(asked, [concept |-> TRUE, fields |-> Pinned(fields)])
            /\ UNCHANGED state
       \/ asked' = Append(asked, [concept |-> FALSE, fields |-> "absent"]) /\ UNCHANGED state
       \/ arm.force /\ state' = "killed" /\ UNCHANGED asked
    /\ UNCHANGED <<arm, stdout, shown>>

\* The server answers a call with a page, one with no rows, or no page at all.
\* Only an answer to a call for the excerpt has an excerpt_truncated column.
Answer ==
    /\ state \in {"running", "closing"} /\ asked # <<>>
    /\ \E page \in Pages :
         /\ \A i \in DOMAIN page.rows :
              "excerpt_truncated" \in page.rows[i].fields <=> Head(asked).fields = "excerpt"
         /\ stdout' = Append(stdout, [page |-> page, concept |-> Head(asked).concept])
    /\ asked' = Tail(asked)
    /\ UNCHANGED <<arm, made, shown, state>>

\* pump: one line, damaged or the end of the process.
Pump ==
    /\ state \in {"running", "closing"} /\ stdout # <<>>
    /\ LET page == Head(stdout).page IN
       IF page.rows = <<>>
       THEN /\ stdout' = Tail(stdout) /\ UNCHANGED <<shown, state>>
       ELSE \E order \in Orders(Len(page.rows)) :
              /\ stdout' = Tail(stdout)
              /\ IF Degraded(page, order).ok
                 THEN /\ shown' = Append(shown, [page |-> page, concept |-> Head(stdout).concept,
                                                 as |-> Degraded(page, order)])
                      /\ UNCHANGED state
                 ELSE state' = "killed" /\ UNCHANGED shown
    /\ UNCHANGED <<arm, made, asked>>

CloseStdin ==
    /\ state = "running"
    /\ state' = "closing"
    /\ UNCHANGED <<arm, made, asked, stdout, shown>>

\* main() returns when the server has ended, whatever the pump, a daemon thread,
\* has still to read.
Ends ==
    /\ state = "closing" /\ asked = <<>>
    /\ state' = "ended"
    /\ UNCHANGED <<arm, made, asked, stdout, shown>>

DegradeNext == CopyIn \/ Answer \/ Pump \/ CloseStdin \/ Ends

DegradeSpec == DegradeInit /\ [][DegradeNext]_degradeVars

-----------------------------------------------------------------------------
(* Properties. *)

\* Both forms of a page hold the same rows and fields of it.
Alike(page, as) ==
    LET columns == {as.columns[c] : c \in DOMAIN as.columns} IN
    /\ Len(as.text) = Len(as.structured)
    /\ \A k \in DOMAIN as.structured :
          /\ as.text[k] = Rendered(page.rows, as.structured[k].row, columns)
          /\ as.structured[k].fields = page.rows[as.structured[k].row].fields \cap columns

\* A client that reads the text and a client that reads the structured content
\* are given the same rows, in the same order, with the same fields.
SameDamage == \A n \in DOMAIN shown : Alike(shown[n].page, shown[n].as)

=============================================================================
