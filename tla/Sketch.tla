------------------------------- MODULE Sketch -------------------------------
(***************************************************************************)
(* The sketches of SketchLib (a git submodule, external to this            *)
(* repository) as Fragment.cpp and DiSketch.cpp use them.                  *)
(*                                                                         *)
(* A sketch has Rows rows of counters named by Cells; Cell[r][f] is the    *)
(* counter of row r that flow f hashes to.  update(flow, 1) increments one *)
(* counter in every row, query(flow) is the smallest of the counters of    *)
(* the flow.  This is CountMin.  It is also CountSketch and UnivMon in the *)
(* instances where no two flows share a counter, where the signs of        *)
(* CountSketch cancel and every row answers the same; their answers under  *)
(* collisions (signed counters, median of the rows) are not modelled.      *)
(***************************************************************************)
EXTENDS Naturals

CONSTANTS Flows,  \* the two-tuples that occur in the trace
          Cells,  \* the counters of a row
          Rows,   \* the rows of a sketch
          Cell    \* the counter of each row that a flow is hashed to

ASSUME CellAssumption == Cell \in [Rows -> [Flows -> Cells]]
ASSUME RowsAssumption == Rows # {}

Sketches == [Rows -> [Cells -> Nat]]

\* A newly created sketch, and one after clear().
EmptySketch == [r \in Rows |-> [c \in Cells |-> 0]]

Update(sk, f) ==
    [r \in Rows |-> [sk[r] EXCEPT ![Cell[r][f]] = @ + 1]]

\* No two flows share a counter: the case in which the answers of all kinds
\* of sketches are those of Query.
NoCollisions ==
    \A r \in Rows, f, g \in Flows : Cell[r][f] = Cell[r][g] => f = g

Query(sk, f) ==
    LET counters == {sk[r][Cell[r][f]] : r \in Rows}
    IN  CHOOSE v \in counters : \A w \in counters : v <= w

=============================================================================
