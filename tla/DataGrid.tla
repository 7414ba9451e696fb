------------------------------ MODULE DataGrid ------------------------------
(***************************************************************************)
(* DataGrid with useDataGrid (ui/components/data-grid), in client mode with *)
(* paging and multiple selection: the user searches, sorts, pages and      *)
(* selects, by mouse and by keys, while the product's rows come and go.    *)
(* The grid remembers the focused row by its index on the page; the        *)
(* browser's focus stays on the element, which React keys by the row's id. *)
(* The cells of a row are not told apart, and every row is rendered.       *)
(***************************************************************************)
EXTENDS Integers, FiniteSets

CONSTANTS
  Ids,         \* of rows, positive numbers in the product's order
  Value,       \* the cell of a row in the column that sorts, Blank or a number
  Blank,
  Matching,    \* the rows that match what the user searches for
  PageSize,
  Viewport     \* rows that PageUp and PageDown move by

VARIABLES
  rows,        \* ids of the rows the product passes
  sort, search, page,   \* state of useDataGrid
  focus,       \* focus.row: an index on the page, -1 for the header
  dom,         \* the element that has the browser's focus
  selected,    \* selectedIds
  \* History, read by no guard of the code:
  wanted,      \* the rows the user selected
  moved,       \* rows came or went since an element took the focus
  shrunk       \* a row went since the page was chosen

history == <<wanted, moved, shrunk>>
vars == <<rows, sort, search, page, focus, dom, selected, history>>

Header == 0
Nowhere == [row |-> -1, control |-> FALSE]
Cell(r) == [row |-> r, control |-> FALSE]
Control(r) == [row |-> r, control |-> TRUE]

-----------------------------------------------------------------------------
(* What is shown *)

Filtered == IF search THEN rows \cap Matching ELSE rows

(* Blank cells come last in both directions. *)
Less(q, r) ==
  /\ sort # "none" /\ Value[q] # Blank
  /\ \/ Value[r] = Blank
     \/ sort = "asc" /\ Value[q] < Value[r]
     \/ sort = "desc" /\ Value[q] > Value[r]

Before(q, r) == Less(q, r) \/ (~Less(r, q) /\ q < r)

(* Index on the page, within 0..PageSize - 1 for the rows the page shows *)
Index(r) == Cardinality({q \in Filtered : Before(q, r)}) - (page - 1) * PageSize

Shown == {r \in Filtered : Index(r) \in 0..(PageSize - 1)}

At(index) == {r \in Shown : Index(r) = index}

PageCount ==
  IF Filtered = {} THEN 1 ELSE (Cardinality(Filtered) + PageSize - 1) \div PageSize

(* -1 when the page is empty: the header *)
Last == Cardinality(Shown) - 1

-----------------------------------------------------------------------------

TypeOK ==
  /\ rows \subseteq Ids /\ selected \subseteq Ids /\ wanted \subseteq Ids
  /\ sort \in {"none", "asc", "desc"} /\ search \in BOOLEAN /\ page \in Nat \ {0}
  /\ focus \in -1..(PageSize - 1)
  /\ dom \in {Nowhere, Cell(Header), Control(Header)} \cup {Cell(r) : r \in Shown}
                                                      \cup {Control(r) : r \in Shown}
  /\ moved \in BOOLEAN /\ shrunk \in BOOLEAN

Init ==
  /\ rows \in SUBSET Ids
  /\ sort = "none" /\ search = FALSE /\ page = 1
  /\ focus = -1 /\ dom = Nowhere
  /\ selected = {} /\ wanted = {}
  /\ moved = FALSE /\ shrunk = FALSE

view == <<rows, sort, search, page, shrunk>>

(* Mutant of Registered: the index counts the header. *)
OneBelow(r) == IF r = Header THEN -1 ELSE Index(r) + 1

(* What onFocus of a cell registers, also for a control in it. *)
Registered(r) == IF r = Header THEN -1 ELSE Index(r)

TakeFocus(element) ==
  /\ dom' = element
  /\ focus' = Registered(element.row)
  /\ moved' = FALSE

(* A click on a cell, or Tab to the one that is the tab stop *)
FocusCell(r) ==
  /\ r \in Shown \cup {Header}
  /\ TakeFocus(Cell(r))
  /\ UNCHANGED <<view, selected, wanted>>

(* Enter, in a cell with a control *)
EnterControl ==
  /\ dom # Nowhere /\ ~dom.control
  /\ TakeFocus(Control(dom.row))
  /\ UNCHANGED <<view, selected, wanted>>

Escape ==
  /\ dom.control
  /\ TakeFocus(Cell(dom.row))
  /\ UNCHANGED <<view, selected, wanted>>

(* moveFocus, from the index that is remembered *)
MoveFocus(to) ==
  LET index == IF to > Last THEN Last ELSE IF to < -1 THEN -1 ELSE to
  IN  /\ dom # Nowhere /\ ~dom.control
      /\ \E r \in IF index = -1 THEN {Header} ELSE At(index) : dom' = Cell(r)
      /\ focus' = index
      /\ moved' = FALSE
      /\ UNCHANGED <<view, selected, wanted>>

Arrow == \E step \in {-1, 1} : MoveFocus(focus + step)

PageKey == \E step \in {-1, 1} : MoveFocus(focus + step * Viewport)

CtrlHome == MoveFocus(-1)

CtrlEnd == MoveFocus(Last)

-----------------------------------------------------------------------------
(* Selection *)

Toggled(set, rs) == IF rs \subseteq set THEN set \ rs ELSE set \cup rs

(* The row the key acts on is looked up by the index; the user means the   *)
(* one in focus.                                                           *)
Space ==
  /\ dom # Nowhere /\ ~dom.control /\ focus >= 0
  /\ selected' = Toggled(selected, At(focus))
  /\ wanted' = IF moved THEN selected' ELSE Toggled(wanted, {dom.row} \ {Header})
  /\ UNCHANGED <<view, focus, dom, moved>>

CheckRow(r) ==
  /\ r \in Shown
  /\ selected' = Toggled(selected, {r}) /\ wanted' = Toggled(wanted, {r})
  /\ TakeFocus(Control(r))
  /\ UNCHANGED view

CheckAll ==
  /\ selected' = Toggled(selected, Shown) /\ wanted' = Toggled(wanted, Shown)
  /\ TakeFocus(Control(Header))
  /\ UNCHANGED view

-----------------------------------------------------------------------------
(* What is shown changes *)

(* Mutant of FirstPage: the page stays. *)
SamePage == UNCHANGED <<page, shrunk>>

FirstPage == page' = 1 /\ shrunk' = FALSE

(* The button in the header cell *)
ToggleSort ==
  /\ sort' = [none |-> "asc", asc |-> "desc", desc |-> "none"][sort]
  /\ FirstPage
  /\ TakeFocus(Control(Header))
  /\ UNCHANGED <<rows, search, selected, wanted>>

(* The focus is in the input, outside the table. *)
Search ==
  /\ search' = ~search
  /\ FirstPage
  /\ dom' = Nowhere /\ moved' = FALSE
  /\ UNCHANGED <<rows, sort, focus, selected, wanted>>

(* The pager is not rendered for one page. *)
TurnPage(to) ==
  /\ PageCount > 1
  /\ to >= 1 /\ (to > page => page < PageCount)
  /\ page' = to /\ shrunk' = FALSE
  /\ dom' = Nowhere /\ moved' = FALSE
  /\ UNCHANGED <<rows, sort, search, focus, selected, wanted>>

(* The element of a row that is not shown any more loses the focus. *)
KeepDom ==
  IF dom.row > 0 /\ dom.row \notin Shown'
  THEN dom' = Nowhere /\ moved' = FALSE
  ELSE UNCHANGED dom /\ moved' = (dom.row > 0)

Insert(r) ==
  /\ r \notin rows
  /\ rows' = rows \cup {r}
  /\ UNCHANGED <<sort, search, page, shrunk, focus, selected, wanted>>
  /\ KeepDom

Delete(r) ==
  /\ r \in rows
  /\ rows' = rows \ {r}
  /\ shrunk' = TRUE
  /\ UNCHANGED <<sort, search, page, focus, selected, wanted>>
  /\ KeepDom

Next ==
  \/ \E r \in Ids \cup {Header} : FocusCell(r)
  \/ EnterControl \/ Escape
  \/ Arrow \/ PageKey \/ CtrlHome \/ CtrlEnd
  \/ Space \/ CheckAll
  \/ ToggleSort \/ Search
  \/ \E step \in {-1, 1} : TurnPage(page + step)
  \/ \E r \in Ids : CheckRow(r) \/ Insert(r) \/ Delete(r)

Spec == Init /\ [][Next]_vars

-----------------------------------------------------------------------------
(* Properties *)

(* The rows that are selected are the ones the user selected, by checkbox  *)
(* or with Space on the focused row, through any searching, sorting and    *)
(* paging.  Only Space after rows came or went under the focus is exempt:  *)
(* it acts on the row that has taken the index of the focused one.         *)
SelectedAsMeant == selected = wanted

(* When rows match, the page shows some of them: sorting, searching and    *)
(* paging never lead to an empty page.  Only after a row went can it be    *)
(* empty, since the page number stays.                                     *)
RowsAreReachable == Filtered # {} /\ Shown = {} => shrunk

(* data-grid.tsx says "One tab stop into the grid": some cell is in the    *)
(* tab order.  A search or another page leaves the index of a row that is  *)
(* not there, and no cell is.                                              *)
OneTabStop == focus <= Last
=============================================================================
