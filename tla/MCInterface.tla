---------------------------- MODULE MCInterface ----------------------------
(* Small instances for TLC of parts of the user interface that share no    *)
(* state: a behaviour is one of SearchBar, DataGrid, TreeView, Kanban or   *)
(* Calendar, and the variables of the others stay Unused.                  *)
EXTENDS Integers, FiniteSets

CONSTANTS
  Texts, NoText, Conditions, Kinds, FirstKind, NoTimer,
  Rows, Blank, Matching, PageSize, Viewport,
  MaxNodes, NoFocus,
  Cards, Columns, NoTarget,
  MonthsInYear, Week, Weeks, MinDay, MaxDay, WeekStart, Disabled,
  Unused

VARIABLES
  part,
  dom,        \* of DataGrid, TreeView and Calendar
  text, filter, typed, timer, open, draft, undone, raced,
  rows, sort, search, page, focus, selected, wanted, moved, shrunk,
  nodes, parent, expanded, focusedId, strayed,
  items, active, preview, over,
  panes, focused, isBound, cursor, pending, place, pressed, refused, swept

(* The column that sorts: two equal cells and a blank one. *)
Cells == <<2, Blank, 1, 2>>

(* A branch with a child and a leaf; a cycle with a node below it; parents *)
(* that come later in the list, and a node that is its own.                *)
Parents == {<<0, 1, 2, 1>>, <<0, 3, 2, 3>>, <<4, 4, 3, 0>>}

(* Months that differ in length, a year of two and three with chosen days. *)
Months == <<5, 6, 4, 5, 6, 3, 5, 4, 5>>

S == INSTANCE SearchBar WITH Ids <- Conditions
G == INSTANCE DataGrid WITH Ids <- Rows, Value <- Cells
T == INSTANCE TreeView WITH Hierarchies <- Parents, NoParent <- 0
B == INSTANCE Kanban
C == INSTANCE Calendar WITH Lengths <- Months

(* What stands for none is none; the fields are of known types; rows are   *)
(* numbered, have a cell each and are shown some to a page; no card is a   *)
(* column, and no target is neither; and the adapter knows the months a    *)
(* year before and after the days between the bounds.                      *)
ASSUME InterfaceAssumption ==
  /\ NoTimer \notin [text : Texts \cup {NoText}, filter : S!Filters]
  /\ Kinds \subseteq DOMAIN S!OPERATORS_BY_TYPE /\ FirstKind \in Kinds
  /\ Rows \subseteq DOMAIN Cells /\ Blank \notin Int /\ PageSize \in Nat \ {0}
  /\ Viewport \in Nat
  /\ IsFiniteSet(Cards) /\ Cards \cap Columns = {} /\ NoTarget \notin Cards \cup Columns
  /\ MinDay \in C!Days /\ MaxDay \in C!Days /\ MinDay <= MaxDay
  /\ Week \in Nat \ {0} /\ WeekStart \in Int /\ MonthsInYear \in Nat \ {0}
  /\ C!MonthOf(MinDay) - MonthsInYear \in DOMAIN Months
  /\ C!MonthOf(MaxDay) + MonthsInYear \in DOMAIN Months

ofSearch == <<text, filter, typed, timer, open, draft, undone, raced>>
ofGrid == <<rows, sort, search, page, focus, selected, wanted, moved, shrunk>>
ofTree == <<nodes, parent, expanded, focusedId, strayed>>
ofBoard == <<items, active, preview, over>>
ofCalendar == <<panes, focused, isBound, cursor, pending, place, pressed, refused, swept>>

NoSearch ==
  /\ text = Unused /\ filter = Unused /\ typed = Unused /\ timer = Unused
  /\ open = Unused /\ draft = Unused /\ undone = Unused /\ raced = Unused
NoGrid ==
  /\ rows = Unused /\ sort = Unused /\ search = Unused /\ page = Unused /\ focus = Unused
  /\ selected = Unused /\ wanted = Unused /\ moved = Unused /\ shrunk = Unused
NoTree ==
  /\ nodes = Unused /\ parent = Unused /\ expanded = Unused
  /\ focusedId = Unused /\ strayed = Unused
NoBoard == items = Unused /\ active = Unused /\ preview = Unused /\ over = Unused
NoCalendar ==
  /\ panes = Unused /\ focused = Unused /\ isBound = Unused /\ cursor = Unused
  /\ pending = Unused /\ place = Unused /\ pressed = Unused /\ refused = Unused
  /\ swept = Unused

Init ==
  \/ /\ part = "search" /\ S!Init /\ dom = Unused
     /\ NoGrid /\ NoTree /\ NoBoard /\ NoCalendar
  \/ part = "grid" /\ G!Init /\ NoSearch /\ NoTree /\ NoBoard /\ NoCalendar
  \/ part = "tree" /\ T!Init /\ NoSearch /\ NoGrid /\ NoBoard /\ NoCalendar
  \/ /\ part = "board" /\ B!Init /\ dom = Unused
     /\ NoSearch /\ NoGrid /\ NoTree /\ NoCalendar
  \/ part = "calendar" /\ C!Init /\ NoSearch /\ NoGrid /\ NoTree /\ NoBoard

-----------------------------------------------------------------------------
(* The actions of each part, one by one so that TLC counts each of them.     *)

InSearch == part = "search" /\ UNCHANGED <<part, dom, ofGrid, ofTree, ofBoard, ofCalendar>>

SearchNext ==
  \/ \E t \in Texts \cup {NoText} : InSearch /\ S!Type(t)
  \/ InSearch /\ S!Report
  \/ InSearch /\ S!Open
  \/ InSearch /\ S!Abandon
  \/ InSearch /\ S!Apply
  \/ InSearch /\ S!ClearAll
  \/ InSearch /\ S!ClearDraft
  \/ \E i \in Conditions :
       \/ InSearch /\ S!RemoveCondition(i)
       \/ InSearch /\ S!AddCondition(i)
       \/ InSearch /\ S!RemoveDraft(i)
       \/ \E field \in Kinds : InSearch /\ S!ChangeField(i, field)
       \/ \E operator \in S!OperatorNeeds : InSearch /\ S!ChangeOperator(i, operator)
       \/ \E v \in S!Values :
            \/ InSearch /\ S!EnterValue(i, v)
            \/ InSearch /\ S!EnterSecond(i, v)

InGrid == part = "grid" /\ UNCHANGED <<part, ofSearch, ofTree, ofBoard, ofCalendar>>

GridNext ==
  \/ \E r \in Rows \cup {G!Header} : InGrid /\ G!FocusCell(r)
  \/ InGrid /\ G!EnterControl
  \/ InGrid /\ G!Escape
  \/ InGrid /\ G!Arrow
  \/ InGrid /\ G!PageKey
  \/ InGrid /\ G!CtrlHome
  \/ InGrid /\ G!CtrlEnd
  \/ InGrid /\ G!Space
  \/ InGrid /\ G!CheckAll
  \/ InGrid /\ G!ToggleSort
  \/ InGrid /\ G!Search
  \/ \E step \in {-1, 1} : InGrid /\ G!TurnPage(page + step)
  \/ \E r \in Rows :
       \/ InGrid /\ G!CheckRow(r)
       \/ InGrid /\ G!Insert(r)
       \/ InGrid /\ G!Delete(r)

InTree == part = "tree" /\ UNCHANGED <<part, ofSearch, ofGrid, ofBoard, ofCalendar>>

TreeNext ==
  \/ \E n \in 1..MaxNodes :
       \/ InTree /\ T!FocusItem(n)
       \/ InTree /\ T!ClickToggle(n)
       \/ InTree /\ T!Typeahead(n)
       \/ InTree /\ T!Insert(n)
       \/ InTree /\ T!Drop(n)
  \/ InTree /\ T!Leave
  \/ InTree /\ T!Down
  \/ InTree /\ T!Up
  \/ InTree /\ T!Forward
  \/ InTree /\ T!Backward
  \/ InTree /\ T!Home
  \/ InTree /\ T!End
  \/ \E hierarchy \in Parents : InTree /\ T!Rearrange(hierarchy)

InBoard == part = "board" /\ UNCHANGED <<part, dom, ofSearch, ofGrid, ofTree, ofCalendar>>

BoardNext ==
  \/ \E id \in Cards :
       \/ InBoard /\ B!DragStart(id)
       \/ InBoard /\ B!TakeAway(id)
       \/ \E column \in Columns : InBoard /\ B!Add(id, column)
  \/ \E target \in Cards \cup Columns \cup {NoTarget} : InBoard /\ B!DragOver(target)
  \/ InBoard /\ B!DragEnd
  \/ InBoard /\ B!DragAway

InCalendar == part = "calendar" /\ UNCHANGED <<part, ofSearch, ofGrid, ofTree, ofBoard>>

CalendarNext ==
  \/ InCalendar /\ C!EnterGrid
  \/ InCalendar /\ C!Leave
  \/ InCalendar /\ C!Rerender
  \/ part = "calendar" /\ \E next \in C!Nexts :
       \/ InCalendar /\ C!MoveFocus(next)
       \/ InCalendar /\ C!PressOn(next)
  \/ \E month \in DOMAIN Months, day \in C!Days :
       \/ InCalendar /\ C!ClickDay(month, day)
       \/ InCalendar /\ C!ClickDisabled(month, day)
  \/ \E delta \in {-1, 1} : InCalendar /\ C!Page(delta)

Next == SearchNext \/ GridNext \/ TreeNext \/ BoardNext \/ CalendarNext

vars == <<part, dom, ofSearch, ofGrid, ofTree, ofBoard, ofCalendar>>
Spec == Init /\ [][Next]_vars

-----------------------------------------------------------------------------
(* The properties of the parts *)

(* SearchBar!SearchSettles: what is applied is what was typed and applied. *)
SearchSettles == part = "search" => S!SearchSettles

(* SearchBar!OnlyFinishedApplied: no half-built condition reaches a query. *)
OnlyFinishedApplied == part = "search" => S!OnlyFinishedApplied

(* DataGrid!SelectedAsMeant: the selection is what the user selected. *)
SelectedAsMeant == part = "grid" => G!SelectedAsMeant

(* TreeView!KeysActOnFocused: the keys act on the item in focus. *)
KeysActOnFocused == part = "tree" => T!KeysActOnFocused

(* Kanban!CardsLandAsShown: a card lands by the one it was dropped on.     *)
CardsLandAsShown ==
  [][part = "board" /\ active # NoTarget /\ active' = NoTarget /\ items' # items => B!Landed]_vars

(* Calendar!PlaceIsKept: the focus is where the user put it.               *)
PlaceIsKept == part = "calendar" => C!PlaceIsKept
=============================================================================
