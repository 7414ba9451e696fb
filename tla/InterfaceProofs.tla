--------------------------- MODULE InterfaceProofs ---------------------------
(***************************************************************************)
(* Proofs about the parts of the user interface in MCInterface, each for   *)
(* any texts, fields, rows, nodes, cards and days, and any sequence of     *)
(* what the user and the product may do.                                   *)
(***************************************************************************)
EXTENDS MCInterface, Sequences, FiniteSetTheorems, TLAPS

-----------------------------------------------------------------------------
(* SearchBar *)

(* A condition as the editor builds it: the operator is one of its field's, *)
(* and only a field with a list of choices has a list for a value.          *)
Built(c) ==
  /\ c \in S!Condition
  /\ c.operator \in S!OPERATORS_BY_TYPE[c.field]
  /\ c.value \in {"list", "empty list"} => c.field = "select"
  /\ c.valueTo \notin {"list", "empty list"}

(* A filter of conditions that were built, and of finished ones. *)
BuiltFilter(f) == f \in S!Filters /\ \A i \in DOMAIN f : Built(f[i])
Finished(f) == BuiltFilter(f) /\ \A i \in DOMAIN f : S!IsComplete(f[i])

(* The draft may be half built; what is applied, or was when a pending     *)
(* report was made, is not.                                                *)
FilterOK ==
  /\ Finished(filter) /\ BuiltFilter(draft)
  /\ timer # NoTimer => Finished(timer.filter)

(* A pending report has the text that shows, and an older filter only when *)
(* the filter changed while it was pending. *)
ReportOK ==
  /\ timer # NoTimer => /\ timer \in [text : Texts \cup {NoText}, filter : S!Filters]
                        /\ timer.text = typed
                        /\ timer.filter # filter => raced
  /\ timer = NoTimer => text = typed
  /\ undone => raced
  /\ typed \in Texts \cup {NoText} /\ undone \in BOOLEAN /\ raced \in BOOLEAN

SearchInv == FilterOK /\ ReportOK

(* Fewer conditions are a filter too. *)
LEMMA FewerAre ==
  ASSUME NEW f, BuiltFilter(f), NEW X \in SUBSET DOMAIN f
  PROVE  /\ BuiltFilter(S!Restrict(f, X))
         /\ DOMAIN S!Restrict(f, X) = X
         /\ \A i \in X : S!Restrict(f, X)[i] = f[i]
<1>1. PICK D \in SUBSET Conditions : f \in [D -> S!Condition]
  BY DEF BuiltFilter, S!Filters
<1>2. S!Restrict(f, X) \in [X -> S!Condition] /\ X \in SUBSET Conditions
  BY <1>1 DEF S!Restrict
<1>3. S!Restrict(f, X) \in S!Filters
  BY <1>2 DEF S!Filters
<1>4. DOMAIN S!Restrict(f, X) = X /\ \A i \in X : S!Restrict(f, X)[i] = f[i]
  BY DEF S!Restrict
<1>5. QED
  BY <1>3, <1>4 DEF BuiltFilter

(* So is one with a condition added or changed. *)
LEMMA MoreAre ==
  ASSUME NEW f, BuiltFilter(f), NEW i \in Conditions, NEW c, Built(c),
         NEW g, g = [j \in DOMAIN f \cup {i} |-> IF j = i THEN c ELSE f[j]]
  PROVE  BuiltFilter(g)
<1>1. PICK D \in SUBSET Conditions : f \in [D -> S!Condition]
  BY DEF BuiltFilter, S!Filters
<1>2. g \in [D \cup {i} -> S!Condition]
  BY <1>1 DEF Built
<1>3. g \in S!Filters
  BY <1>2 DEF S!Filters
<1>4. \A j \in DOMAIN g : Built(g[j])
  BY DEF BuiltFilter
<1>5. QED
  BY <1>3, <1>4 DEF BuiltFilter

(* No condition is a filter, and a finished one. *)
LEMMA EmptyIs == Finished(S!Empty)
<1>1. S!Empty \in [{} -> S!Condition] /\ DOMAIN S!Empty = {}
  BY DEF S!Empty
<1>2. S!Empty \in S!Filters
  BY <1>1 DEF S!Filters
<1>3. QED
  BY <1>1, <1>2 DEF Finished, BuiltFilter

(* What is applied of a draft is finished. *)
LEMMA PrunedAre ==
  ASSUME NEW f, BuiltFilter(f)
  PROVE  Finished(S!Pruned(f))
<1> DEFINE X == {i \in DOMAIN f : S!IsComplete(f[i])}
<1>1. /\ BuiltFilter(S!Restrict(f, X)) /\ DOMAIN S!Restrict(f, X) = X
      /\ \A i \in X : S!Restrict(f, X)[i] = f[i]
  BY FewerAre
<1>2. \A i \in DOMAIN S!Restrict(f, X) : S!IsComplete(S!Restrict(f, X)[i])
  BY <1>1
<1>3. QED
  BY <1>1, <1>2 DEF Finished, S!Pruned

(* A condition starts with the first operator of its field and no value. *)
LEMMA SeededAre ==
  ASSUME NEW field \in Kinds
  PROVE  Built(S!Seeded(field))
BY InterfaceAssumption
   DEF Built, S!Seeded, S!FirstOperator, S!Condition, S!OPERATORS_BY_TYPE, S!OperatorNeeds,
       S!Values

(* Only a field with a list of choices takes a list. *)
LEMMA ListsAreSelected ==
  ASSUME NEW field \in Kinds, "multi" \in S!OPERATORS_BY_TYPE[field]
  PROVE  field = "select"
<1>1. field \in {"text", "number", "date", "select", "boolean"}
  BY InterfaceAssumption DEF S!OPERATORS_BY_TYPE
<1>2. QED
  BY <1>1 DEF S!OPERATORS_BY_TYPE

(* A filter is changed to a finished one. *)
LEMMA ChangedFilter ==
  ASSUME SearchInv, NEW f, Finished(f), S!ChangeFilter(f), BuiltFilter(draft')
  PROVE  SearchInv'
<1>1. FilterOK'
  BY DEF SearchInv, FilterOK, S!ChangeFilter
<1>2. ReportOK'
  BY DEF SearchInv, ReportOK, S!ChangeFilter, S!KeepText
<1>3. QED
  BY <1>1, <1>2 DEF SearchInv

(* A draft is changed to another. *)
LEMMA EditedDraft ==
  ASSUME SearchInv, NEW f, BuiltFilter(f), S!Edit(f)
  PROVE  SearchInv'
BY DEF SearchInv, FilterOK, ReportOK, S!Edit, S!value, S!history

(* A condition of the draft is changed. *)
LEMMA EditedCondition ==
  ASSUME SearchInv, NEW i \in DOMAIN draft, NEW c, Built(c), S!EditCondition(i, c)
  PROVE  SearchInv'
<1> DEFINE g == [draft EXCEPT ![i] = c]
<1>1. PICK D \in SUBSET Conditions : draft \in [D -> S!Condition]
  BY DEF SearchInv, FilterOK, BuiltFilter, S!Filters
<1>2. g = [j \in DOMAIN draft \cup {i} |-> IF j = i THEN c ELSE draft[j]] /\ i \in Conditions
  BY <1>1
<1>3. BuiltFilter(g)
  BY <1>2, MoreAre DEF SearchInv, FilterOK
<1>4. S!Edit(g)
  BY DEF S!EditCondition
<1>5. QED
  BY <1>3, <1>4, EditedDraft

(* Nothing is typed or applied when the bar is mounted. *)
LEMMA SearchStart == S!Init => SearchInv
BY EmptyIs DEF S!Init, SearchInv, FilterOK, ReportOK, Finished

(* Every input, pause, click and edit keeps the invariant. *)
LEMMA SearchStep ==
  ASSUME SearchInv, S!Next
  PROVE  SearchInv'
<1>1. ASSUME NEW t \in Texts \cup {NoText}, S!Type(t) PROVE SearchInv'
  <2>1. timer' = [text |-> t, filter |-> filter] /\ filter \in S!Filters
    BY <1>1 DEF S!Type, SearchInv, FilterOK, Finished, BuiltFilter
  <2>2. timer' \in [text : Texts \cup {NoText}, filter : S!Filters]
    BY <2>1
  <2>3. timer' # NoTimer /\ timer'.text = t /\ timer'.filter = filter
    BY <2>1, <2>2, InterfaceAssumption
  <2>4. UNCHANGED <<text, filter, draft, undone, raced>> /\ typed' = t
    BY <1>1 DEF S!Type, S!value, S!popover, S!history
  <2>5. QED
    BY <2>2, <2>3, <2>4 DEF SearchInv, FilterOK, ReportOK
<1>2. ASSUME S!Report PROVE SearchInv'
  BY <1>2 DEF S!Report, S!popover, SearchInv, FilterOK, ReportOK
<1>3. ASSUME S!Open PROVE SearchInv'
  BY <1>3 DEF S!Open, S!value, S!history, SearchInv, FilterOK, ReportOK, Finished
<1>4. ASSUME S!Abandon PROVE SearchInv'
  BY <1>4 DEF S!Abandon, S!value, S!history, SearchInv, FilterOK, ReportOK
<1>5. ASSUME S!Apply PROVE SearchInv'
  <2>1. Finished(S!Pruned(draft)) /\ BuiltFilter(draft')
    BY <1>5, PrunedAre DEF S!Apply, SearchInv, FilterOK
  <2>2. QED
    BY <1>5, <2>1, ChangedFilter DEF S!Apply
<1>6. ASSUME S!ClearAll PROVE SearchInv'
  BY <1>6, EmptyIs, ChangedFilter DEF S!ClearAll, Finished
<1>7. ASSUME NEW i \in Conditions, S!RemoveCondition(i) PROVE SearchInv'
  <2>1. Finished(S!Without(filter, i))
    BY FewerAre DEF S!Without, SearchInv, FilterOK, Finished
  <2>2. S!ChangeFilter(S!Without(filter, i)) /\ draft' = S!Without(filter, i)
    BY <1>7 DEF S!RemoveCondition, S!ChangeFilter
  <2>3. QED
    BY <2>1, <2>2, ChangedFilter DEF Finished
<1>8. ASSUME S!EditDraft PROVE SearchInv'
  <2>1. CASE S!ClearDraft
    BY <2>1, EmptyIs, EditedDraft DEF S!ClearDraft, Finished
  <2>2. ASSUME NEW i \in Conditions, S!AddCondition(i) PROVE SearchInv'
    <3> DEFINE g == [j \in DOMAIN draft \cup {i} |-> IF j = i THEN S!Seeded(FirstKind) ELSE draft[j]]
    <3>1. BuiltFilter(g)
      BY InterfaceAssumption, SeededAre, MoreAre DEF SearchInv, FilterOK
    <3>2. S!Edit(g)
      BY <2>2 DEF S!AddCondition
    <3>3. QED
      BY <3>1, <3>2, EditedDraft
  <2>3. ASSUME NEW i \in Conditions, S!RemoveDraft(i) PROVE SearchInv'
    <3>1. BuiltFilter(S!Without(draft, i))
      BY FewerAre DEF S!Without, SearchInv, FilterOK
    <3>2. QED
      BY <2>3, <3>1, EditedDraft DEF S!RemoveDraft
  <2>4. ASSUME NEW i \in Conditions, NEW field \in Kinds, S!ChangeField(i, field)
        PROVE  SearchInv'
    BY <2>4, SeededAre, EditedCondition DEF S!ChangeField
  <2>5. ASSUME NEW i \in Conditions, NEW operator \in S!OperatorNeeds,
               S!ChangeOperator(i, operator)
        PROVE  SearchInv'
    <3> DEFINE c == [draft[i] EXCEPT !.operator = operator, !.valueTo = "unset"]
    <3>1. i \in DOMAIN draft /\ operator \in S!OPERATORS_BY_TYPE[draft[i].field]
      BY <2>5 DEF S!ChangeOperator
    <3>2. Built(draft[i])
      BY <3>1 DEF SearchInv, FilterOK, BuiltFilter
    <3>3. Built(c)
      BY <3>1, <3>2 DEF Built, S!Condition, S!Values
    <3>4. QED
      BY <2>5, <3>1, <3>3, EditedCondition DEF S!ChangeOperator
  <2>6. ASSUME NEW i \in Conditions, NEW v \in S!Values, S!EnterValue(i, v) PROVE SearchInv'
    <3> DEFINE c == [draft[i] EXCEPT !.value = v]
    <3>1. i \in DOMAIN draft /\ v \in S!Entered(draft[i].field, draft[i].operator)
      BY <2>6 DEF S!EnterValue
    <3>2. Built(draft[i])
      BY <3>1 DEF SearchInv, FilterOK, BuiltFilter
    <3>3. draft[i].field \in Kinds /\ (draft[i].operator = "multi" => draft[i].field = "select")
      BY <3>2, ListsAreSelected DEF Built, S!Condition
    <3>4. v \in {"list", "empty list"} => draft[i].operator = "multi"
      BY <3>1 DEF S!Entered
    <3>5. Built(c)
      BY <3>2, <3>3, <3>4 DEF Built, S!Condition
    <3>6. QED
      BY <2>6, <3>1, <3>5, EditedCondition DEF S!EnterValue
  <2>7. ASSUME NEW i \in Conditions, NEW v \in S!Values, S!EnterSecond(i, v) PROVE SearchInv'
    <3> DEFINE c == [draft[i] EXCEPT !.valueTo = v]
    <3>1. i \in DOMAIN draft /\ v \in S!Entered(draft[i].field, "between")
      BY <2>7 DEF S!EnterSecond
    <3>2. Built(draft[i])
      BY <3>1 DEF SearchInv, FilterOK, BuiltFilter
    <3>3. v \notin {"list", "empty list"}
      BY <3>1 DEF S!Entered
    <3>4. Built(c)
      BY <3>2, <3>3 DEF Built, S!Condition
    <3>5. QED
      BY <2>7, <3>1, <3>4, EditedCondition DEF S!EnterSecond
  <2>8. QED
    BY <1>8, <2>1, <2>2, <2>3, <2>4, <2>5, <2>6, <2>7 DEF S!EditDraft
<1>9. QED
  BY <1>1, <1>2, <1>3, <1>4, <1>5, <1>6, <1>7, <1>8 DEF S!Next

(* The steps of MCInterface that are steps of SearchBar. *)
LEMMA SearchMoves == SearchNext => part' = part /\ part = "search" /\ S!Next
BY DEF SearchNext, InSearch, S!Next, S!EditDraft, S!ClearDraft

(* What is left alone keeps the invariant. *)
LEMMA SearchRest ==
  ASSUME SearchInv, UNCHANGED ofSearch
  PROVE  SearchInv'
BY DEF SearchInv, FilterOK, ReportOK, ofSearch

(* A finished report is what was typed. *)
LEMMA SearchEnds == SearchInv => S!SearchSettles
BY DEF SearchInv, ReportOK, S!SearchSettles

(* What was built and is finished looks finished, but for a number that    *)
(* was cleared and a list that is left over. *)
LEMMA FinishedShows ==
  ASSUME NEW c, Built(c), S!IsComplete(c)
  PROVE  \/ S!Shown(c)
         \/ "NaN" \in {c.value, c.valueTo}
         \/ c.operator = "single" /\ c.value \in {"list", "empty list"}
<1>1. /\ c.field \in {"text", "number", "date", "select", "boolean"}
      /\ c.operator \in {"none", "multi", "single", "between"}
      /\ c.value \in {"unset", "blank", "NaN", "one", "list", "empty list"}
      /\ c.valueTo \in {"unset", "blank", "NaN", "one"}
  BY InterfaceAssumption
     DEF Built, S!Condition, S!OperatorNeeds, S!Values, S!OPERATORS_BY_TYPE
<1>2. CASE c.operator = "none"
  BY <1>2 DEF S!Shown
<1>3. CASE c.operator = "multi"
  BY <1>3 DEF S!Shown, S!IsComplete
<1>4. CASE c.operator = "single"
  BY <1>1, <1>4 DEF S!Shown, S!IsComplete
<1>5. CASE c.operator = "between"
  <2>1. c.operator \in S!OPERATORS_BY_TYPE[c.field]
    BY DEF Built
  <2>2. c.field # "select"
    BY <1>5, <2>1 DEF S!OPERATORS_BY_TYPE
  <2>3. c.value \notin {"list", "empty list"}
    BY <2>2 DEF Built
  <2>4. QED
    BY <1>1, <1>5, <2>3 DEF S!Shown, S!IsComplete
<1>6. QED
  BY <1>1, <1>2, <1>3, <1>4, <1>5

(* So is what is applied. *)
LEMMA AppliedIsFinished == SearchInv => S!OnlyFinishedApplied
BY FinishedShows DEF SearchInv, FilterOK, Finished, BuiltFilter, S!OnlyFinishedApplied

-----------------------------------------------------------------------------
(* TreeView *)

(* Unless a step to a parent that is not there was tried, an item that has *)
(* the browser's focus is shown, and is the one that is remembered. *)
TreeInv == dom.item /\ ~strayed => dom.node = focusedId /\ dom.node \in T!ToSet(T!Visible)

(* Visible, of any list and any nodes expanded. *)
VisibleOf(ns, par, ex) ==
  LET top(n) == par[n] \notin ns \ {n}
      below(n) == {c \in ns : par[c] = n /\ ~top(c)}
      walk[depth \in 0..MaxNodes, these \in SUBSET ns] ==
        IF depth = 0 THEN <<>>
        ELSE LET each == T!SelectSeq([i \in 1..MaxNodes |-> i], LAMBDA n : n \in these)
             IN  T!FlattenSeq([i \in DOMAIN each |->
                   <<each[i]>> \o walk[depth - 1, IF each[i] \in ex THEN below(each[i]) ELSE {}]])
  IN  walk[MaxNodes, {n \in ns : top(n)}]

(* What is shown depends on the list and on what is expanded. *)
LEMMA VisibleIs == T!Visible = VisibleOf(nodes, parent, expanded)
BY DEF VisibleOf, T!Visible, T!InListOrder, T!Roots, T!IsRoot, T!Children, T!Ids

(* It stays when these do. *)
LEMMA VisibleStays ==
  ASSUME UNCHANGED <<nodes, parent, expanded>>
  PROVE  T!Visible' = T!Visible
<1>1. (T!Visible = VisibleOf(nodes, parent, expanded))'
  BY VisibleIs, PTL
<1>2. T!Visible' = VisibleOf(nodes', parent', expanded')
  BY <1>1
<1>3. QED
  BY <1>2, VisibleIs

(* Nothing has the focus at first. *)
LEMMA TreeStart == T!Init => TreeInv
BY DEF T!Init, TreeInv, T!Nowhere

(* An element takes the focus and is remembered, *)
LEMMA FocusedItem ==
  ASSUME NEW n, T!FocusItem(n)
  PROVE  TreeInv'
<1>1. T!Visible' = T!Visible
  BY VisibleStays DEF T!FocusItem, T!list
<1>2. QED
  BY <1>1 DEF T!FocusItem, T!Item, T!Claimed, TreeInv

(* unless there is none, *)
LEMMA FocusedNode ==
  ASSUME TreeInv, NEW n, T!FocusNode(n)
  PROVE  TreeInv'
<1>1. CASE n \in T!ToSet(T!Visible)
  BY <1>1, FocusedItem DEF T!FocusNode
<1>2. CASE n \notin T!ToSet(T!Visible)
  BY <1>2 DEF T!FocusNode, TreeInv
<1>3. QED
  BY <1>1, <1>2

(* and keeps the focus for as long as it is rendered. *)
LEMMA KeptDom ==
  ASSUME TreeInv, T!KeepDom, UNCHANGED focusedId,
         strayed' = strayed \/ strayed' = (strayed /\ dom' # T!Nowhere)
  PROVE  TreeInv'
<1> SUFFICES ASSUME dom'.item, ~strayed'
             PROVE  dom'.node = focusedId' /\ dom'.node \in T!ToSet(T!Visible')
  BY DEF TreeInv
<1>1. PICK shown : shown = T!ToSet(T!Visible')
  OBVIOUS
<1>2. dom' = IF dom.node \in shown THEN dom ELSE T!Nowhere
  BY <1>1 DEF T!KeepDom
<1>3. T!Nowhere.item = FALSE
  BY DEF T!Nowhere
<1>4. dom' = dom /\ dom.node \in shown /\ dom # T!Nowhere
  BY <1>2, <1>3
<1>5. ~strayed
  BY <1>4
<1>6. dom.node = focusedId
  BY <1>4, <1>5 DEF TreeInv
<1>7. QED
  BY <1>1, <1>4, <1>6

(* Every click, key and change of the list keeps the invariant. *)
LEMMA TreeStep ==
  ASSUME TreeInv, T!Next
  PROVE  TreeInv'
<1>1. ASSUME NEW n \in T!Ids, T!FocusItem(n) PROVE TreeInv'
  BY <1>1, FocusedItem
<1>2. ASSUME NEW n \in T!Ids, T!ClickToggle(n) PROVE TreeInv'
  BY <1>2 DEF T!ClickToggle, T!ToggleButton, TreeInv
<1>3. ASSUME NEW n \in T!Ids, T!Typeahead(n) PROVE TreeInv'
  BY <1>3, FocusedNode DEF T!Typeahead
<1>4. CASE T!Leave
  BY <1>4 DEF T!Leave, T!Nowhere, TreeInv
<1>5. CASE T!Down
  BY <1>5, FocusedNode DEF T!Down
<1>6. CASE T!Up
  BY <1>6, FocusedNode DEF T!Up
<1>7. CASE T!Forward
  <2>1. CASE T!ActiveId \in expanded
    BY <1>7, <2>1, FocusedNode DEF T!Forward
  <2>2. CASE T!ActiveId \notin expanded
    BY <1>7, <2>2, KeptDom DEF T!Forward, T!Toggle
  <2>3. QED
    BY <2>1, <2>2
<1>8. CASE T!Backward
  <2>1. CASE T!Children(T!ActiveId) # {} /\ T!ActiveId \in expanded
    BY <1>8, <2>1, KeptDom DEF T!Backward, T!Toggle
  <2>2. CASE ~(T!Children(T!ActiveId) # {} /\ T!ActiveId \in expanded)
    BY <1>8, <2>2, FocusedNode DEF T!Backward
  <2>3. QED
    BY <2>1, <2>2
<1>9. CASE T!Home
  BY <1>9, FocusedNode DEF T!Home
<1>10. CASE T!End
  BY <1>10, FocusedNode DEF T!End
<1>11. ASSUME NEW ns, NEW hierarchy, T!Load(ns, hierarchy) PROVE TreeInv'
  BY <1>11, KeptDom DEF T!Load
<1>12. QED
  BY <1>1, <1>2, <1>3, <1>4, <1>5, <1>6, <1>7, <1>8, <1>9, <1>10, <1>11
     DEF T!Next, T!Insert, T!Drop, T!Rearrange

(* The steps of MCInterface that are steps of TreeView. *)
LEMMA TreeMoves == TreeNext => part' = part /\ part = "tree" /\ T!Next
BY DEF TreeNext, InTree, T!Next, T!Ids

(* What is left alone keeps the invariant. *)
LEMMA TreeRest ==
  ASSUME TreeInv, UNCHANGED <<dom, ofTree>>
  PROVE  TreeInv'
<1>1. T!Visible' = T!Visible
  BY VisibleStays DEF ofTree
<1>2. QED
  BY <1>1 DEF TreeInv, ofTree

(* The keys act on the item that has the focus. *)
LEMMA KeysAct == TreeInv => T!KeysActOnFocused
BY DEF TreeInv, T!KeysActOnFocused, T!ActiveId

-----------------------------------------------------------------------------
(* DataGrid *)

(* The grid is of rows, sorted somehow, and shows a page. *)
GridOK ==
  /\ rows \subseteq Rows
  /\ sort \in {"none", "asc", "desc"}
  /\ page \in Int /\ focus \in Int
  /\ dom.row \in Rows \cup {-1, 0}
  /\ dom.row = -1 => dom = G!Nowhere

(* An element of a row that has the focus is shown; and unless rows came   *)
(* or went under it, the index that is remembered is its own, or the       *)
(* header's. *)
FocusOK ==
  /\ dom.row > 0 => dom.row \in G!Shown
  /\ moved => dom.row > 0
  /\ ~moved /\ dom.row > 0 => focus = G!Index(dom.row)
  /\ dom.row = 0 => focus = -1

GridInv == GridOK /\ FocusOK /\ selected = wanted

(* Rows are numbers, and a cell is a number or blank. *)
LEMMA CellsAre ==
  /\ \A r \in Rows : r \in Nat /\ r > 0 /\ r <= 4
  /\ \A r \in Rows : Cells[r] # Blank => Cells[r] \in Int
BY InterfaceAssumption DEF Cells

(* The order of the rows is total and strict. *)
LEMMA OrderIsStrict ==
  ASSUME GridOK, NEW p \in Rows, NEW q \in Rows, NEW r \in Rows
  PROVE  /\ ~G!Before(p, p)
         /\ p # q => G!Before(p, q) \/ G!Before(q, p)
         /\ G!Before(p, q) /\ G!Before(q, r) => G!Before(p, r)
<1> DEFINE a == Cells[p]
           b == Cells[q]
           c == Cells[r]
<1>1. /\ p \in Int /\ q \in Int /\ r \in Int
      /\ a = Blank \/ a \in Int
      /\ b = Blank \/ b \in Int
      /\ c = Blank \/ c \in Int
      /\ Blank \notin Int
  BY CellsAre, InterfaceAssumption
<1> HIDE DEF a, b, c
<1>2. CASE sort = "none"
  BY <1>1, <1>2 DEF G!Before, G!Less
<1>3. CASE sort = "asc"
  BY <1>1, <1>3 DEF G!Before, G!Less, a, b, c
<1>4. CASE sort = "desc"
  BY <1>1, <1>4 DEF G!Before, G!Less, a, b, c
<1>5. QED
  BY <1>2, <1>3, <1>4 DEF GridOK

(* How many rows come before another. *)
Ahead(r) == {q \in G!Filtered : G!Before(q, r)}

(* The index of a row by the rows ahead of it and the page. *)
IndicesAre == \A r : G!Index(r) = Cardinality(Ahead(r)) - (page - 1) * PageSize

(* An index counts the rows ahead and leaves out the pages before. *)
LEMMA IndexIs == IndicesAre
<1> SUFFICES ASSUME NEW r
             PROVE  G!Index(r) = Cardinality(Ahead(r)) - (page - 1) * PageSize
  BY DEF IndicesAre
<1>1. G!Cardinality(Ahead(r)) = Cardinality(Ahead(r))
  BY DEF G!Cardinality, Cardinality
<1>2. QED
  BY <1>1 DEF G!Index, Ahead

(* So two rows have two indices. *)
LEMMA IndicesDiffer ==
  ASSUME GridOK, NEW q \in G!Filtered, NEW r \in G!Filtered, q # r
  PROVE  G!Index(q) # G!Index(r)
<1>1. G!Filtered \subseteq Rows /\ IsFiniteSet(G!Filtered)
  <2>1. G!Filtered \subseteq Rows
    BY DEF G!Filtered, GridOK
  <2>2. G!Filtered \in SUBSET Nat /\ (\A s \in G!Filtered : s <= 4) /\ 4 \in Nat
    BY <2>1, CellsAre
  <2>3. QED
    BY <2>1, <2>2, FS_BoundedSetOfNaturals
<1>2. ASSUME NEW x \in G!Filtered, NEW y \in G!Filtered, G!Before(x, y)
      PROVE  G!Index(x) < G!Index(y)
  <2> DEFINE X == {p \in G!Filtered : G!Before(p, x)}
             Y == {p \in G!Filtered : G!Before(p, y)}
  <2>1. IsFiniteSet(X) /\ IsFiniteSet(Y)
    BY <1>1, FS_Subset
  <2>2. X \subseteq Y
    BY <1>1, <1>2, OrderIsStrict
  <2>3. x \in Y /\ x \notin X
    BY <1>1, <1>2, OrderIsStrict
  <2>4. Cardinality(X) \in Nat /\ Cardinality(Y) \in Nat
    BY <2>1, FS_CardinalityType
  <2>5. Cardinality(X) < Cardinality(Y)
    BY <2>1, <2>2, <2>3, <2>4, FS_Subset
  <2>6. /\ G!Index(x) = Cardinality(X) - (page - 1) * PageSize
        /\ G!Index(y) = Cardinality(Y) - (page - 1) * PageSize
    BY IndexIs DEF IndicesAre, Ahead
  <2> HIDE DEF X, Y
  <2>7. (page - 1) * PageSize \in Int
    BY InterfaceAssumption DEF GridOK
  <2>8. QED
    BY <2>4, <2>5, <2>6, <2>7
<1>3. \A x \in G!Filtered : G!Index(x) \in Int
  <2> TAKE x \in G!Filtered
  <2>1. Cardinality(Ahead(x)) \in Nat
    BY <1>1, FS_Subset, FS_CardinalityType DEF Ahead
  <2>2. (page - 1) * PageSize \in Int
    BY InterfaceAssumption DEF GridOK
  <2>3. QED
    BY <2>1, <2>2, IndexIs DEF IndicesAre
<1>4. G!Before(q, r) \/ G!Before(r, q)
  BY <1>1, OrderIsStrict
<1>5. QED
  BY <1>2, <1>3, <1>4

(* The row at the index of the one in focus is that row. *)
LEMMA AtIsOne ==
  ASSUME GridOK, NEW r \in G!Shown
  PROVE  G!At(G!Index(r)) = {r} /\ G!Index(r) \in Nat
<1>1. \A q \in G!Shown : q \in G!Filtered
  BY DEF G!Shown
<1>2. \A q \in G!Shown : G!Index(q) = G!Index(r) => q = r
  BY <1>1, IndicesDiffer
<1>3. QED
  BY <1>2, InterfaceAssumption DEF G!At, G!Shown

(* What the page shows depends on the rows, the order, the search and the  *)
(* page. *)
LEMMA PageStays ==
  ASSUME UNCHANGED <<rows, sort, search, page>>
  PROVE  (\A r : G!Index(r)' = G!Index(r)) /\ G!Shown' = G!Shown
<1>1. G!Filtered' = G!Filtered
  BY DEF G!Filtered
<1>2. ASSUME NEW r PROVE G!Index(r)' = G!Index(r)
  <2>1. (G!Index(r) = Cardinality(Ahead(r)) - (page - 1) * PageSize)'
    <3>1. IndicesAre'
      BY IndexIs, PTL
    <3>2. QED
      BY <3>1 DEF IndicesAre
  <2>2. \A q : G!Before(q, r)' <=> G!Before(q, r)
    BY DEF G!Before, G!Less
  <2>3. Ahead(r)' = Ahead(r)
    BY <1>1, <2>2 DEF Ahead
  <2>4. G!Index(r)' = Cardinality(Ahead(r)') - (page' - 1) * PageSize
    BY <2>1
  <2>5. QED
    BY <2>3, <2>4, IndexIs DEF IndicesAre
<1>3. G!Shown' = G!Shown
  BY <1>1, <1>2 DEF G!Shown
<1>4. QED
  BY <1>2, <1>3

(* Nothing has the focus and nothing is selected at first. *)
LEMMA GridStart == G!Init => GridInv
BY DEF G!Init, GridInv, GridOK, FocusOK, G!Nowhere

(* The element of a row of the page, or of the header, takes the focus. *)
LEMMA TakenFocus ==
  ASSUME GridInv, NEW element, element.row \in G!Shown \cup {0}, G!TakeFocus(element),
         UNCHANGED <<rows, sort, search, page>>
  PROVE  GridOK' /\ FocusOK'
<1>1. G!Shown' = G!Shown /\ \A r : G!Index(r)' = G!Index(r)
  BY PageStays
<1>2. dom' = element /\ moved' = FALSE /\ focus' = G!Registered(element.row)
  BY DEF G!TakeFocus
<1>3. \A r \in G!Shown : r \in Rows /\ r \in Int /\ r > 0 /\ G!Index(r) \in Nat
  BY CellsAre, AtIsOne DEF G!Shown, G!Filtered, GridInv, GridOK
<1>4. CASE element.row = 0
  BY <1>2, <1>4 DEF GridInv, GridOK, FocusOK, G!Registered, G!Header
<1>5. CASE element.row \in G!Shown /\ element.row # 0
  <2>1. focus' = G!Index(element.row)
    BY <1>2, <1>5 DEF G!Registered, G!Header
  <2>2. GridOK'
    BY <1>2, <1>3, <1>5, <2>1 DEF GridInv, GridOK
  <2>3. FocusOK'
    BY <1>1, <1>2, <1>3, <1>5, <2>1 DEF FocusOK
  <2>4. QED
    BY <2>2, <2>3
<1>6. QED
  BY <1>4, <1>5

(* A key leads to the element at an index, which is remembered. *)
LEMMA MovedFocus ==
  ASSUME GridInv, NEW to \in Int, G!MoveFocus(to), G!Last \in Int
  PROVE  GridInv'
<1> DEFINE index == IF to > G!Last THEN G!Last ELSE IF to < -1 THEN -1 ELSE to
<1>1. /\ \E r \in IF index = -1 THEN {G!Header} ELSE G!At(index) : dom' = G!Cell(r)
      /\ focus' = index /\ moved' = FALSE
      /\ UNCHANGED <<rows, sort, search, page, selected, wanted>>
  BY DEF G!MoveFocus, G!view
<1>2. index \in Int
  OBVIOUS
<1> HIDE DEF index
<1>3. G!Shown' = G!Shown /\ \A r : G!Index(r)' = G!Index(r)
  BY <1>1, PageStays
<1>4. \A r \in G!Shown : r \in Rows /\ r \in Int /\ r > 0
  BY CellsAre DEF G!Shown, G!Filtered, GridInv, GridOK
<1>5. CASE index = -1
  <2>1. dom'.row = 0 /\ dom' # G!Nowhere
    BY <1>1, <1>5 DEF G!Cell, G!Header, G!Nowhere
  <2>2. QED
    BY <1>1, <1>5, <2>1 DEF GridInv, GridOK, FocusOK
<1>6. CASE index # -1
  <2>1. PICK r \in G!At(index) : dom' = G!Cell(r)
    BY <1>1, <1>6
  <2>2. r \in G!Shown /\ G!Index(r) = index /\ dom'.row = r
    BY <2>1 DEF G!At, G!Cell
  <2>3. GridOK'
    BY <1>1, <1>2, <1>4, <2>2 DEF GridInv, GridOK
  <2>4. FocusOK'
    BY <1>1, <1>3, <1>4, <2>2 DEF FocusOK
  <2>5. QED
    BY <1>1, <2>3, <2>4 DEF GridInv
<1>7. QED
  BY <1>5, <1>6

(* The focus stays on its element while rows come and go, or is gone. *)
LEMMA KeptFocus ==
  ASSUME GridInv, G!KeepDom, rows' \subseteq Rows,
         UNCHANGED <<sort, search, page, focus, selected, wanted>>
  PROVE  GridInv'
<1>1. PICK shown : shown = G!Shown'
  OBVIOUS
<1>2. IF dom.row > 0 /\ dom.row \notin shown
      THEN dom' = G!Nowhere /\ moved' = FALSE
      ELSE dom' = dom /\ moved' = (dom.row > 0)
  BY <1>1 DEF G!KeepDom
<1>3. G!Nowhere.row = -1
  BY DEF G!Nowhere
<1>4. dom.row \in Int
  BY CellsAre DEF GridInv, GridOK
<1>5. CASE dom.row > 0 /\ dom.row \notin shown
  BY <1>2, <1>3, <1>5 DEF GridInv, GridOK, FocusOK
<1>6. CASE ~(dom.row > 0 /\ dom.row \notin shown)
  <2>1. dom' = dom /\ moved' = (dom.row > 0)
    BY <1>2, <1>6
  <2>2. GridOK'
    BY <2>1 DEF GridInv, GridOK
  <2>3. dom'.row > 0 => dom'.row \in G!Shown'
    BY <1>1, <1>6, <2>1
  <2>4. FocusOK'
    BY <2>1, <2>3 DEF GridInv, FocusOK
  <2>5. QED
    BY <2>2, <2>4 DEF GridInv
<1>7. QED
  BY <1>5, <1>6

(* There is a last index. *)
LEMMA LastIs == ASSUME GridOK PROVE G!Last \in Int
<1>1. G!Shown \in SUBSET Nat /\ (\A s \in G!Shown : s <= 4) /\ 4 \in Nat
  BY CellsAre DEF G!Shown, G!Filtered, GridOK
<1>2. IsFiniteSet(G!Shown)
  BY <1>1, FS_BoundedSetOfNaturals
<1>3. Cardinality(G!Shown) \in Nat
  BY <1>2, FS_CardinalityType
<1>4. G!Cardinality(G!Shown) = Cardinality(G!Shown)
  BY DEF G!Cardinality, Cardinality
<1>5. QED
  BY <1>3, <1>4 DEF G!Last

(* Every click and key, and every row that comes or goes, keeps the        *)
(* invariant. *)
LEMMA GridStep ==
  ASSUME GridInv, G!Next
  PROVE  GridInv'
<1> USE DEF G!Header
<1>1. G!Last \in Int /\ focus \in Int /\ Viewport \in Int /\ page \in Int
  BY LastIs, InterfaceAssumption DEF GridInv, GridOK
<1>2. dom.row \in Int /\ (dom # G!Nowhere => dom.row \in G!Shown \cup {0})
  BY CellsAre DEF GridInv, GridOK, FocusOK
<1>3. ASSUME NEW r \in Rows \cup {0}, G!FocusCell(r) PROVE GridInv'
  <2>1. G!Cell(r).row = r
    BY DEF G!Cell
  <2>2. QED
    BY <1>3, <2>1, TakenFocus DEF G!FocusCell, G!view, GridInv
<1>4. CASE G!EnterControl
  <2>1. G!Control(dom.row).row = dom.row
    BY DEF G!Control
  <2>2. QED
    BY <1>2, <1>4, <2>1, TakenFocus DEF G!EnterControl, G!view, GridInv
<1>5. CASE G!Escape
  <2>1. G!Cell(dom.row).row = dom.row /\ dom # G!Nowhere
    BY <1>5 DEF G!Cell, G!Escape, G!Nowhere
  <2>2. QED
    BY <1>2, <1>5, <2>1, TakenFocus DEF G!Escape, G!view, GridInv
<1>6. CASE G!Arrow
  <2>1. PICK step \in {-1, 1} : G!MoveFocus(focus + step)
    BY <1>6 DEF G!Arrow
  <2>2. QED
    BY <1>1, <2>1, MovedFocus
<1>7. CASE G!PageKey
  <2>1. PICK step \in {-1, 1} : G!MoveFocus(focus + step * Viewport)
    BY <1>7 DEF G!PageKey
  <2>2. focus + step * Viewport \in Int
    BY <1>1, <2>1
  <2>3. QED
    BY <1>1, <2>1, <2>2, MovedFocus
<1>8. CASE G!CtrlHome
  BY <1>1, <1>8, MovedFocus DEF G!CtrlHome
<1>9. CASE G!CtrlEnd
  BY <1>1, <1>9, MovedFocus DEF G!CtrlEnd
<1>10. CASE G!Space
  <2>1. dom # G!Nowhere /\ focus >= 0 /\ selected' = G!Toggled(selected, G!At(focus))
        /\ wanted' = (IF moved THEN selected' ELSE G!Toggled(wanted, {dom.row} \ {0}))
        /\ UNCHANGED <<rows, sort, search, page, focus, dom, moved>>
    BY <1>10 DEF G!Space, G!view
  <2>2. G!Shown' = G!Shown /\ \A r : G!Index(r)' = G!Index(r)
    BY <2>1, PageStays
  <2>3. GridOK' /\ FocusOK'
    BY <2>1, <2>2 DEF GridInv, GridOK, FocusOK
  <2>4. CASE moved
    BY <2>1, <2>3, <2>4 DEF GridInv
  <2>5. CASE ~moved
    <3>1. dom.row \in G!Shown /\ dom.row > 0
      BY <1>2, <2>1, CellsAre DEF GridInv, GridOK, FocusOK, G!Shown, G!Filtered
    <3>2. G!At(focus) = {dom.row} /\ {dom.row} \ {0} = {dom.row}
      BY <2>5, <3>1, AtIsOne DEF GridInv, FocusOK
    <3>3. selected' = wanted'
      BY <2>1, <2>5, <3>2 DEF GridInv
    <3>4. QED
      BY <2>3, <3>3 DEF GridInv
  <2>6. QED
    BY <2>4, <2>5
<1>11. ASSUME NEW r \in Rows, G!CheckRow(r) PROVE GridInv'
  <2>1. G!Control(r).row = r
    BY DEF G!Control
  <2>2. QED
    BY <1>11, <2>1, TakenFocus DEF G!CheckRow, G!view, GridInv
<1>12. CASE G!CheckAll
  <2>1. G!Control(0).row = 0
    BY DEF G!Control
  <2>2. QED
    BY <1>12, <2>1, TakenFocus DEF G!CheckAll, G!view, GridInv
<1>13. CASE G!ToggleSort
  <2>1. /\ dom' = G!Control(0) /\ focus' = -1 /\ moved' = FALSE
        /\ page' = 1 /\ UNCHANGED <<rows, selected, wanted>>
    BY <1>13 DEF G!ToggleSort, G!FirstPage, G!TakeFocus, G!Registered, G!Control
  <2>2. sort' \in {"none", "asc", "desc"}
    BY <1>13 DEF G!ToggleSort, GridInv, GridOK
  <2>3. dom'.row = 0
    BY <2>1 DEF G!Control
  <2>4. QED
    BY <2>1, <2>2, <2>3 DEF GridInv, GridOK, FocusOK
<1>14. CASE G!Search \/ \E step \in {-1, 1} : G!TurnPage(page + step)
  <2>1. /\ dom' = G!Nowhere /\ moved' = FALSE /\ page' \in Int
        /\ UNCHANGED <<rows, sort, focus, selected, wanted>>
    BY <1>1, <1>14 DEF G!Search, G!FirstPage, G!TurnPage
  <2>2. dom'.row = -1
    BY <2>1 DEF G!Nowhere
  <2>3. GridOK'
    BY <2>1, <2>2 DEF GridInv, GridOK, G!Nowhere
  <2>4. QED
    BY <2>1, <2>2, <2>3 DEF GridInv, FocusOK
<1>15. ASSUME NEW r \in Rows, G!Insert(r) \/ G!Delete(r) PROVE GridInv'
  <2>1. rows' \subseteq Rows
    BY <1>15 DEF G!Insert, G!Delete, GridInv, GridOK
  <2>2. QED
    BY <1>15, <2>1, KeptFocus DEF G!Insert, G!Delete
<1>16. QED
  BY <1>3, <1>4, <1>5, <1>6, <1>7, <1>8, <1>9, <1>10, <1>11, <1>12, <1>13, <1>14, <1>15
     DEF G!Next

(* The steps of MCInterface that are steps of DataGrid. *)
LEMMA GridMoves == GridNext => part' = part /\ part = "grid" /\ G!Next
BY DEF GridNext, InGrid, G!Next

(* What is left alone keeps the invariant. *)
LEMMA GridRest ==
  ASSUME GridInv, UNCHANGED <<dom, ofGrid>>
  PROVE  GridInv'
<1>1. G!Shown' = G!Shown /\ \A r : G!Index(r)' = G!Index(r)
  BY PageStays DEF ofGrid
<1>2. QED
  BY <1>1 DEF GridInv, GridOK, FocusOK, ofGrid

-----------------------------------------------------------------------------
(* Calendar *)

(* The day in focus is between the bounds and shown; the browser's focus    *)
(* in the grid is on a day that is shown, in that of the day in focus       *)
(* unless another was clicked that may not be chosen; and a focus that is   *)
(* still asked for was asked for by a key against a bound, and is not       *)
(* where the user put it until it comes. *)
CalendarOK ==
  /\ panes \in {1, 2} /\ cursor \in Int
  /\ focused \in MinDay..MaxDay /\ C!MonthOf(focused) \in C!Shown(cursor)

DomOK ==
  /\ dom.at = "grid" => dom.month \in C!Shown(cursor)
  /\ dom.at = "grid" /\ ~refused => dom.day = focused
  /\ \/ dom.at = place
     \/ dom.at = "grid" /\ pressed
     \/ dom.at = "nowhere" /\ (swept \/ C!Spent)
  /\ pending => pressed /\ dom.at = place

CalendarInv == CalendarOK /\ DomOK

(* The days before each month. *)
Sums == <<0, 5, 11, 15, 20, 26, 29, 34, 38, 43>>

(* They are what the recursion adds up to. *)
LEMMA BeforeIs == C!Before = Sums /\ C!Days = 1..43 /\ DOMAIN Months = 1..9
<1> DEFINE g == [month \in 1..10 |-> Sums[month]]
<1>1. Len(Months) = 9 /\ DOMAIN Months = 1..9
  BY DEF Months
<1>2. Sums \in [1..10 -> Int] /\ Sums = g
  BY DEF Sums
<1>3. \A month \in 1..10 :
        g[month] = IF month = 1 THEN 0 ELSE g[month - 1] + Months[month - 1]
  BY DEF Sums, Months
<1>4. g = [month \in 1..(Len(Months) + 1) |->
             IF month = 1 THEN 0 ELSE g[month - 1] + Months[month - 1]]
  BY <1>1, <1>3
<1> HIDE DEF g
<1>5. C!Before = [month \in 1..(Len(Months) + 1) |->
             IF month = 1 THEN 0 ELSE C!Before[month - 1] + Months[month - 1]]
  BY <1>4 DEF C!Before
<1> DEFINE f == C!Before
<1> HIDE DEF f
<1>6. f = [month \in 1..10 |-> IF month = 1 THEN 0 ELSE f[month - 1] + Months[month - 1]]
  BY <1>1, <1>5 DEF f
<1>7. f[1] = 0 /\ \A month \in 2..10 : f[month] = f[month - 1] + Months[month - 1]
  BY <1>6
<1>8. f[2] = 5 /\ f[3] = 11 /\ f[4] = 15 /\ f[5] = 20
  BY <1>7 DEF Months
<1>9. f[6] = 26 /\ f[7] = 29 /\ f[8] = 34 /\ f[9] = 38 /\ f[10] = 43
  BY <1>7, <1>8 DEF Months
<1>10. DOMAIN f = 1..10 /\ \A month \in 1..10 : f[month] = Sums[month]
  BY <1>6, <1>7, <1>8, <1>9 DEF Sums
<1>11. f = Sums
  <2>1. f = [month \in 1..10 |-> f[month]]
    BY <1>6, <1>10
  <2>2. QED
    BY <1>2, <1>10, <2>1 DEF g
<1>12. QED
  BY <1>1, <1>9, <1>11 DEF f, C!Days

(* Every day is in a month, *)
LEMMA MonthIs ==
  ASSUME NEW day \in C!Days
  PROVE  /\ C!MonthOf(day) \in 1..9
         /\ Sums[C!MonthOf(day)] < day /\ day <= Sums[C!MonthOf(day) + 1]
<1>1. \E m \in 1..9 : Sums[m] < day /\ day <= Sums[m + 1]
  <2>1. day \in Int /\ 0 < day /\ day <= 43
    BY BeforeIs
  <2>2. \/ (0 < day /\ day <= 5) \/ (5 < day /\ day <= 11) \/ (11 < day /\ day <= 15)
        \/ (15 < day /\ day <= 20) \/ (20 < day /\ day <= 26) \/ (26 < day /\ day <= 29)
        \/ (29 < day /\ day <= 34) \/ (34 < day /\ day <= 38) \/ (38 < day /\ day <= 43)
    BY <2>1
  <2>3. /\ Sums[1] = 0 /\ Sums[2] = 5 /\ Sums[3] = 11 /\ Sums[4] = 15 /\ Sums[5] = 20
        /\ Sums[6] = 26 /\ Sums[7] = 29 /\ Sums[8] = 34 /\ Sums[9] = 38 /\ Sums[10] = 43
    BY DEF Sums
  <2>4. \E m \in {1, 2, 3, 4, 5, 6, 7, 8, 9} : Sums[m] < day /\ day <= Sums[m + 1]
    BY <2>2, <2>3
  <2>5. QED
    BY <2>4
<1>2. \E m \in DOMAIN Months : C!Before[m] < day /\ day <= C!Before[m + 1]
  BY <1>1, BeforeIs
<1>3. C!MonthOf(day) \in DOMAIN Months /\ C!Before[C!MonthOf(day)] < day
      /\ day <= C!Before[C!MonthOf(day) + 1]
  BY <1>2 DEF C!MonthOf
<1>4. QED
  BY <1>3, BeforeIs

(* and a later day in no earlier month. *)
LEMMA MonthsAscend ==
  ASSUME NEW p \in C!Days, NEW q \in C!Days, p <= q
  PROVE  C!MonthOf(p) <= C!MonthOf(q)
<1> DEFINE m == C!MonthOf(p)
           n == C!MonthOf(q)
<1>1. /\ m \in 1..9 /\ Sums[m] < p /\ p <= Sums[m + 1]
      /\ n \in 1..9 /\ Sums[n] < q /\ q <= Sums[n + 1]
  BY MonthIs
<1>2. p \in Int /\ q \in Int
  BY BeforeIs
<1>3. \A j \in 1..10, k \in 1..10 : j <= k => Sums[j] <= Sums[k]
  BY DEF Sums
<1> HIDE DEF m, n
<1>4. ASSUME n < m PROVE FALSE
  <2>1. n + 1 \in 1..10 /\ m \in 1..10 /\ n + 1 <= m
    BY <1>1, <1>4
  <2>2. Sums[n + 1] <= Sums[m]
    BY <1>3, <2>1
  <2>3. Sums[n + 1] \in Int /\ Sums[m] \in Int
    BY <2>1 DEF Sums
  <2>4. QED
    BY <1>1, <1>2, <2>2, <2>3
<1>5. QED
  BY <1>1, <1>4 DEF m, n

(* A number of months on is a day. *)
LEMMA AddedMonths ==
  ASSUME NEW day \in C!Days, NEW amount \in Int, C!MonthOf(day) + amount \in 1..9
  PROVE  C!AddMonths(day, amount) \in Int
<1> DEFINE month == C!MonthOf(day) + amount
           least == C!Min({day - C!Before[C!MonthOf(day)], Months[month]})
<1>1. month \in 1..9 /\ Months[month] \in Int /\ C!Before[month] \in Int
  BY BeforeIs DEF Months, Sums
<1>2. day - C!Before[C!MonthOf(day)] \in Int
  <2>1. C!MonthOf(day) \in 1..9
    BY MonthIs
  <2>2. C!Before[C!MonthOf(day)] \in Int /\ day \in Int
    BY <2>1, BeforeIs DEF Sums
  <2>3. QED
    BY <2>2
<1>3. \A a, b \in Int : C!Min({a, b}) \in {a, b}
  BY DEF C!Min
<1>4. least \in Int
  BY <1>1, <1>2, <1>3
<1>5. C!AddMonths(day, amount) = C!Before[month] + least
  BY DEF C!AddMonths
<1> HIDE DEF month, least
<1>6. QED
  BY <1>1, <1>4, <1>5

(* The bounds bind. *)
LEMMA ClampIs ==
  ASSUME NEW day \in Int
  PROVE  C!Clamp(day) \in MinDay..MaxDay
<1>1. MinDay \in Int /\ MaxDay \in Int /\ MinDay <= MaxDay
  BY InterfaceAssumption, BeforeIs
<1>2. \A a, b \in Int : C!Min({a, b}) \in {a, b} /\ C!Min({a, b}) <= a
  BY DEF C!Min
<1>3. \A a, b \in Int : C!Max({a, b}) \in {a, b} /\ C!Max({a, b}) >= a
  BY DEF C!Max
<1> DEFINE low == C!Min({MaxDay, day})
<1>4. low \in Int /\ low <= MaxDay
  BY <1>1, <1>2
<1>5. C!Clamp(day) = C!Max({MinDay, low})
  BY DEF C!Clamp
<1> HIDE DEF low
<1>6. QED
  BY <1>1, <1>3, <1>4, <1>5

(* Between the bounds a month and a year, back and on, are days too. *)
LEMMA Between ==
  ASSUME NEW day \in MinDay..MaxDay
  PROVE  /\ day \in C!Days /\ day \in Int /\ C!MonthOf(day) \in 1..9
         /\ \A delta \in {-1, 1} : /\ C!AddMonths(day, delta) \in Int
                                   /\ C!AddYears(day, delta) \in Int
<1>1. MinDay \in C!Days /\ MaxDay \in C!Days /\ day \in C!Days /\ day \in Int
  BY InterfaceAssumption, BeforeIs
<1>2. C!MonthOf(MinDay) <= C!MonthOf(day) /\ C!MonthOf(day) <= C!MonthOf(MaxDay)
  BY <1>1, BeforeIs, MonthsAscend
<1>3. C!MonthOf(MinDay) \in 1..9 /\ C!MonthOf(day) \in 1..9 /\ C!MonthOf(MaxDay) \in 1..9
  BY <1>1, MonthIs
<1>4. /\ MonthsInYear \in Nat \ {0}
      /\ C!MonthOf(MinDay) - MonthsInYear \in 1..9
      /\ C!MonthOf(MaxDay) + MonthsInYear \in 1..9
  BY InterfaceAssumption, BeforeIs
<1> DEFINE least == C!MonthOf(MinDay)
           month == C!MonthOf(day)
           last == C!MonthOf(MaxDay)
<1>5. \A delta \in {-1, 1} : /\ delta \in Int /\ delta * MonthsInYear \in Int
                             /\ month + delta \in 1..9
                             /\ month + delta * MonthsInYear \in 1..9
  <2> HIDE DEF least, month, last
  <2>1. least <= month /\ month <= last /\ least \in 1..9 /\ month \in 1..9 /\ last \in 1..9
        /\ least - MonthsInYear \in 1..9 /\ last + MonthsInYear \in 1..9
    BY <1>2, <1>3, <1>4 DEF least, month, last
  <2>2. month + 1 \in 1..9 /\ month - 1 \in 1..9
        /\ month + MonthsInYear \in 1..9 /\ month - MonthsInYear \in 1..9
    BY <1>4, <2>1
  <2>3. (-1) * MonthsInYear = -MonthsInYear /\ 1 * MonthsInYear = MonthsInYear
    BY <1>4
  <2>4. QED
    BY <1>4, <2>1, <2>2, <2>3
<1>6. \A delta \in {-1, 1} : C!AddMonths(day, delta) \in Int
  BY <1>1, <1>5, AddedMonths
<1>7. \A delta \in {-1, 1} : C!AddMonths(day, delta * MonthsInYear) \in Int
  BY <1>1, <1>5, AddedMonths
<1>8. QED
  BY <1>1, <1>3, <1>6, <1>7 DEF C!AddYears

(* So is wherever a key leads. *)
LEMMA NextsAre ==
  ASSUME CalendarOK
  PROVE  \A next \in C!Nexts : next \in Int
<1>1. focused \in Int /\ Week \in Nat \ {0} /\ WeekStart \in Int
      /\ \A delta \in {-1, 1} : C!AddMonths(focused, delta) \in Int
                                /\ C!AddYears(focused, delta) \in Int
  BY Between, InterfaceAssumption DEF CalendarOK
<1>2. C!WeekOffset(focused) \in Int
  BY <1>1 DEF C!WeekOffset
<1>3. QED
  BY <1>1, <1>2 DEF C!Nexts

(* The panes follow the day in focus. *)
LEMMA FollowIs ==
  ASSUME CalendarOK, NEW day \in MinDay..MaxDay, NEW first \in Int
  PROVE  /\ C!Follow(first, day) \in Int
         /\ C!MonthOf(day) \in C!Shown(C!Follow(first, day))
         /\ C!MonthOf(day) \in C!Shown(first) => C!Follow(first, day) = first
<1>1. C!MonthOf(day) \in Int
  BY Between
<1>2. QED
  BY <1>1 DEF CalendarOK, C!Follow, C!Shown

(* A render leaves the day in focus shown, and the browser's focus on a day *)
(* that is shown or not in the grid, where the user put it unless that is   *)
(* gone. *)
LEMMA Committed ==
  ASSUME CalendarOK, NEW day \in MinDay..MaxDay, NEW first \in Int, NEW asked, NEW user,
         C!Commit(day, first, asked, user), panes' = panes
  PROVE  /\ CalendarOK' /\ ~pending'
         /\ dom'.at = "grid" => dom'.month \in C!Shown(cursor)'
         /\ asked => dom' = C!Cell(C!MonthOf(day), day)
         /\ ~asked /\ ~C!Gone(user, cursor') => dom' = user
         /\ ~asked /\ C!Gone(user, cursor') => dom' = C!Place("nowhere")
<1>1. /\ focused' = day /\ cursor' = C!Follow(first, day) /\ pending' = FALSE
      /\ dom' = IF asked THEN C!Cell(C!MonthOf(day), day)
                ELSE IF C!Gone(user, C!Follow(first, day)) THEN C!Place("nowhere") ELSE user
  BY DEF C!Commit
<1>2. /\ cursor' \in Int /\ C!MonthOf(day) \in C!Shown(C!Follow(first, day))
  BY <1>1, FollowIs
<1>3. C!Shown(cursor)' = C!Shown(C!Follow(first, day))
  BY <1>1 DEF C!Shown
<1>4. CalendarOK'
  <2>1. C!MonthOf(focused)' = C!MonthOf(day)
    BY <1>1 DEF C!MonthOf
  <2>2. QED
    BY <1>1, <1>2, <1>3, <2>1 DEF CalendarOK
<1>5. C!Place("nowhere").at # "grid"
  BY DEF C!Place
<1>6. C!Cell(C!MonthOf(day), day).month = C!MonthOf(day)
  BY DEF C!Cell
<1>7. ~C!Gone(user, C!Follow(first, day)) /\ user.at = "grid" => user.month \in C!Shown(cursor)'
  BY <1>3 DEF C!Gone
<1>8. dom'.at = "grid" => dom'.month \in C!Shown(cursor)'
  BY <1>1, <1>2, <1>3, <1>5, <1>6, <1>7
<1>9. QED
  BY <1>1, <1>4, <1>8

(* A disabled arrow that the user clicked is spent. *)
LEMMA SpentIs ==
  ASSUME NEW delta \in {-1, 1}, place' = C!Arrow(delta), ~C!CanPage(cursor', delta), panes' = panes
  PROVE  C!Spent'
BY DEF C!Spent, C!CanPage

(* The calendar opens on the month of a day between the bounds. *)
LEMMA CalendarStart == C!Init => CalendarInv
<1> SUFFICES ASSUME C!Init PROVE CalendarInv
  OBVIOUS
<1>1. panes \in {1, 2} /\ focused \in MinDay..MaxDay /\ cursor = C!MonthOf(focused)
  BY DEF C!Init
<1>2. cursor \in Int
  BY <1>1, Between
<1>3. CalendarOK /\ cursor \in C!Shown(cursor)
  BY <1>1, <1>2 DEF CalendarOK, C!Shown
<1>4. CASE dom = C!Cell(cursor, focused) /\ place = "grid"
  BY <1>3, <1>4 DEF C!Init, C!Cell, CalendarInv, DomOK
<1>5. CASE dom = C!Place("elsewhere") /\ place = "elsewhere"
  BY <1>3, <1>5 DEF C!Init, C!Place, CalendarInv, DomOK
<1>6. QED
  BY <1>4, <1>5 DEF C!Init

(* Every key, click, render and change of the focus keeps the invariant. *)
LEMMA CalendarStep ==
  ASSUME CalendarInv, C!Next
  PROVE  CalendarInv'
<1> USE DEF CalendarInv
<1>1. /\ focused \in MinDay..MaxDay /\ cursor \in Int
      /\ C!MonthOf(focused) \in C!Shown(cursor)
  BY DEF CalendarOK
<1>2. ASSUME UNCHANGED <<panes, focused, cursor>>
      PROVE  CalendarOK' /\ C!Shown(cursor)' = C!Shown(cursor)
  BY <1>2 DEF CalendarOK, C!Shown, C!MonthOf
<1>3. CASE C!EnterGrid
  <2>1. dom' = C!Cell(C!MonthOf(focused), focused) /\ place' = "grid"
        /\ pressed' = pending /\ UNCHANGED <<panes, focused, cursor, pending>>
    BY <1>3 DEF C!EnterGrid
  <2>2. dom'.at = "grid" /\ dom'.month = C!MonthOf(focused) /\ dom'.day = focused
    BY <2>1 DEF C!Cell
  <2>3. QED
    BY <1>1, <1>2, <2>1, <2>2 DEF DomOK
<1>4. CASE C!Leave
  <2>1. dom' = C!Place("elsewhere") /\ place' = "elsewhere"
        /\ pressed' = pending /\ UNCHANGED <<panes, focused, cursor, pending>>
    BY <1>4 DEF C!Leave
  <2>2. dom'.at = "elsewhere"
    BY <2>1 DEF C!Place
  <2>3. QED
    BY <1>2, <2>1, <2>2 DEF DomOK
<1>5. CASE C!Rerender
  <2>1. C!Commit(focused, cursor, pending, dom) /\ UNCHANGED <<panes, place, refused, swept>>
        /\ cursor' = C!Follow(cursor, focused) /\ focused' = focused
        /\ pressed' = (pressed /\ ~(pending /\ dom.at = "grid"))
    BY <1>5 DEF C!Rerender, C!Commit
  <2>2. CalendarOK' /\ ~pending' /\ (dom'.at = "grid" => dom'.month \in C!Shown(cursor)')
        /\ (pending => dom' = C!Cell(C!MonthOf(focused), focused))
        /\ (~pending /\ ~C!Gone(dom, cursor') => dom' = dom)
        /\ (~pending /\ C!Gone(dom, cursor') => dom' = C!Place("nowhere"))
    BY <1>1, <2>1, Committed
  <2>3. CASE pending
    <3>1. dom'.at = "grid" /\ dom'.day = focused
      BY <2>2, <2>3 DEF C!Cell
    <3>2. dom'.at = place' \/ pressed'
      BY <2>1, <2>3, <3>1 DEF DomOK
    <3>3. QED
      BY <2>1, <2>2, <3>1, <3>2 DEF DomOK
  <2>4. CASE ~pending
    <3>1. cursor' = cursor /\ panes' = panes /\ place' = place /\ swept' = swept
      BY <1>1, <2>1, FollowIs
    <3>2. pressed => pressed'
      BY <2>1, <2>4
    <3>3. CASE ~C!Gone(dom, cursor')
      <4>1. dom' = dom /\ (C!Spent => C!Spent')
        BY <2>2, <2>4, <3>1, <3>3 DEF C!Spent, C!CanPage
      <4>2. QED
        BY <2>1, <2>2, <3>1, <3>2, <4>1 DEF DomOK
    <3>4. CASE C!Gone(dom, cursor')
      <4>1. PICK delta \in {-1, 1} : dom.at = C!Arrow(delta) /\ ~C!CanPage(cursor', delta)
        BY <3>1, <3>4 DEF C!Gone, DomOK
      <4>2. place' = C!Arrow(delta)
        BY <3>1, <4>1 DEF C!Arrow, DomOK
      <4>3. C!Spent' /\ dom' = C!Place("nowhere")
        BY <2>2, <2>4, <3>1, <3>4, <4>1, <4>2, SpentIs
      <4>4. dom'.at = "nowhere"
        BY <4>3 DEF C!Place
      <4>5. QED
        BY <2>2, <4>3, <4>4 DEF DomOK
    <3>5. QED
      BY <3>3, <3>4
  <2>5. QED
    BY <2>3, <2>4
<1>6. ASSUME NEW next \in C!Nexts, C!PressOn(next) PROVE CalendarInv'
  BY <1>2, <1>6 DEF C!PressOn, DomOK
<1>7. ASSUME NEW next \in C!Nexts, C!MoveFocus(next) PROVE CalendarInv'
  <2>1. C!Clamp(next) \in MinDay..MaxDay
    BY NextsAre, ClampIs
  <2>2. C!Commit(C!Clamp(next), cursor, TRUE, dom) /\ place' = "grid" /\ panes' = panes
        /\ focused' = C!Clamp(next)
    BY <1>7 DEF C!MoveFocus, C!Commit
  <2>3. CalendarOK' /\ ~pending' /\ (dom'.at = "grid" => dom'.month \in C!Shown(cursor)')
        /\ dom' = C!Cell(C!MonthOf(C!Clamp(next)), C!Clamp(next))
    BY <1>1, <2>1, <2>2, Committed
  <2>4. dom'.at = "grid" /\ dom'.day = focused'
    BY <2>2, <2>3 DEF C!Cell
  <2>5. QED
    BY <2>2, <2>3, <2>4 DEF DomOK
<1>8. ASSUME NEW month, NEW day, C!ClickDay(month, day) PROVE CalendarInv'
  <2>1. day \in MinDay..MaxDay /\ place' = "grid" /\ panes' = panes /\ focused' = day
        /\ C!Commit(day, cursor, pending, C!Cell(month, day))
        /\ swept' = (dom'.at = "nowhere")
    BY <1>8 DEF C!ClickDay, C!IsDisabled, C!Commit
  <2>2. C!Cell(month, day).at = "grid" /\ C!Cell(month, day).day = day
        /\ C!Cell(C!MonthOf(day), day).at = "grid" /\ C!Cell(C!MonthOf(day), day).day = day
        /\ C!Place("nowhere").at = "nowhere"
    BY DEF C!Cell, C!Place
  <2>3. CalendarOK' /\ ~pending' /\ (dom'.at = "grid" => dom'.month \in C!Shown(cursor)')
        /\ (pending => dom' = C!Cell(C!MonthOf(day), day))
        /\ (~pending => dom' \in {C!Cell(month, day), C!Place("nowhere")})
    BY <1>1, <2>1, Committed
  <2>4. dom' \in {C!Cell(C!MonthOf(day), day), C!Cell(month, day), C!Place("nowhere")}
    BY <2>3
  <2>5. QED
    BY <2>1, <2>2, <2>3, <2>4 DEF DomOK
<1>9. ASSUME NEW month, NEW day, C!ClickDisabled(month, day) PROVE CalendarInv'
  <2>1. month \in C!Shown(cursor) /\ dom' = C!Cell(month, day) /\ place' = "grid"
        /\ refused' = (day # focused)
        /\ pressed' = pending /\ UNCHANGED <<panes, focused, cursor, pending>>
    BY <1>9 DEF C!ClickDisabled
  <2>2. dom'.at = "grid" /\ dom'.month = month /\ dom'.day = day
    BY <2>1 DEF C!Cell
  <2>3. QED
    BY <1>2, <2>1, <2>2 DEF DomOK
<1>10. ASSUME NEW delta \in {-1, 1}, C!Page(delta) PROVE CalendarInv'
  <2> DEFINE to == C!Clamp(C!AddMonths(focused, delta))
  <2>1. to \in MinDay..MaxDay /\ cursor + delta \in Int
    BY <1>1, Between, ClampIs
  <2>2. C!Commit(to, cursor + delta, pending, C!Place(C!Arrow(delta)))
        /\ place' = C!Arrow(delta) /\ panes' = panes /\ focused' = to /\ pressed' = pending
    BY <1>10 DEF C!Page, C!Commit
  <2>3. C!Place(C!Arrow(delta)).at = C!Arrow(delta) /\ C!Arrow(delta) \in {"previous", "next"}
        /\ C!Cell(C!MonthOf(to), to).at = "grid" /\ C!Cell(C!MonthOf(to), to).day = to
        /\ C!Place("nowhere").at = "nowhere"
    BY DEF C!Place, C!Cell, C!Arrow
  <2>4. CalendarOK' /\ ~pending' /\ (dom'.at = "grid" => dom'.month \in C!Shown(cursor)')
        /\ (pending => dom' = C!Cell(C!MonthOf(to), to))
        /\ (~pending /\ ~C!Gone(C!Place(C!Arrow(delta)), cursor') => dom' = C!Place(C!Arrow(delta)))
        /\ (~pending /\ C!Gone(C!Place(C!Arrow(delta)), cursor') => dom' = C!Place("nowhere"))
    BY <1>1, <2>1, <2>2, Committed
  <2> HIDE DEF to
  <2>5. CASE pending
    BY <2>2, <2>3, <2>4, <2>5 DEF DomOK
  <2>6. CASE ~pending /\ ~C!Gone(C!Place(C!Arrow(delta)), cursor')
    BY <2>2, <2>3, <2>4, <2>6 DEF DomOK
  <2>7. CASE ~pending /\ C!Gone(C!Place(C!Arrow(delta)), cursor')
    <3>1. PICK d \in {-1, 1} : C!Arrow(delta) = C!Arrow(d) /\ ~C!CanPage(cursor', d)
      BY <2>3, <2>7 DEF C!Gone
    <3>2. C!Spent'
      BY <2>2, <3>1, SpentIs
    <3>3. dom'.at = "nowhere"
      BY <2>3, <2>4, <2>7
    <3>4. QED
      BY <2>4, <3>2, <3>3 DEF DomOK
  <2>8. QED
    BY <2>5, <2>6, <2>7
<1>11. QED
  BY <1>3, <1>4, <1>5, <1>6, <1>7, <1>8, <1>9, <1>10 DEF C!Next

(* The steps of MCInterface that are steps of Calendar. *)
LEMMA CalendarMoves == CalendarNext => part' = part /\ part = "calendar" /\ C!Next
BY DEF CalendarNext, InCalendar, C!Next

(* What is left alone keeps the invariant. *)
LEMMA CalendarRest ==
  ASSUME CalendarInv, UNCHANGED <<dom, ofCalendar>>
  PROVE  CalendarInv'
BY DEF CalendarInv, CalendarOK, DomOK, ofCalendar, C!Shown, C!MonthOf, C!Spent, C!CanPage

(* The focus is where the user put it. *)
LEMMA PlaceHolds == CalendarInv => C!PlaceIsKept
BY DEF CalendarInv, CalendarOK, DomOK, C!PlaceIsKept

-----------------------------------------------------------------------------
(* Kanban *)

(* How many of the places are up to i. *)
Rank(places, i) == Cardinality({j \in places : j <= i})

(* e lists the places in their order, and none is left out. *)
Enumerates(e, size, places) ==
  /\ size \in Nat /\ e \in [1..size -> places]
  /\ \A m, n \in 1..size : m < n => e[m] < e[n]
  /\ \A i \in places : \E n \in 1..size : e[n] = i

(* What is kept of a list is what it has at the places e lists. *)
KeptAs(list, places, size, e) == B!Kept(list, places) = [n \in 1..size |-> list[e[n]]]

(* However its places are listed, what is kept of a list is what it has at *)
(* them, and a place is ranked where it is listed. *)
LEMMA KeptBy ==
  ASSUME NEW len \in Nat, NEW places \in SUBSET (1..len), NEW size, NEW e,
         Enumerates(e, size, places)
  PROVE  /\ Cardinality(places) = size /\ size \in Nat
         /\ \A n \in 1..size : e[n] \in places /\ Rank(places, e[n]) = n
         /\ \A list : KeptAs(list, places, size, e)
<1>1. size \in Nat /\ \A n \in 1..size : e[n] \in places /\ e[n] \in Int
  <2>1. \A i \in places : i \in Int
    OBVIOUS
  <2>2. QED
    BY <2>1 DEF Enumerates
<1>2. \A m, n \in 1..size : e[m] = e[n] => m = n
  <2> SUFFICES ASSUME NEW m \in 1..size, NEW n \in 1..size, m # n PROVE e[m] # e[n]
    OBVIOUS
  <2>1. m < n \/ n < m
    OBVIOUS
  <2>2. e[m] < e[n] \/ e[n] < e[m]
    BY <2>1 DEF Enumerates
  <2>3. QED
    BY <1>1, <2>2
<1>3. Cardinality(places) = size
  <2>1. e \in Bijection(1..size, places)
    BY <1>2 DEF Enumerates, Bijection, Injection, Surjection, IsInjective
  <2>2. ExistsBijection(1..size, places)
    BY <2>1 DEF ExistsBijection
  <2>3. QED
    BY <1>1, <2>2, FS_CountingElements
<1>4. ASSUME NEW n \in 1..size PROVE Rank(places, e[n]) = n
  <2> DEFINE upTo == {j \in places : j <= e[n]}
             f == [m \in 1..n |-> e[m]]
  <2>1. n \in Nat /\ \A m \in 1..n : m \in 1..size
    BY <1>1
  <2>2. \A m \in 1..n : e[m] \in upTo
    <3> SUFFICES ASSUME NEW m \in 1..n PROVE e[m] \in places /\ e[m] <= e[n]
      OBVIOUS
    <3>1. m = n \/ m < n
      BY <1>1
    <3>2. m = n \/ e[m] < e[n]
      BY <2>1, <3>1 DEF Enumerates
    <3>3. QED
      BY <1>1, <2>1, <3>2
  <2>3. \A i \in upTo : \E m \in 1..n : e[m] = i
    <3> SUFFICES ASSUME NEW i \in upTo PROVE \E m \in 1..n : e[m] = i
      OBVIOUS
    <3>1. PICK m \in 1..size : e[m] = i
      BY DEF Enumerates
    <3>2. ~(n < m)
      <4> SUFFICES ASSUME n < m PROVE FALSE
        OBVIOUS
      <4>1. e[n] < e[m] /\ e[m] <= e[n]
        BY <3>1 DEF Enumerates
      <4>2. QED
        BY <1>1, <4>1
    <3>3. m \in 1..n
      BY <1>1, <3>2
    <3>4. QED
      BY <3>1, <3>3
  <2> HIDE DEF upTo
  <2>4. f \in Bijection(1..n, upTo)
    <3>1. f \in [1..n -> upTo]
      BY <2>2
    <3>2. \A i, j \in 1..n : f[i] = f[j] => i = j
      BY <1>2, <2>1
    <3>3. \A i \in upTo : \E m \in 1..n : f[m] = i
      BY <2>3
    <3> HIDE DEF f
    <3>4. QED
      BY <3>1, <3>2, <3>3 DEF Bijection, Injection, Surjection, IsInjective
  <2>5. ExistsBijection(1..n, upTo)
    BY <2>4 DEF ExistsBijection
  <2>6. Cardinality(upTo) = n
    BY <2>1, <2>5, FS_CountingElements
  <2>7. QED
    BY <2>6 DEF upTo, Rank
<1>5. ASSUME NEW n \in 1..size PROVE (CHOOSE i \in places : Rank(places, i) = n) = e[n]
  <2>1. \A i \in places : Rank(places, i) = n => i = e[n]
    <3> SUFFICES ASSUME NEW i \in places, Rank(places, i) = n PROVE i = e[n]
      OBVIOUS
    <3>1. PICK m \in 1..size : e[m] = i
      BY DEF Enumerates
    <3>2. m = n
      BY <1>4, <3>1
    <3>3. QED
      BY <3>1, <3>2
  <2>2. e[n] \in places /\ Rank(places, e[n]) = n
    BY <1>1, <1>4
  <2>3. QED
    BY <2>1, <2>2
<1>6. ASSUME NEW list PROVE KeptAs(list, places, size, e)
  <2>1. B!Kept(list, places)
          = [n \in 1..size |-> list[CHOOSE i \in places : Rank(places, i) = n]]
    BY <1>3 DEF B!Kept, Rank, B!Cardinality, Cardinality
  <2>2. QED
    BY <1>5, <2>1 DEF KeptAs
<1>7. QED
  BY <1>1, <1>3, <1>4, <1>6

(* Any places of a list can be listed. *)
LEMMA PlacesAre ==
  ASSUME NEW len \in Nat, NEW places \in SUBSET (1..len)
  PROVE  \E e : Enumerates(e, Cardinality(places), places)
<1> DEFINE size == Cardinality(places)
<1>1. IsFiniteSet(places) /\ size \in Nat
  <2>1. IsFiniteSet(1..len)
    BY FS_Interval
  <2>2. QED
    BY <2>1, FS_Subset, FS_CardinalityType
<1>2. ASSUME NEW i \in places PROVE Rank(places, i) \in 1..size
  <2> DEFINE upTo == {j \in places : j <= i}
  <2>1. i \in upTo
    OBVIOUS
  <2>2. IsFiniteSet(upTo) /\ Cardinality(upTo) <= size
    BY <1>1, FS_Subset
  <2>3. Cardinality(upTo) \in Nat /\ Cardinality(upTo) # 0
    BY <2>1, <2>2, FS_CardinalityType, FS_EmptySet
  <2>4. QED
    BY <1>1, <2>2, <2>3 DEF Rank
<1>3. ASSUME NEW i \in places, NEW j \in places, i < j PROVE Rank(places, i) < Rank(places, j)
  <2> DEFINE low == {x \in places : x <= i}
             high == {x \in places : x <= j}
  <2>1. low \subseteq high /\ j \in high /\ j \notin low /\ low # high
    <3>1. i \in Int /\ j \in Int /\ \A x \in places : x \in Int
      OBVIOUS
    <3>2. \A x \in places : x <= i => x <= j
      BY <1>3, <3>1
    <3>3. ~(j <= i) /\ j <= j
      BY <1>3, <3>1
    <3>4. j \in high /\ j \notin low
      BY <3>3
    <3>5. QED
      BY <3>2, <3>4
  <2>2. IsFiniteSet(high)
    BY <1>1, FS_Subset
  <2>3. /\ Cardinality(low) \in Nat /\ Cardinality(high) \in Nat
        /\ Cardinality(low) <= Cardinality(high) /\ Cardinality(low) # Cardinality(high)
    <3> HIDE DEF low, high
    <3>1. QED
      BY <2>1, <2>2, FS_Subset, FS_CardinalityType
  <2>4. QED
    BY <2>3 DEF Rank
<1>4. ASSUME NEW i \in places, NEW j \in places, Rank(places, i) = Rank(places, j) PROVE i = j
  <2>1. i \in Int /\ j \in Int
    OBVIOUS
  <2>2. Rank(places, i) \in Int /\ ~(i < j) /\ ~(j < i)
    BY <1>2, <1>3, <1>4
  <2>3. QED
    BY <2>1, <2>2
<1> DEFINE e == [n \in 1..size |-> CHOOSE i \in places : Rank(places, i) = n]
<1>5. \A n \in 1..size : \E i \in places : Rank(places, i) = n
  <2> DEFINE f == [i \in places |-> Rank(places, i)]
  <2>1. f \in Injection(places, 1..size)
    BY <1>2, <1>4 DEF Injection, IsInjective
  <2>2. IsFiniteSet(1..size) /\ Cardinality(1..size) = size
    BY <1>1, FS_Interval
  <2> HIDE DEF f
  <2>3. f \in Surjection(places, 1..size)
    BY <2>1, <2>2, FS_Injection
  <2>4. \A n \in 1..size : \E i \in places : f[i] = n
    BY <2>3 DEF Surjection
  <2>5. QED
    BY <2>4 DEF f
<1>6. \A n \in 1..size : e[n] \in places /\ Rank(places, e[n]) = n
  BY <1>5
<1>7. e \in [1..size -> places]
  BY <1>6
<1> HIDE DEF e, size
<1>8. \A m, n \in 1..size : m < n => e[m] < e[n]
  <2> SUFFICES ASSUME NEW m \in 1..size, NEW n \in 1..size, m < n, ~(e[m] < e[n]) PROVE FALSE
    OBVIOUS
  <2>1. e[m] \in places /\ e[n] \in places /\ e[m] \in Int /\ e[n] \in Int
    <3>1. e[m] \in places /\ e[n] \in places
      BY <1>6
    <3>2. \A i \in places : i \in Int
      OBVIOUS
    <3>3. QED
      BY <3>1, <3>2
  <2>2. e[n] = e[m] \/ e[n] < e[m]
    BY <2>1
  <2>3. Rank(places, e[m]) = m /\ Rank(places, e[n]) = n /\ m \in Int /\ n \in Int
    BY <1>6
  <2>4. n = m \/ n < m
    BY <1>3, <2>1, <2>2, <2>3
  <2>5. QED
    BY <2>3, <2>4
<1>9. \A i \in places : \E n \in 1..size : e[n] = i
  BY <1>2, <1>4, <1>6
<1>10. QED
  BY <1>1, <1>7, <1>8, <1>9 DEF size, Enumerates
(* The cards of the product have a name and a column each. *)
Listed == [id: Cards, column: Columns]
Distinct(list) == \A i, j \in 1..Len(list) : list[i].id = list[j].id => i = j

BoardInv ==
  /\ items \in Seq(Listed) /\ Distinct(items)
  /\ active \in Cards \cup {NoTarget} /\ preview \in Columns \cup {NoTarget}

(* The places of a list but one. *)
Past(p, n) == IF n < p THEN n ELSE n + 1

(* They are listed in their order. *)
LEMMA PastIs ==
  ASSUME NEW len \in Nat, NEW p \in 1..len
  PROVE  Enumerates([n \in 1..(len - 1) |-> Past(p, n)], len - 1, (1..len) \ {p})
<1> DEFINE e == [n \in 1..(len - 1) |-> Past(p, n)]
           places == (1..len) \ {p}
<1>1. \A n \in 1..(len - 1) : Past(p, n) \in 1..len /\ Past(p, n) # p
  BY DEF Past
<1>2. e \in [1..(len - 1) -> places]
  BY <1>1
<1>3. \A m, n \in 1..(len - 1) : m < n => e[m] < e[n]
  BY DEF Past
<1>4. \A i \in places : \E n \in 1..(len - 1) : e[n] = i
  <2> SUFFICES ASSUME NEW i \in 1..len, i # p PROVE \E n \in 1..(len - 1) : e[n] = i
    OBVIOUS
  <2>1. CASE i < p
    BY <2>1 DEF Past
  <2>2. CASE p < i
    <3>1. i - 1 \in 1..(len - 1) /\ ~(i - 1 < p) /\ (i - 1) + 1 = i
      BY <2>2
    <3>2. e[i - 1] = i
      BY <3>1 DEF Past
    <3>3. QED
      BY <3>1, <3>2
  <2>3. QED
    BY <2>1, <2>2
<1>5. len - 1 \in Nat
  OBVIOUS
<1> HIDE DEF e, places
<1>6. Enumerates(e, len - 1, places)
  BY <1>2, <1>3, <1>4, <1>5 DEF Enumerates
<1>7. QED
  BY <1>6 DEF e, places

(* Without a card, what came after it moves up. *)
LEMMA WithoutIs ==
  ASSUME NEW list \in Seq(Listed), Distinct(list), NEW p \in 1..Len(list)
  PROVE  /\ B!Without(list, list[p].id) = [n \in 1..(Len(list) - 1) |-> list[Past(p, n)]]
         /\ B!Without(list, list[p].id) \in Seq(Listed)
         /\ Len(B!Without(list, list[p].id)) = Len(list) - 1
         /\ Distinct(B!Without(list, list[p].id))
         /\ \A n \in 1..(Len(list) - 1) : B!Without(list, list[p].id)[n].id # list[p].id
<1> DEFINE len == Len(list)
           places == {i \in DOMAIN list : list[i].id # list[p].id}
           e == [n \in 1..(len - 1) |-> Past(p, n)]
           W == B!Without(list, list[p].id)
<1>1. len \in Nat /\ DOMAIN list = 1..len /\ p \in 1..len /\ p \in Nat
  OBVIOUS
<1>2. \A i \in 1..len : i \in places <=> i # p
  BY <1>1 DEF Distinct
<1>3. \A n \in 1..(len - 1) : Past(p, n) \in places /\ Past(p, n) \in 1..len
  <2>1. \A n \in 1..(len - 1) : Past(p, n) \in 1..len /\ Past(p, n) # p
    BY <1>1 DEF Past
  <2>2. QED
    BY <1>2, <2>1
<1>4. Enumerates(e, len - 1, places)
  <2>1. places = (1..len) \ {p}
    BY <1>1, <1>2
  <2>2. QED
    BY <1>1, <2>1, PastIs
<1>5. W = [n \in 1..(len - 1) |-> list[e[n]]]
  <2>1. places \in SUBSET (1..len)
    BY <1>1
  <2>2. W = B!Kept(list, places)
    BY DEF B!Without
  <2> HIDE DEF W, places, e, len
  <2>3. KeptAs(list, places, len - 1, e)
    BY <1>1, <1>4, <2>1, KeptBy
  <2>4. QED
    BY <2>2, <2>3 DEF KeptAs
<1>6. W = [n \in 1..(len - 1) |-> list[Past(p, n)]]
  BY <1>5
<1>7. \A n \in 1..(len - 1) : list[Past(p, n)] \in Listed
  BY <1>1, <1>3
<1>8. W \in Seq(Listed) /\ Len(W) = len - 1
  <2>1. W \in [1..(len - 1) -> Listed] /\ len - 1 \in Nat
    BY <1>1, <1>6, <1>7
  <2> HIDE DEF W, len
  <2>2. QED
    BY <2>1
<1>9. Distinct(W)
  <2> SUFFICES ASSUME NEW m \in 1..(len - 1), NEW n \in 1..(len - 1), W[m].id = W[n].id PROVE m = n
    BY <1>8 DEF Distinct
  <2>1. list[Past(p, m)].id = list[Past(p, n)].id
    BY <1>6
  <2>2. Past(p, m) = Past(p, n)
    BY <1>3, <2>1 DEF Distinct
  <2>3. QED
    BY <1>1, <2>2 DEF Past
<1>10. \A n \in 1..(len - 1) : W[n].id # list[p].id
  BY <1>3, <1>6
<1>11. QED
  BY <1>6, <1>8, <1>9, <1>10

(* What two sequences have, one after the other. *)
LEMMA Joined ==
  ASSUME NEW Any, NEW p \in Seq(Any), NEW q \in Seq(Any)
  PROVE  /\ p \o q \in Seq(Any) /\ Len(p \o q) = Len(p) + Len(q)
         /\ \A i \in 1..Len(p) : (p \o q)[i] = p[i]
         /\ \A i \in 1..Len(q) : (p \o q)[Len(p) + i] = q[i]
OBVIOUS

(* A card that is put in is where it is put, and leaves the others as they *)
(* are. *)
LEMMA InsertedIs ==
  ASSUME NEW W \in Seq(Listed), NEW k \in 1..(Len(W) + 1), NEW c \in Listed, Distinct(W),
         \A n \in 1..Len(W) : W[n].id # c.id,
         NEW list, list = B!InsertAt(W, k, c)
  PROVE  /\ list \in Seq(Listed) /\ Len(list) = Len(W) + 1 /\ Distinct(list)
         /\ list[k] = c
         /\ \A n \in 1..Len(W) : list[Past(k, n)] = W[n]
         /\ B!Without(list, c.id) = W
<1>1. Len(W) \in Nat /\ k \in Nat /\ k >= 1 /\ k <= Len(W) + 1
  OBVIOUS
<1>2. /\ list \in Seq(Listed) /\ Len(list) = Len(W) + 1
      /\ \A n \in 1..(Len(W) + 1) :
           list[n] = IF n < k THEN W[n] ELSE IF n = k THEN c ELSE W[n - 1]
  <2> DEFINE head == SubSeq(W, 1, k - 1)
             tail == SubSeq(W, k, Len(W))
  <2>1. /\ head \in Seq(Listed) /\ Len(head) = k - 1
        /\ \A n \in 1..(k - 1) : head[n] = W[n]
    BY <1>1
  <2>2. /\ tail \in Seq(Listed) /\ Len(tail) = Len(W) - k + 1
        /\ \A n \in 1..(Len(W) - k + 1) : tail[n] = W[k + n - 1]
    BY <1>1
  <2>3. list = head \o <<c>> \o tail
    BY DEF B!InsertAt
  <2> HIDE DEF head, tail
  <2> DEFINE front == head \o <<c>>
  <2>4. /\ front \in Seq(Listed) /\ Len(front) = k
        /\ \A n \in 1..k : front[n] = IF n < k THEN W[n] ELSE c
    BY <1>1, <2>1
  <2>5. list = front \o tail
    BY <2>3
  <2> HIDE DEF front
  <2>6. list \in Seq(Listed) /\ Len(list) = Len(W) + 1
    <3>1. front \in Seq(Listed) /\ tail \in Seq(Listed)
      BY <2>2, <2>4
    <3>2. front \o tail \in Seq(Listed) /\ Len(front \o tail) = Len(front) + Len(tail)
      BY ONLY <3>1, Joined
    <3>3. QED
      BY <1>1, <2>2, <2>4, <2>5, <3>2
  <2>7. ASSUME NEW n \in 1..(Len(W) + 1)
        PROVE  list[n] = IF n < k THEN W[n] ELSE IF n = k THEN c ELSE W[n - 1]
    <3>1. CASE n <= k
      <4>1. list[n] = front[n]
        BY <1>1, <2>2, <2>4, <2>5, <3>1
      <4>2. n \in 1..k
        BY <1>1, <3>1
      <4>3. QED
        BY <1>1, <2>4, <4>1, <4>2
    <3>2. CASE k < n
      <4>1. list[n] = tail[n - k] /\ n - k \in 1..(Len(W) - k + 1)
        BY <1>1, <2>2, <2>4, <2>5, <3>2
      <4>2. k + (n - k) - 1 = n - 1
        BY <1>1
      <4>3. tail[n - k] = W[n - 1]
        BY <2>2, <4>1, <4>2
      <4>4. QED
        BY <1>1, <3>2, <4>1, <4>3
    <3>3. QED
      BY <1>1, <3>1, <3>2
  <2>8. QED
    BY <2>6, <2>7
<1>3. list[k] = c
  BY <1>1, <1>2
<1>4. \A n \in 1..Len(W) : Past(k, n) \in 1..(Len(W) + 1) /\ Past(k, n) # k /\ list[Past(k, n)] = W[n]
  <2> SUFFICES ASSUME NEW n \in 1..Len(W)
               PROVE  Past(k, n) \in 1..(Len(W) + 1) /\ Past(k, n) # k /\ list[Past(k, n)] = W[n]
    OBVIOUS
  <2>1. CASE n < k
    BY <1>1, <1>2, <2>1 DEF Past
  <2>2. CASE ~(n < k)
    <3>1. Past(k, n) = n + 1 /\ n + 1 \in 1..(Len(W) + 1) /\ ~(n + 1 < k) /\ n + 1 # k /\ (n + 1) - 1 = n
      BY <1>1, <2>2 DEF Past
    <3>2. QED
      BY <1>2, <3>1
  <2>3. QED
    BY <2>1, <2>2
<1>5. \A i \in 1..(Len(W) + 1) : i # k => \E n \in 1..Len(W) : Past(k, n) = i
  <2> SUFFICES ASSUME NEW i \in 1..(Len(W) + 1), i # k PROVE \E n \in 1..Len(W) : Past(k, n) = i
    OBVIOUS
  <2>1. CASE i < k
    BY <1>1, <2>1 DEF Past
  <2>2. CASE k < i
    <3>1. i - 1 \in 1..Len(W) /\ ~(i - 1 < k) /\ (i - 1) + 1 = i
      BY <1>1, <2>2
    <3>2. QED
      BY <3>1 DEF Past
  <2>3. QED
    BY <1>1, <2>1, <2>2
<1>6. Distinct(list)
  <2> SUFFICES ASSUME NEW i \in 1..(Len(W) + 1), NEW j \in 1..(Len(W) + 1), list[i].id = list[j].id
               PROVE  i = j
    BY <1>2 DEF Distinct
  <2>1. CASE i = k /\ j = k
    BY <2>1
  <2>2. CASE i # k /\ j = k
    BY <1>3, <1>4, <1>5, <2>2
  <2>3. CASE i = k /\ j # k
    BY <1>3, <1>4, <1>5, <2>3
  <2>4. CASE i # k /\ j # k
    <3>1. PICK m \in 1..Len(W) : Past(k, m) = i
      BY <1>5, <2>4
    <3>2. PICK n \in 1..Len(W) : Past(k, n) = j
      BY <1>5, <2>4
    <3>3. W[m].id = W[n].id
      BY <1>4, <3>1, <3>2
    <3>4. m = n
      BY <3>3 DEF Distinct
    <3>5. QED
      BY <3>1, <3>2, <3>4
  <2>5. QED
    BY <2>1, <2>2, <2>3, <2>4
<1>7. B!Without(list, c.id) = W
  <2>1. k \in 1..Len(list) /\ Len(list) - 1 = Len(W)
    BY <1>1, <1>2
  <2>2. B!Without(list, c.id) = [n \in 1..Len(W) |-> list[Past(k, n)]]
    <3>1. B!Without(list, list[k].id) = [n \in 1..(Len(list) - 1) |-> list[Past(k, n)]]
      BY <1>2, <1>6, <2>1, WithoutIs
    <3>2. list[k].id = c.id
      BY <1>3
    <3>3. QED
      BY <2>1, <3>1, <3>2
  <2>3. B!Without(list, c.id) = [n \in 1..Len(W) |-> W[n]]
    BY <1>4, <2>2
  <2>4. W = [n \in 1..Len(W) |-> W[n]]
    OBVIOUS
  <2>5. QED
    BY <2>3, <2>4
<1>8. QED
  BY <1>2, <1>3, <1>4, <1>6, <1>7
(* f lists the image of some places, which d lists, under e. *)
Composition(f, e, d, count, some, image) ==
  /\ \A i \in some : e[i] \in image
  /\ \A j \in image : \E i \in some : e[i] = j
  /\ f \in [1..count -> image] /\ \A n \in 1..count : f[n] = e[d[n]]

(* Places of places are places. *)
LEMMA Composed ==
  ASSUME NEW len \in Nat, NEW places \in SUBSET (1..len), NEW size, NEW e,
         Enumerates(e, size, places),
         NEW some \in SUBSET (1..size), NEW count, NEW d, Enumerates(d, count, some),
         NEW image, NEW f, Composition(f, e, d, count, some, image)
  PROVE  Enumerates(f, count, image)
<1>1. count \in Nat /\ size \in Nat
  BY DEF Enumerates
<1>2. \A n \in 1..count : d[n] \in some /\ d[n] \in 1..size
  BY DEF Enumerates
<1>3. \A m, n \in 1..count : m < n => f[m] < f[n]
  <2>1. \A m, n \in 1..count : m < n => d[m] < d[n]
    BY DEF Enumerates
  <2>2. \A m, n \in 1..size : m < n => e[m] < e[n]
    BY DEF Enumerates
  <2>3. \A m, n \in 1..count : m < n => e[d[m]] < e[d[n]]
    BY <1>2, <2>1, <2>2
  <2>4. QED
    BY <2>3 DEF Composition
<1>4. ASSUME NEW j \in image PROVE \E n \in 1..count : f[n] = j
  <2>1. PICK i \in some : e[i] = j
    BY DEF Composition
  <2>2. PICK n \in 1..count : d[n] = i
    BY DEF Enumerates
  <2>3. QED
    BY <2>1, <2>2 DEF Composition
<1>5. QED
  BY <1>1, <1>3, <1>4 DEF Enumerates, Composition

(* The board finds the column a card is stored in. *)
LEMMA StoredIs ==
  ASSUME BoardInv, NEW i \in 1..Len(items)
  PROVE  B!Stored(items[i].id) = items[i].column /\ items[i].id \in B!Ids
<1>1. i \in DOMAIN items /\ DOMAIN items = 1..Len(items)
  BY DEF BoardInv
<1>2. \A j \in DOMAIN items : items[j].id = items[i].id => j = i
  BY <1>1 DEF BoardInv, Distinct
<1>3. (CHOOSE j \in DOMAIN items : items[j].id = items[i].id) = i
  BY <1>1, <1>2
<1>4. QED
  BY <1>1, <1>3 DEF B!Stored, B!Ids

(* The cards of a column but the dragged one: t lists their places among   *)
(* the others, and the board shows the same. *)
Counted(t, others, column) ==
  LET target == {i \in DOMAIN others : others[i].column = column}
  IN  /\ Enumerates(t, Cardinality(target), target)
      /\ \A n \in 1..Cardinality(target) : Rank(target, t[n]) = n
      /\ B!Destination(column) = [n \in 1..Cardinality(target) |-> others[t[n]].id]

(* So the product counts the same cards as the board did. *)
LEMMA DestinationIs ==
  ASSUME BoardInv, NEW p \in 1..Len(items), active = items[p].id, NEW column \in Columns
  PROVE  \E t : Counted(t, B!Without(items, active), column)
<1> DEFINE len == Len(items)
           W == B!Without(items, active)
           target == {i \in DOMAIN W : W[i].column = column}
           there == {i \in 1..len : i # p /\ items[i].column = column}
           ids == [i \in DOMAIN items |-> items[i].id]
           shown == {i \in DOMAIN ids : B!ColumnShown(ids[i]) = column}
           listing == B!Shown(column)
           others == {i \in DOMAIN listing : listing[i] # active}
<1>1. /\ items \in Seq(Listed) /\ Distinct(items) /\ len \in Nat /\ len - 1 \in Nat
      /\ DOMAIN items = 1..len /\ DOMAIN ids = 1..len
  BY DEF BoardInv
<1>2. \A i \in 1..len : ids[i] = items[i].id /\ (ids[i] = active <=> i = p)
  BY <1>1 DEF Distinct
<1>3. \A i \in 1..len : i # p => B!ColumnShown(ids[i]) = items[i].column
  BY <1>2, StoredIs DEF B!ColumnShown
<1>4. shown \in SUBSET (1..len) /\ there \in SUBSET (1..len)
  BY <1>1
<1>5. PICK e : Enumerates(e, Cardinality(shown), shown)
  BY <1>1, <1>4, PlacesAre
<1>6. Cardinality(shown) \in Nat /\ \A n \in 1..Cardinality(shown) : e[n] \in shown
  BY <1>5 DEF Enumerates
<1>7. listing = [n \in 1..Cardinality(shown) |-> ids[e[n]]]
  <2>1. listing = B!Kept(ids, shown)
    BY DEF B!Shown
  <2> HIDE DEF listing, ids, shown, len
  <2>2. KeptAs(ids, shown, Cardinality(shown), e)
    BY <1>1, <1>4, <1>5, KeptBy
  <2>3. QED
    BY <2>1, <2>2 DEF KeptAs
<1>8. others \in SUBSET (1..Cardinality(shown)) /\ Cardinality(shown) \in Nat
  <2>1. DOMAIN listing = 1..Cardinality(shown)
    BY <1>7
  <2>2. QED
    BY <1>6, <2>1
<1>9. PICK d : Enumerates(d, Cardinality(others), others)
  BY <1>8, PlacesAre
<1>10. \A n \in 1..Cardinality(others) : d[n] \in others
  BY <1>9 DEF Enumerates
<1>11. (\A i \in others : e[i] \in there) /\ (\A j \in there : \E i \in others : e[i] = j)
  <2>1. \A i \in 1..Cardinality(shown) : i \in others <=> e[i] # p
    <3> SUFFICES ASSUME NEW i \in 1..Cardinality(shown) PROVE i \in others <=> e[i] # p
      OBVIOUS
    <3>1. i \in DOMAIN listing /\ listing[i] = ids[e[i]] /\ e[i] \in 1..len
      BY <1>4, <1>6, <1>7
    <3>2. QED
      BY <1>2, <3>1
  <2>2. ASSUME NEW i \in others PROVE e[i] \in there
    <3>1. e[i] \in shown /\ e[i] # p /\ e[i] \in 1..len
      BY <1>4, <1>6, <1>8, <2>1
    <3>2. QED
      BY <1>3, <3>1
  <2>3. ASSUME NEW j \in there PROVE \E i \in others : e[i] = j
    <3>1. j \in shown /\ j # p
      BY <1>1, <1>3
    <3>2. PICK i \in 1..Cardinality(shown) : e[i] = j
      BY <1>5, <3>1 DEF Enumerates
    <3>3. QED
      BY <2>1, <3>1, <3>2
  <2>4. QED
    BY <2>2, <2>3
<1>12. B!Destination(column) = B!Kept(ids, there)
  <2>1. B!Destination(column) = B!Kept(listing, others)
    BY DEF B!Destination
  <2>2. B!Kept(listing, others) = [n \in 1..Cardinality(others) |-> listing[d[n]]]
    <3> HIDE DEF listing, others, shown
    <3>1. KeptAs(listing, others, Cardinality(others), d)
      BY <1>8, <1>9, KeptBy
    <3>2. QED
      BY <3>1 DEF KeptAs
  <2>3. \A n \in 1..Cardinality(others) : listing[d[n]] = ids[e[d[n]]]
    BY <1>7, <1>8, <1>10
  <2> DEFINE f == [n \in 1..Cardinality(others) |-> e[d[n]]]
  <2>4. Enumerates(f, Cardinality(others), there)
    <3>1. f \in [1..Cardinality(others) -> there] /\ \A n \in 1..Cardinality(others) : f[n] = e[d[n]]
      BY <1>10, <1>11
    <3> HIDE DEF f, listing, others, shown, there, len
    <3>2. Composition(f, e, d, Cardinality(others), others, there)
      BY <1>11, <3>1 DEF Composition
    <3>3. QED
      BY <1>1, <1>4, <1>5, <1>8, <1>9, <3>2, Composed
  <2>5. KeptAs(ids, there, Cardinality(others), f)
    <3> HIDE DEF f, listing, others, shown, there, len, ids
    <3>1. QED
      BY <1>1, <1>4, <2>4, KeptBy
  <2>6. B!Kept(ids, there) = [n \in 1..Cardinality(others) |-> ids[e[d[n]]]]
    <3> HIDE DEF listing, others, shown, there, len, ids
    <3>1. QED
      BY <2>5 DEF KeptAs
  <2> HIDE DEF listing, others, shown, there, len, ids
  <2>7. QED
    BY <2>1, <2>2, <2>3, <2>6
<1> DEFINE rest == [n \in 1..(len - 1) |-> Past(p, n)]
<1>13. /\ W = [n \in 1..(len - 1) |-> items[Past(p, n)]]
       /\ Enumerates(rest, len - 1, (1..len) \ {p})
  <2>1. p \in 1..Len(items)
    OBVIOUS
  <2>2. QED
    BY <1>1, WithoutIs, PastIs
<1>14. target \in SUBSET (1..(len - 1)) /\ DOMAIN W = 1..(len - 1)
  BY <1>13
<1>15. PICK t : Enumerates(t, Cardinality(target), target)
  BY <1>1, <1>14, PlacesAre
<1>16. /\ \A n \in 1..Cardinality(target) : t[n] \in target /\ Rank(target, t[n]) = n
       /\ Cardinality(target) \in Nat
  <2> HIDE DEF target, len, W
  <2>1. QED
    BY <1>1, <1>14, <1>15, KeptBy
<1>17. (\A i \in target : rest[i] \in there) /\ (\A j \in there : \E i \in target : rest[i] = j)
  <2>1. ASSUME NEW i \in target PROVE rest[i] \in there
    <3>1. i \in 1..(len - 1) /\ W[i].column = column
      BY <1>14
    <3>2. rest[i] \in (1..len) \ {p} /\ W[i] = items[rest[i]]
      BY <1>13, <3>1 DEF Enumerates
    <3>3. QED
      BY <3>1, <3>2
  <2>2. ASSUME NEW j \in there PROVE \E i \in target : rest[i] = j
    <3>1. PICK i \in 1..(len - 1) : rest[i] = j
      BY <1>13 DEF Enumerates
    <3>2. W[i] = items[j]
      BY <1>13, <3>1
    <3>3. QED
      BY <1>14, <3>1, <3>2
  <2> HIDE DEF rest
  <2>3. QED
    BY <2>1, <2>2
<1>18. B!Kept(ids, there) = [n \in 1..Cardinality(target) |-> W[t[n]].id]
  <2> DEFINE f == [n \in 1..Cardinality(target) |-> rest[t[n]]]
  <2>1. Enumerates(f, Cardinality(target), there)
    <3>1. (1..len) \ {p} \in SUBSET (1..len)
      OBVIOUS
    <3> HIDE DEF rest
    <3>2. f \in [1..Cardinality(target) -> there] /\ \A n \in 1..Cardinality(target) : f[n] = rest[t[n]]
      BY <1>16, <1>17
    <3> HIDE DEF f, target, there, len, W
    <3>3. Composition(f, rest, t, Cardinality(target), target, there)
      BY <1>17, <3>2 DEF Composition
    <3>4. /\ Enumerates(rest, len - 1, (1..len) \ {p})
          /\ Enumerates(t, Cardinality(target), target)
          /\ target \in SUBSET (1..(len - 1)) /\ len \in Nat
      BY <1>1, <1>13, <1>14, <1>15
    <3> DEFINE places == (1..len) \ {p}
               size == len - 1
    <3> HIDE DEF places, size
    <3>5. /\ Enumerates(rest, size, places) /\ places \in SUBSET (1..len)
          /\ target \in SUBSET (1..size)
      BY <3>1, <3>4 DEF places, size
    <3>6. QED
      BY <3>3, <3>4, <3>5, Composed
  <2>2. KeptAs(ids, there, Cardinality(target), f)
    <3> HIDE DEF f, target, there, len, ids
    <3>1. QED
      BY <1>1, <1>4, <2>1, KeptBy
  <2>3. B!Kept(ids, there) = [n \in 1..Cardinality(target) |-> ids[f[n]]]
    <3> HIDE DEF f, target, there, len, ids
    <3>1. QED
      BY <2>2 DEF KeptAs
  <2>4. \A n \in 1..Cardinality(target) : ids[f[n]] = W[t[n]].id
    <3> SUFFICES ASSUME NEW n \in 1..Cardinality(target) PROVE ids[f[n]] = W[t[n]].id
      OBVIOUS
    <3>1. t[n] \in 1..(len - 1) /\ f[n] = rest[t[n]]
      BY <1>14, <1>16
    <3>2. rest[t[n]] \in 1..len /\ W[t[n]] = items[rest[t[n]]]
      BY <1>13, <3>1 DEF Enumerates
    <3>3. QED
      BY <1>2, <3>1, <3>2
  <2> HIDE DEF f, target, there, len, ids, W
  <2>5. QED
    BY <2>3, <2>4
<1>19. Counted(t, W, column)
  <2> HIDE DEF ids, there, W
  <2>1. QED
    BY <1>12, <1>15, <1>16, <1>18 DEF Counted
<1>20. QED
  BY <1>19
(* Where a card is among the cards of a column. *)
Spot(cards, id) == CHOOSE i \in DOMAIN cards : cards[i] = id

(* Where a card of a list is in its column, and what is below it. *)
LEMMA LandsAt ==
  ASSUME NEW list \in Seq(Listed), Distinct(list), NEW k \in 1..Len(list),
         NEW column, list[k].column = column,
         NEW cards, cards = B!InColumn(list, column),
         NEW spot, spot = Spot(cards, list[k].id)
  PROVE  /\ \E i \in DOMAIN cards : cards[i] = list[k].id
         /\ k = Len(list) => spot = Len(cards)
         /\ k < Len(list) /\ list[k + 1].column = column =>
              spot < Len(cards) /\ cards[spot + 1] = list[k + 1].id
<1> DEFINE len == Len(list)
           places == {i \in DOMAIN list : list[i].column = column}
           size == Cardinality(places)
           kept == B!Kept(list, places)
<1>1. len \in Nat /\ DOMAIN list = 1..len /\ places \in SUBSET (1..len) /\ k \in Nat
  OBVIOUS
<1>2. PICK e : Enumerates(e, size, places)
  BY <1>1, PlacesAre
<1>3. /\ size \in Nat
      /\ \A n \in 1..size : e[n] \in places /\ e[n] \in 1..len
      /\ \A m, n \in 1..size : m < n => e[m] < e[n]
      /\ \A i \in places : \E n \in 1..size : e[n] = i
  BY <1>1, <1>2 DEF Enumerates
<1>4. cards = [n \in 1..size |-> list[e[n]].id]
  <2>1. cards = [i \in DOMAIN kept |-> kept[i].id]
    BY DEF B!InColumn
  <2>2. kept = [n \in 1..size |-> list[e[n]]]
    <3> HIDE DEF kept, places, len
    <3>1. KeptAs(list, places, size, e)
      BY <1>1, <1>2, KeptBy
    <3>2. QED
      BY <3>1 DEF KeptAs, kept
  <2> HIDE DEF kept, size
  <2>3. QED
    BY <2>1, <2>2
<1>5. DOMAIN cards = 1..size /\ Len(cards) = size /\ \A n \in 1..size : cards[n] = list[e[n]].id
  BY <1>3, <1>4
<1> HIDE DEF size
<1>6. k \in places
  BY <1>1
<1>7. PICK n \in 1..size : e[n] = k
  BY <1>3, <1>6
<1>8. cards[n] = list[k].id
  BY <1>5, <1>7
<1>9. spot = n
  <2>1. \A i \in 1..size : cards[i] = list[k].id => i = n
    <3> SUFFICES ASSUME NEW i \in 1..size, cards[i] = list[k].id PROVE i = n
      OBVIOUS
    <3>1. list[e[i]].id = list[k].id /\ e[i] \in 1..len
      BY <1>3, <1>5
    <3>2. e[i] = k
      BY <3>1 DEF Distinct
    <3>3. i \in Int /\ n \in Int /\ ~(i < n) /\ ~(n < i)
      BY <1>1, <1>3, <1>7, <3>2
    <3>4. QED
      BY <3>3
  <2>2. QED
    BY <1>5, <1>8, <2>1 DEF Spot
<1>10. ASSUME k = len PROVE spot = size
  <2>1. ~(n < size)
    <3> SUFFICES ASSUME n < size PROVE FALSE
      OBVIOUS
    <3>1. size \in 1..size
      BY <1>3
    <3>2. e[n] < e[size] /\ e[size] \in 1..len
      BY <1>3, <3>1
    <3>3. QED
      BY <1>1, <1>7, <1>10, <3>2
  <2>2. QED
    BY <1>3, <1>9, <2>1
<1>11. ASSUME k < len, list[k + 1].column = column
       PROVE  spot < size /\ cards[spot + 1] = list[k + 1].id
  <2>1. k + 1 \in places /\ k + 1 \in Nat
    BY <1>1, <1>11
  <2>2. PICK m \in 1..size : e[m] = k + 1
    BY <1>3, <2>1
  <2>3. n < m
    <3>1. m # n /\ ~(m < n)
      <4>1. e[n] < e[m] /\ e[n] \in Int /\ e[m] \in Int
        BY <1>1, <1>7, <2>2
      <4>2. m < n => e[m] < e[n]
        BY <1>3
      <4>3. QED
        BY <4>1, <4>2
    <3>2. QED
      BY <1>3, <3>1
  <2>4. m = n + 1
    <3> SUFFICES ASSUME n + 1 < m PROVE FALSE
      BY <1>3, <2>3
    <3>1. n + 1 \in 1..size /\ n < n + 1
      BY <1>3
    <3>2. e[n] < e[n + 1] /\ e[n + 1] < e[m] /\ e[n + 1] \in 1..len
      BY <1>3, <3>1
    <3>3. QED
      BY <1>1, <1>7, <2>2, <3>2
  <2>5. n < size /\ n + 1 \in 1..size
    BY <1>3, <2>3, <2>4
  <2>6. cards[n + 1] = list[k + 1].id
    BY <1>5, <2>2, <2>4
  <2>7. QED
    BY <1>9, <2>5, <2>6
<1>12. QED
  BY <1>5, <1>8, <1>10, <1>11

(* The column of a target is one of the board's, and that of another card  *)
(* is where it is stored. *)
LEMMA ColumnIs ==
  ASSUME BoardInv, NEW id, B!ColumnOf(id) # NoTarget
  PROVE  /\ B!ColumnOf(id) \in Columns
         /\ id \in Cards \ {active} =>
              \E i \in 1..Len(items) : items[i].id = id /\ items[i].column = B!ColumnOf(id)
<1>1. \A i \in 1..Len(items) : items[i] \in Listed
  BY DEF BoardInv
<1>2. \A i \in 1..Len(items) : items[i].column \in Columns
  BY <1>1 DEF Listed
<1>3. id \in B!Ids => \E i \in 1..Len(items) : items[i].id = id
  BY DEF B!Ids, BoardInv
<1>4. id \in B!Ids => \E i \in 1..Len(items) : items[i].id = id /\ items[i].column = B!Stored(id)
  BY <1>3, StoredIs
<1>5. B!ColumnOf(id) \in Columns
  BY <1>2, <1>4 DEF B!ColumnOf, BoardInv
<1>6. ASSUME id \in Cards \ {active}
      PROVE  \E i \in 1..Len(items) : items[i].id = id /\ items[i].column = B!ColumnOf(id)
  <2>1. id \notin Columns
    BY <1>6, InterfaceAssumption
  <2>2. B!ColumnOf(id) = IF id \in B!Ids THEN B!Stored(id) ELSE NoTarget
    BY <1>6, <2>1 DEF B!ColumnOf
  <2>3. id \in B!Ids /\ B!ColumnOf(id) = B!Stored(id)
    BY <2>2
  <2>4. QED
    BY <1>4, <2>3
<1>7. QED
  BY <1>5, <1>6

(* A drop leaves a board, and puts the card where it shows. *)
LEMMA DropLands == ASSUME BoardInv, B!DragEnd PROVE BoardInv' /\ B!Landed
<1> DEFINE column == B!ColumnOf(over)
           W == B!Without(items, active)
           len == Len(W)
           target == {i \in DOMAIN W : W[i].column = column}
           size == Cardinality(target)
           shown == B!Destination(column)
           found == {i \in DOMAIN shown : shown[i] = over}
           position == B!Position(column)
           anchor == {i \in target : Rank(target, i) = position}
           k == IF anchor = {} THEN len + 1 ELSE CHOOSE i \in anchor : TRUE
           card == B!Card(active, column)
<1>1. PICK p \in 1..Len(items) : active = items[p].id
  BY DEF B!DragEnd, B!Ids, BoardInv
<1>2. column \in Columns
  BY ColumnIs DEF B!DragEnd
<1>3. items \in Seq(Listed) /\ Distinct(items)
  BY DEF BoardInv
<1>4. /\ W \in Seq(Listed) /\ Distinct(W) /\ len = Len(items) - 1 /\ len \in Nat
      /\ DOMAIN W = 1..len
      /\ W = [n \in 1..len |-> items[Past(p, n)]]
      /\ \A n \in 1..len : W[n].id # active /\ W[n] \in Listed
  <2>1. /\ W \in Seq(Listed) /\ Distinct(W) /\ len = Len(items) - 1
        /\ W = [n \in 1..(Len(items) - 1) |-> items[Past(p, n)]]
        /\ \A n \in 1..(Len(items) - 1) : W[n].id # active
    BY <1>1, <1>3, WithoutIs
  <2>2. len \in Nat /\ DOMAIN W = 1..len /\ \A n \in 1..len : W[n] \in Listed
    BY <2>1
  <2>3. QED
    BY <2>1, <2>2
<1>5. active \in Cards /\ card \in Listed /\ card.id = active /\ card.column = column
  <2>1. items[p] \in Listed
    BY <1>1, <1>3
  <2>2. items[p].id \in Cards
    BY <2>1 DEF Listed
  <2>3. QED
    BY <1>1, <1>2, <2>2 DEF B!Card, Listed
<1>6. PICK t : Counted(t, W, column)
  BY <1>1, <1>2, DestinationIs
<1>7. /\ Enumerates(t, size, target) /\ \A n \in 1..size : Rank(target, t[n]) = n
      /\ shown = [n \in 1..size |-> W[t[n]].id]
  BY <1>6 DEF Counted
<1>8. /\ size \in Nat /\ \A n \in 1..size : t[n] \in target /\ t[n] \in 1..len
      /\ \A i \in target : \E n \in 1..size : t[n] = i
  BY <1>4, <1>7 DEF Enumerates
<1>9. DOMAIN shown = 1..size /\ Len(shown) = size /\ \A n \in 1..size : shown[n] = W[t[n]].id
  BY <1>7, <1>8
<1>10. items' = B!InsertAt(W, k, card)
  BY DEF B!DragEnd, B!Placed, Rank, B!Cardinality, Cardinality
<1>11. position = IF found = {} THEN size + 1 ELSE CHOOSE i \in found : TRUE
  BY <1>9 DEF B!Position
<1> HIDE DEF position, card
<1>12. k \in 1..(len + 1)
  <2>1. anchor # {} => (CHOOSE i \in anchor : TRUE) \in 1..len
    BY <1>4
  <2> HIDE DEF anchor, len
  <2>2. QED
    BY <1>4, <2>1
<1>13. ASSUME over \in Columns PROVE k = len + 1
  <2>1. found = {}
    <3> SUFFICES ASSUME NEW n \in 1..size, shown[n] = over PROVE FALSE
      BY <1>9
    <3>1. W[t[n]] \in Listed /\ W[t[n]].id = over
      BY <1>4, <1>8, <1>9
    <3>2. over \in Cards
      BY <3>1 DEF Listed
    <3>3. QED
      BY <1>13, <3>2, InterfaceAssumption
  <2>2. position = size + 1
    BY <1>11, <2>1
  <2>3. anchor = {}
    <3> SUFFICES ASSUME NEW i \in target, Rank(target, i) = size + 1 PROVE FALSE
      BY <2>2
    <3>1. PICK n \in 1..size : t[n] = i
      BY <1>8
    <3>2. n = size + 1
      BY <1>7, <3>1
    <3>3. QED
      BY <1>8, <3>2
  <2>4. QED
    BY <2>3
<1>14. ASSUME over \in Cards \ {active} PROVE k \in 1..len /\ W[k].id = over /\ W[k].column = column
  <2>1. PICK i \in 1..Len(items) : items[i].id = over /\ items[i].column = column
    BY <1>14, ColumnIs DEF B!DragEnd
  <2>2. i # p
    BY <1>1, <1>14, <2>1
  <2>3. PICK q \in 1..len : Past(p, q) = i
    <3>1. Enumerates([n \in 1..(Len(items) - 1) |-> Past(p, n)], Len(items) - 1, (1..Len(items)) \ {p})
      BY <1>3, PastIs
    <3>2. \E n \in 1..(Len(items) - 1) : Past(p, n) = i
      BY <2>2, <3>1 DEF Enumerates
    <3>3. QED
      BY <1>4, <3>2
  <2>4. W[q].id = over /\ W[q].column = column /\ q \in target
    BY <1>4, <2>1, <2>3
  <2>5. PICK n \in 1..size : t[n] = q
    BY <1>8, <2>4
  <2>6. n \in found
    BY <1>9, <2>4, <2>5
  <2>7. \A m \in found : m = n
    <3> SUFFICES ASSUME NEW m \in 1..size, shown[m] = over PROVE m = n
      BY <1>9
    <3>1. W[t[m]].id = W[q].id /\ t[m] \in 1..len
      BY <1>8, <1>9, <2>4
    <3>2. t[m] = q
      BY <1>4, <3>1 DEF Distinct
    <3>3. QED
      BY <1>7, <2>5, <3>2
  <2>8. position = n
    BY <1>11, <2>6, <2>7
  <2>9. q \in anchor /\ \A j \in anchor : j = q
    <3>1. q \in anchor
      BY <1>7, <2>4, <2>5, <2>8
    <3>2. ASSUME NEW j \in target, Rank(target, j) = position PROVE j = q
      <4>1. PICK m \in 1..size : t[m] = j
        BY <1>8
      <4>2. m = n
        BY <1>7, <2>8, <3>2, <4>1
      <4>3. QED
        BY <2>5, <4>1, <4>2
    <3>3. QED
      BY <3>1, <3>2
  <2>10. k = q
    BY <2>9
  <2>11. QED
    BY <2>4, <2>10
<1> HIDE DEF k, W
<1>15. /\ items' \in Seq(Listed) /\ Len(items') = len + 1 /\ Distinct(items')
       /\ items'[k] = card
       /\ \A n \in 1..len : items'[Past(k, n)] = W[n]
       /\ B!Without(items', active) = W
  <2>1. /\ W \in Seq(Listed) /\ Distinct(W) /\ k \in 1..(Len(W) + 1) /\ card \in Listed
        /\ \A n \in 1..Len(W) : W[n].id # card.id
    BY <1>4, <1>5, <1>12
  <2> DEFINE final == items'
  <2>2. final = B!InsertAt(W, k, card)
    BY <1>10
  <2> HIDE DEF final
  <2>3. /\ final \in Seq(Listed) /\ Len(final) = Len(W) + 1 /\ Distinct(final)
        /\ final[k] = card
        /\ \A n \in 1..Len(W) : final[Past(k, n)] = W[n]
        /\ B!Without(final, card.id) = W
    BY <2>1, <2>2, InsertedIs
  <2>4. QED
    BY <1>5, <2>3 DEF final
<1>16. BoardInv'
  <2>1. active' = NoTarget /\ preview' = NoTarget
    BY DEF B!DragEnd, B!Ended
  <2>2. BoardInv' <=> /\ items' \in Seq(Listed) /\ Distinct(items')
                      /\ active' \in Cards \cup {NoTarget} /\ preview' \in Columns \cup {NoTarget}
    BY DEF BoardInv, Listed, Distinct
  <2>3. QED
    BY <1>15, <2>1, <2>2
<1> DEFINE cards == B!InColumn(items', column)
           spot == Spot(cards, active)
<1>17. /\ \E i \in DOMAIN cards : cards[i] = active
       /\ k = len + 1 => spot = Len(cards)
       /\ k < len + 1 /\ items'[k + 1].column = column =>
            spot < Len(cards) /\ cards[spot + 1] = items'[k + 1].id
  <2> DEFINE final == items'
  <2>1. final \in Seq(Listed) /\ Distinct(final) /\ k \in 1..Len(final) /\ Len(final) = len + 1
        /\ final[k].column = column /\ final[k].id = active
    BY <1>5, <1>12, <1>15
  <2>2. cards = B!InColumn(final, column) /\ spot = Spot(cards, final[k].id)
    BY <2>1
  <2> HIDE DEF final, cards, spot, column, len
  <2>3. /\ \E i \in DOMAIN cards : cards[i] = final[k].id
        /\ k = Len(final) => spot = Len(cards)
        /\ k < Len(final) /\ final[k + 1].column = column =>
             spot < Len(cards) /\ cards[spot + 1] = final[k + 1].id
    BY <2>1, <2>2, LandsAt
  <2>4. QED
    BY <2>1, <2>3 DEF final
<1>18. B!OthersStay
  BY <1>15 DEF B!OthersStay, W
<1>19. ASSUME over \in Cards \ {active} PROVE spot < Len(cards) /\ cards[spot + 1] = over
  <2>1. k \in 1..len /\ W[k].id = over /\ W[k].column = column
    BY <1>14, <1>19
  <2>2. Past(k, k) = k + 1 /\ k < len + 1
    BY <1>4, <2>1 DEF Past
  <2>3. items'[k + 1] = W[k]
    BY <1>15, <2>1, <2>2
  <2> HIDE DEF cards, spot
  <2>4. QED
    BY <1>17, <2>1, <2>2, <2>3
<1>20. B!Landed
  <2>1. over \in Columns => spot = Len(cards)
    BY <1>13, <1>17
  <2>2. QED
    BY <1>17, <1>18, <1>19, <2>1 DEF B!Landed, Spot
<1>21. QED
  BY <1>16, <1>20
(* Any order and columns of the cards are a board. *)
LEMMA BoardStart == B!Init => BoardInv
<1> SUFFICES ASSUME B!Init PROVE BoardInv
  OBVIOUS
<1>1. PICK ids \in B!SetToSeqs(Cards), columns \in [Cards -> Columns] :
        items = [i \in DOMAIN ids |-> B!Card(ids[i], columns[ids[i]])]
  BY DEF B!Init
<1> DEFINE len == Cardinality(Cards)
<1>2. len \in Nat
  BY InterfaceAssumption, FS_CardinalityType
<1>3. ids \in [1..len -> Cards] /\ \A i, j \in 1..len : i # j => ids[i] # ids[j]
  BY DEF B!SetToSeqs, B!Cardinality, Cardinality
<1> HIDE DEF len
<1>4. items = [i \in 1..len |-> [id |-> ids[i], column |-> columns[ids[i]]]]
  BY <1>1, <1>3 DEF B!Card
<1>5. \A i \in 1..len : items[i] \in Listed /\ items[i].id = ids[i]
  BY <1>3, <1>4 DEF Listed
<1>6. items \in [1..len -> Listed]
  BY <1>4, <1>5
<1>7. items \in Seq(Listed) /\ Len(items) = len
  BY <1>2, <1>6
<1>8. Distinct(items)
  BY <1>3, <1>5, <1>7 DEF Distinct
<1>9. QED
  BY <1>7, <1>8 DEF B!Init, BoardInv

(* Every change of the board or of its cards leaves a board. *)
LEMMA BoardStep == ASSUME BoardInv, B!Next PROVE BoardInv'
<1>1. BoardInv' <=> /\ items' \in Seq(Listed) /\ Distinct(items')
                    /\ active' \in Cards \cup {NoTarget} /\ preview' \in Columns \cup {NoTarget}
  BY DEF BoardInv, Listed, Distinct
<1>2. ASSUME NEW id \in Cards, B!DragStart(id) PROVE BoardInv'
  BY <1>1, <1>2 DEF B!DragStart, BoardInv
<1>3. ASSUME NEW id \in Cards, B!TakeAway(id) PROVE BoardInv'
  <2>1. items \in Seq(Listed) /\ Distinct(items)
    BY DEF BoardInv
  <2>2. PICK p \in 1..Len(items) : items[p].id = id
    BY <1>3 DEF B!TakeAway, B!Ids, BoardInv
  <2>3. items' = B!Without(items, items[p].id) /\ UNCHANGED <<active, preview>>
    BY <1>3, <2>2 DEF B!TakeAway
  <2>4. items' \in Seq(Listed) /\ Distinct(items')
    BY <2>1, <2>3, WithoutIs
  <2>5. QED
    BY <1>1, <2>3, <2>4 DEF BoardInv
<1>4. ASSUME NEW id \in Cards, NEW column \in Columns, B!Add(id, column) PROVE BoardInv'
  <2> DEFINE card == B!Card(id, column)
             final == items'
  <2>1. card \in Listed /\ card.id = id
    BY DEF B!Card, Listed
  <2>2. items \in Seq(Listed) /\ Distinct(items) /\ Len(items) \in Nat
    BY DEF BoardInv
  <2>3. final = Append(items, card) /\ UNCHANGED <<active, preview>>
    BY <1>4 DEF B!Add
  <2>4. \A i \in 1..Len(items) : items[i].id # id
    BY <1>4, <2>2 DEF B!Add, B!Ids
  <2> HIDE DEF card, final
  <2>5. /\ final \in Seq(Listed) /\ Len(final) = Len(items) + 1
        /\ \A i \in 1..Len(items) : final[i] = items[i]
        /\ final[Len(items) + 1] = card
    BY <2>1, <2>2, <2>3
  <2>6. Distinct(final)
    <3> SUFFICES ASSUME NEW i \in 1..(Len(items) + 1), NEW j \in 1..(Len(items) + 1),
                        final[i].id = final[j].id
                 PROVE  i = j
      BY <2>5 DEF Distinct
    <3>1. CASE i \in 1..Len(items) /\ j \in 1..Len(items)
      BY <2>2, <2>5, <3>1 DEF Distinct
    <3>2. CASE i = Len(items) + 1 /\ j \in 1..Len(items)
      BY <2>1, <2>4, <2>5, <3>2
    <3>3. CASE i \in 1..Len(items) /\ j = Len(items) + 1
      BY <2>1, <2>4, <2>5, <3>3
    <3>4. CASE i = Len(items) + 1 /\ j = Len(items) + 1
      BY <3>4
    <3>5. QED
      BY <2>2, <3>1, <3>2, <3>3, <3>4
  <2>7. QED
    BY <1>1, <2>3, <2>5, <2>6 DEF BoardInv, final
<1>5. ASSUME NEW target, B!DragOver(target) PROVE BoardInv'
  <2>1. preview' \in Columns \cup {NoTarget}
    BY <1>5, ColumnIs DEF B!DragOver, BoardInv
  <2>2. UNCHANGED <<items, active>>
    BY <1>5 DEF B!DragOver
  <2>3. QED
    BY <1>1, <2>1, <2>2 DEF BoardInv
<1>6. CASE B!DragEnd
  BY <1>6, DropLands
<1>7. CASE B!DragAway
  BY <1>1, <1>7 DEF B!DragAway, B!Ended, BoardInv
<1>8. QED
  BY <1>2, <1>3, <1>4, <1>5, <1>6, <1>7 DEF B!Next

(* Only a drop ends a drag and moves a card. *)
LEMMA OnlyDropsMove ==
  ASSUME BoardInv, B!Next, active # NoTarget, active' = NoTarget, items' # items
  PROVE  B!Landed
<1>1. B!DragEnd
  BY InterfaceAssumption DEF B!Next, B!DragStart, B!TakeAway, B!Add, B!DragOver, B!DragAway
<1>2. QED
  BY <1>1, DropLands

(* What is left alone keeps the invariant. *)
LEMMA BoardRest == BoardInv /\ UNCHANGED ofBoard => BoardInv'
BY DEF BoardInv, ofBoard, Distinct, Listed

-----------------------------------------------------------------------------
(* The parts *)

(* The steps of MCInterface that are steps of Kanban. *)
LEMMA BoardMoves == BoardNext => part' = part /\ part = "board" /\ B!Next
BY DEF BoardNext, InBoard, B!Next

(* A behaviour of one part stays one. *)
LEMMA PartStays == ASSUME [Next]_vars PROVE part' = part
BY SearchMoves, GridMoves, TreeMoves, BoardMoves, CalendarMoves DEF Next, vars

(* The invariants hold throughout: of SearchBar, *)
LEMMA SearchHold == Spec => [](part = "search" => SearchInv)
<1>1. Init => (part = "search" => SearchInv)
  BY SearchStart DEF Init
<1>2. ASSUME part = "search" => SearchInv, [Next]_vars
      PROVE  (part = "search" => SearchInv)'
  <2> SUFFICES ASSUME part = "search", SearchInv PROVE SearchInv'
    BY <1>2, PartStays
  <2>1. CASE SearchNext
    BY <2>1, SearchMoves, SearchStep
  <2>2. CASE UNCHANGED vars
    BY <2>2, SearchRest DEF vars
  <2>3. QED
    BY <1>2, <2>1, <2>2, GridMoves, TreeMoves, CalendarMoves, BoardMoves DEF Next
<1>3. QED
  BY <1>1, <1>2, PTL DEF Spec

(* of DataGrid, *)
LEMMA GridHold == Spec => [](part = "grid" => GridInv)
<1>1. Init => (part = "grid" => GridInv)
  BY GridStart DEF Init
<1>2. ASSUME part = "grid" => GridInv, [Next]_vars
      PROVE  (part = "grid" => GridInv)'
  <2> SUFFICES ASSUME part = "grid", GridInv PROVE GridInv'
    BY <1>2, PartStays
  <2>1. CASE GridNext
    BY <2>1, GridMoves, GridStep
  <2>2. CASE UNCHANGED vars
    BY <2>2, GridRest DEF vars
  <2>3. QED
    BY <1>2, <2>1, <2>2, SearchMoves, TreeMoves, CalendarMoves, BoardMoves DEF Next
<1>3. QED
  BY <1>1, <1>2, PTL DEF Spec

(* of TreeView, *)
LEMMA TreeHold == Spec => [](part = "tree" => TreeInv)
<1>1. Init => (part = "tree" => TreeInv)
  BY TreeStart DEF Init
<1>2. ASSUME part = "tree" => TreeInv, [Next]_vars
      PROVE  (part = "tree" => TreeInv)'
  <2> SUFFICES ASSUME part = "tree", TreeInv PROVE TreeInv'
    BY <1>2, PartStays
  <2>1. CASE TreeNext
    BY <2>1, TreeMoves, TreeStep
  <2>2. CASE UNCHANGED vars
    BY <2>2, TreeRest DEF vars
  <2>3. QED
    BY <1>2, <2>1, <2>2, SearchMoves, GridMoves, CalendarMoves, BoardMoves DEF Next
<1>3. QED
  BY <1>1, <1>2, PTL DEF Spec

(* of Kanban, *)
LEMMA BoardHold == Spec => [](part = "board" => BoardInv)
<1>1. Init => (part = "board" => BoardInv)
  BY BoardStart DEF Init
<1>2. ASSUME part = "board" => BoardInv, [Next]_vars
      PROVE  (part = "board" => BoardInv)'
  <2> SUFFICES ASSUME part = "board", BoardInv PROVE BoardInv'
    BY <1>2, PartStays
  <2>1. CASE BoardNext
    BY <2>1, BoardMoves, BoardStep
  <2>2. CASE UNCHANGED vars
    BY <2>2, BoardRest DEF vars
  <2>3. QED
    BY <1>2, <2>1, <2>2, SearchMoves, GridMoves, TreeMoves, CalendarMoves DEF Next
<1>3. QED
  BY <1>1, <1>2, PTL DEF Spec

(* of Calendar. *)
LEMMA CalendarHold == Spec => [](part = "calendar" => CalendarInv)
<1>1. Init => (part = "calendar" => CalendarInv)
  BY CalendarStart DEF Init
<1>2. ASSUME part = "calendar" => CalendarInv, [Next]_vars
      PROVE  (part = "calendar" => CalendarInv)'
  <2> SUFFICES ASSUME part = "calendar", CalendarInv PROVE CalendarInv'
    BY <1>2, PartStays
  <2>1. CASE CalendarNext
    BY <2>1, CalendarMoves, CalendarStep
  <2>2. CASE UNCHANGED vars
    BY <2>2, CalendarRest DEF vars
  <2>3. QED
    BY <1>2, <2>1, <2>2, SearchMoves, GridMoves, TreeMoves, BoardMoves DEF Next
<1>3. QED
  BY <1>1, <1>2, PTL DEF Spec

(* SearchBar: in whichever order a pause, an Apply and a removed chip come,*)
(* what is applied in the end is what was typed, and the filter applied    *)
(* last unless a report was pending when it changed. *)
THEOREM SearchSettlesCorrect == Spec => []SearchSettles
<1>1. (part = "search" => SearchInv) => SearchSettles
  BY SearchEnds DEF SearchSettles
<1>2. QED
  BY <1>1, SearchHold, PTL

(* SearchBar: no sequence of edits of a draft, typing and late reports     *)
(* applies a condition that looks half built. *)
THEOREM OnlyFinishedAppliedCorrect == Spec => []OnlyFinishedApplied
<1>1. (part = "search" => SearchInv) => OnlyFinishedApplied
  BY AppliedIsFinished DEF OnlyFinishedApplied
<1>2. QED
  BY <1>1, SearchHold, PTL

(* DataGrid: through sorting, searching, paging and rows that come and go, *)
(* the space bar and the check boxes select the rows the user meant. *)
THEOREM SelectedAsMeantCorrect == Spec => []SelectedAsMeant
<1>1. (part = "grid" => GridInv) => SelectedAsMeant
  BY DEF GridInv, SelectedAsMeant, G!SelectedAsMeant
<1>2. QED
  BY <1>1, GridHold, PTL

(* TreeView: whatever is expanded, collapsed, loaded and rearranged, cycles *)
(* too, the keys act on the item in focus, which is shown. *)
THEOREM KeysActOnFocusedCorrect == Spec => []KeysActOnFocused
<1>1. (part = "tree" => TreeInv) => KeysActOnFocused
  BY KeysAct DEF KeysActOnFocused
<1>2. QED
  BY <1>1, TreeHold, PTL

(* Kanban: whatever was previewed, added or taken away during the drag, a  *)
(* card that a drop moves lands right above the card it was dropped on, or *)
(* last in the column it was dropped on, and no other card moves. *)
THEOREM CardsLandAsShownCorrect == Spec => CardsLandAsShown
<1> DEFINE Dropped == part = "board" /\ active # NoTarget /\ active' = NoTarget /\ items' # items
<1>1. ASSUME part = "board" => BoardInv, [Next]_vars PROVE [Dropped => B!Landed]_vars
  <2> SUFFICES ASSUME Dropped, BoardInv PROVE B!Landed
    BY <1>1
  <2>1. CASE BoardNext
    BY <2>1, BoardMoves, OnlyDropsMove
  <2>2. CASE UNCHANGED vars
    BY <2>2 DEF vars, ofBoard
  <2>3. QED
    BY <1>1, <2>1, <2>2, SearchMoves, GridMoves, TreeMoves, CalendarMoves DEF Next
<1>2. QED
  BY <1>1, BoardHold, PTL DEF Spec, CardsLandAsShown

(* Calendar: through bounds, paging, days of other months and renders at   *)
(* any time, the browser's focus is where the user put it last, on the day *)
(* that the keys move from. *)
THEOREM PlaceIsKeptCorrect == Spec => []PlaceIsKept
<1>1. (part = "calendar" => CalendarInv) => PlaceIsKept
  BY PlaceHolds DEF PlaceIsKept
<1>2. QED
  BY <1>1, CalendarHold, PTL
=============================================================================
