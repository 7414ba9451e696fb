------------------------------ MODULE TreeView ------------------------------
(***************************************************************************)
(* useTreeNavigation (ui/components/navigation/tree-view.tsx), which       *)
(* TreeView and OrgChart render: a forest is assembled from a flat list of *)
(* nodes that the product may replace at any time, and the keys move among *)
(* the visible nodes.  Typing a letter only moves the focus to some        *)
(* visible node, and activating a node changes nothing here.               *)
(***************************************************************************)
EXTENDS Integers, SequencesExt

CONSTANTS
  MaxNodes,    \* ids of nodes are numbers in the order of the list
  Hierarchies, \* parents the list may give: functions from Ids to an id or NoParent
  NoParent,    \* 0
  NoFocus      \* no node

VARIABLES
  nodes, parent,   \* the list: ids, and parentId of each
  expanded,
  focusedId,
  dom,         \* the element that has the browser's focus
  \* History, read by no guard of the code:
  strayed      \* a step to a parent that is not in the list was tried

list == <<nodes, parent>>
vars == <<list, expanded, focusedId, dom, strayed>>

Nowhere == [node |-> NoFocus, item |-> FALSE]
Item(n) == [node |-> n, item |-> TRUE]
ToggleButton(n) == [node |-> n, item |-> FALSE]

Ids == 1..MaxNodes

-----------------------------------------------------------------------------
(* The forest *)

(* Mutant of IsRoot: a node whose parent is missing is dropped. *)
IsTop(n) == parent[n] \in {NoParent, n}

IsRoot(n) == parent[n] \notin nodes \ {n}

(* buildBranches *)
Roots == {n \in nodes : IsRoot(n)}

Children(n) == {c \in nodes : parent[c] = n /\ ~IsRoot(c)}

InListOrder(ns) == SelectSeq([i \in Ids |-> i], LAMBDA n : n \in ns)

(* flattenVisible; a path from a root is at most as long as the list *)
Visible ==
  LET walk[depth \in 0..MaxNodes, ns \in SUBSET nodes] ==
        IF depth = 0 THEN <<>>
        ELSE LET each == InListOrder(ns)
             IN  FlattenSeq([i \in DOMAIN each |->
                   <<each[i]>> \o walk[depth - 1, IF each[i] \in expanded THEN Children(each[i]) ELSE {}]])
  IN  walk[MaxNodes, Roots]

First(seq) == IF seq = <<>> THEN NoFocus ELSE Head(seq)

ActiveId == IF focusedId \in ToSet(Visible) THEN focusedId ELSE First(Visible)

-----------------------------------------------------------------------------

TypeOK ==
  /\ nodes \subseteq Ids /\ parent \in Hierarchies
  /\ expanded \subseteq Ids
  /\ focusedId \in Ids \cup {NoFocus}
  /\ dom = Nowhere \/ dom.node \in ToSet(Visible)
  /\ strayed \in BOOLEAN

Init ==
  /\ nodes \in SUBSET Ids /\ parent \in Hierarchies
  /\ expanded = nodes
  /\ focusedId = First(Visible)
  /\ dom = Nowhere
  /\ strayed = FALSE

(* Mutant of Claimed: every item around the target claims the focus, the   *)
(* outermost one last.                                                     *)
ClaimedByAll(n) == IF IsRoot(n) THEN n ELSE parent[n]

(* onFocus, with its guard on the target *)
Claimed(n) == n

(* A click on an item, or Tab to the one that is the tab stop *)
FocusItem(n) ==
  /\ n \in ToSet(Visible)
  /\ dom' = Item(n) /\ focusedId' = Claimed(n)
  /\ strayed' = FALSE
  /\ UNCHANGED <<list, expanded>>

Leave ==
  /\ dom # Nowhere
  /\ dom' = Nowhere /\ strayed' = FALSE
  /\ UNCHANGED <<list, expanded, focusedId>>

(* focusNode: an id without an element is remembered all the same. *)
FocusNode(n) ==
  IF n \in ToSet(Visible)
  THEN FocusItem(n)
  ELSE /\ focusedId' = n
       /\ strayed' = TRUE
       /\ UNCHANGED <<list, expanded, dom>>

Toggle(n) ==
  /\ expanded' = IF n \in expanded THEN expanded \ {n} ELSE expanded \cup {n}
  /\ UNCHANGED <<list, focusedId>>

(* An element that is still rendered keeps the focus. *)
KeepDom == dom' = IF dom.node \in ToSet(Visible') THEN dom ELSE Nowhere

ClickToggle(n) ==
  /\ n \in ToSet(Visible) /\ Children(n) # {}
  /\ Toggle(n)
  /\ dom' = ToggleButton(n) /\ strayed' = FALSE

-----------------------------------------------------------------------------
(* onKeyDown: the keys act on the active node, whatever is focused. *)

Pressed == dom # Nowhere

Position == CHOOSE i \in DOMAIN Visible : Visible[i] = ActiveId

Down == Pressed /\ FocusNode(Visible[IF Position < Len(Visible) THEN Position + 1 ELSE Position])

Up == Pressed /\ FocusNode(Visible[IF Position > 1 THEN Position - 1 ELSE 1])

Forward ==
  /\ Pressed /\ Children(ActiveId) # {}
  /\ IF ActiveId \in expanded
     THEN FocusNode(Visible[Position + 1])
     ELSE Toggle(ActiveId) /\ KeepDom /\ UNCHANGED strayed

Backward ==
  /\ Pressed
  /\ IF Children(ActiveId) # {} /\ ActiveId \in expanded
     THEN Toggle(ActiveId) /\ KeepDom /\ UNCHANGED strayed
     ELSE parent[ActiveId] # NoParent /\ FocusNode(parent[ActiveId])

Home == Pressed /\ FocusNode(Head(Visible))

End == Pressed /\ FocusNode(Last(Visible))

(* The next node, in wrapping order, whose label starts with the letter *)
Typeahead(n) == Pressed /\ n \in ToSet(Visible) /\ FocusNode(n)

-----------------------------------------------------------------------------

(* The product passes another list, which differs in a node or in the      *)
(* parents.                                                                *)
Load(ns, hierarchy) ==
  /\ nodes' = ns /\ parent' = hierarchy
  /\ UNCHANGED <<expanded, focusedId>>
  /\ KeepDom
  /\ strayed' = (strayed /\ dom' # Nowhere)

Insert(n) == n \notin nodes /\ Load(nodes \cup {n}, parent)

Drop(n) == n \in nodes /\ Load(nodes \ {n}, parent)

Rearrange(hierarchy) == hierarchy # parent /\ Load(nodes, hierarchy)

Next ==
  \/ \E n \in Ids : FocusItem(n) \/ ClickToggle(n) \/ Typeahead(n)
  \/ Leave \/ Down \/ Up \/ Forward \/ Backward \/ Home \/ End
  \/ \E n \in Ids : Insert(n) \/ Drop(n)
  \/ \E hierarchy \in Hierarchies : Rearrange(hierarchy)

Spec == Init /\ [][Next]_vars

-----------------------------------------------------------------------------
(* Properties *)

(* Nodes above n in the list, n excluded unless it is on a cycle *)
Above(n) ==
  LET step(ns) == {parent[m] : m \in {k \in ns : parent[k] \in nodes \ {k}}}
      upTo[i \in 1..Cardinality(Ids)] ==
        IF i = 1 THEN step({n}) ELSE upTo[i - 1] \cup step(upTo[i - 1])
  IN  upTo[Cardinality(Ids)]

(* Whatever the list, an item is shown for exactly the nodes of which      *)
(* every node above is expanded, each once and right after the one above   *)
(* it or the subtree of a sibling; a node whose parent is missing is a     *)
(* root, and only nodes on or below a cycle are not shown.                 *)
TreeIsWhole ==
  LET Sound(n) == \A m \in Above(n) \cup {n} : m \notin Above(m)
  IN  /\ ToSet(Visible) = {n \in nodes : Sound(n) /\ Above(n) \subseteq expanded}
      /\ IsInjective(Visible)
      /\ \A i, j, k \in DOMAIN Visible :
           i < j /\ j < k /\ Visible[i] \in Above(Visible[k]) => Visible[i] \in Above(Visible[j])
      /\ \A i, j \in DOMAIN Visible : Visible[j] \in Above(Visible[i]) => j < i

(* The item with the browser's focus is the one the keys act on, through   *)
(* any keys, clicks and changes of the list.  Only after a step to a       *)
(* parent that is not in the list was tried do the keys act on another.    *)
KeysActOnFocused == dom.item /\ ~strayed => dom.node = ActiveId
=============================================================================
