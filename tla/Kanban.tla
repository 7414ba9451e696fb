------------------------------- MODULE Kanban -------------------------------
(***************************************************************************)
(* The board of cards (ui/components/board/kanban.tsx) with a product that *)
(* keeps its cards as the story does (board.stories.tsx): the board        *)
(* computes a position from what it shows, the product counts it off in    *)
(* what it stores.  The drag library is external: while a card is dragged  *)
(* it may report it over any column, any card, the card itself or nothing. *)
(***************************************************************************)
EXTENDS Integers, FiniteSets, SequencesExt, Subsequences

CONSTANTS
  Cards, Columns,
  NoTarget \* null

VARIABLES
  items,   \* the product's cards, in its order
  active,  \* activeId
  preview, \* the column of preview, which is about the active card
  over     \* what the library last reported the card over

vars == <<items, active, preview, over>>

Card(id, column) == [id |-> id, column |-> column]
Ids == {items[i].id : i \in DOMAIN items}

TypeOK ==
  /\ items \in Seq([id: Cards, column: Columns]) /\ IsInjective(items)
  /\ active \in Cards \cup {NoTarget} /\ preview \in Columns \cup {NoTarget}
  /\ over \in Cards \cup Columns \cup {NoTarget}

(* Any cards in any order and column. *)
Init ==
  /\ \E ids \in SetToSeqs(Cards), columns \in [Cards -> Columns] :
       items = [i \in DOMAIN ids |-> Card(ids[i], columns[ids[i]])]
  /\ active = NoTarget /\ preview = NoTarget /\ over = NoTarget

-----------------------------------------------------------------------------
(* The board *)

Stored(id) == items[CHOOSE i \in DOMAIN items : items[i].id = id].column

ColumnShown(id) == IF id = active /\ preview # NoTarget THEN preview ELSE Stored(id)

(* byColumn *)
Shown(column) ==
  LET ids == [i \in DOMAIN items |-> items[i].id]
  IN  Kept(ids, {i \in DOMAIN ids : ColumnShown(ids[i]) = column})

(* columnOf: a card that has gone is in no column. *)
ColumnOf(id) ==
  IF id \in Columns THEN id
  ELSE IF id = active /\ preview # NoTarget THEN preview
  ELSE IF id \in Ids THEN Stored(id)
  ELSE NoTarget

Destination(column) ==
  Kept(Shown(column), {i \in DOMAIN Shown(column) : Shown(column)[i] # active})

(* Mutant of Position: counted with the card itself still in the column. *)
PositionWithItself(column) ==
  LET at == {i \in DOMAIN Shown(column) : Shown(column)[i] = over}
  IN  IF at = {} THEN Len(Shown(column)) + 1 ELSE CHOOSE i \in at : TRUE

(* toIndex, from 1: the place of the card below, or the end. *)
Position(column) ==
  LET at == {i \in DOMAIN Destination(column) : Destination(column)[i] = over}
  IN  IF at = {} THEN Len(Destination(column)) + 1 ELSE CHOOSE i \in at : TRUE

-----------------------------------------------------------------------------
(* The product *)

Without(list, id) == Kept(list, {i \in DOMAIN list : list[i].id # id})

(* The card goes before the one at the position, or to the end of all. *)
Placed(id, column, position) ==
  LET without == Without(items, id)
      target == {i \in DOMAIN without : without[i].column = column}
      anchor == {i \in target : Cardinality({j \in target : j <= i}) = position}
      at == IF anchor = {} THEN Len(without) + 1 ELSE CHOOSE i \in anchor : TRUE
  IN  InsertAt(without, at, Card(id, column))

(* It may add a card or take one away at any time. *)
Add(id, column) ==
  /\ id \notin Ids
  /\ items' = Append(items, Card(id, column))
  /\ UNCHANGED <<active, preview, over>>

TakeAway(id) ==
  /\ id \in Ids
  /\ items' = Without(items, id)
  /\ over' = IF over = id THEN NoTarget ELSE over
  /\ UNCHANGED <<active, preview>>

-----------------------------------------------------------------------------
(* The drag *)

DragStart(id) ==
  /\ active = NoTarget /\ id \in Ids
  /\ active' = id /\ over' = NoTarget
  /\ UNCHANGED <<items, preview>>

(* The preview stays where it was over nothing. *)
DragOver(target) ==
  /\ active # NoTarget /\ target # over
  /\ target \in Ids \cup Columns \cup {NoTarget}
  /\ over' = target
  /\ preview' = IF target # NoTarget THEN ColumnOf(target) ELSE preview
  /\ UNCHANGED <<items, active>>

Ended == active' = NoTarget /\ preview' = NoTarget /\ over' = NoTarget

(* The check for a drop that changes nothing looks for the card in a list  *)
(* it was taken out of, so that every drop is reported.                    *)
DragEnd ==
  /\ active \in Ids /\ over # NoTarget /\ ColumnOf(over) # NoTarget
  /\ items' = Placed(active, ColumnOf(over), Position(ColumnOf(over)))
  /\ Ended

(* A drop on nothing, of a card that has gone, or that the product         *)
(* declines; or the drag is cancelled.                                     *)
DragAway == active # NoTarget /\ Ended /\ UNCHANGED items

Next ==
  \/ \E id \in Cards : DragStart(id) \/ TakeAway(id)
  \/ \E id \in Cards, column \in Columns : Add(id, column)
  \/ \E target \in Cards \cup Columns \cup {NoTarget} : DragOver(target)
  \/ DragEnd \/ DragAway

Spec == Init /\ [][Next]_vars

-----------------------------------------------------------------------------
(* The properties *)

InColumn(list, column) ==
  LET cards == Kept(list, {i \in DOMAIN list : list[i].column = column})
  IN  [i \in DOMAIN cards |-> cards[i].id]

OthersStay == Without(items', active) = Without(items, active)

(* A card that was moved is right above the card it was dropped on, or the *)
(* last of the column it was dropped on, whatever was previewed, added or  *)
(* taken away during the drag, and no other card moved.  Dropped on its    *)
(* own picture it is in the column that showed it.                         *)
Landed ==
  LET cards == InColumn(items', ColumnOf(over))
      at == CHOOSE i \in DOMAIN cards : cards[i] = active
  IN  /\ OthersStay
      /\ \E i \in DOMAIN cards : cards[i] = active
      /\ over \in Columns => at = Len(cards)
      /\ over \in Cards \ {active} => at < Len(cards) /\ cards[at + 1] = over

CardsLandAsShown == [][active # NoTarget /\ active' = NoTarget /\ items' # items => Landed]_vars

(* kanban.tsx says "Dropping on the column itself, rather than on a card,  *)
(* means the end of the list."  Dropping on the card's own picture means   *)
(* it as well: a card let go where it is shown leaves its place.           *)
OwnPictureKeepsPlace ==
  [][active # NoTarget /\ active' = NoTarget /\ over = active =>
       InColumn(items', ColumnOf(over)) \in {InColumn(items, ColumnOf(over)), Shown(ColumnOf(over))}]_vars
=============================================================================
