------------------------------ MODULE Calendar ------------------------------
(***************************************************************************)
(* The keyboard and the browser's focus in the month grid                  *)
(* (ui/components/date/calendar.tsx, ui/date/calendar-math.ts), with both  *)
(* bounds set.  A day is its number; months of some lengths stand for the  *)
(* adapter.  What a handler sets and the effects of the renders it causes  *)
(* are one action, since nothing of the user's comes in between.  What is  *)
(* chosen belongs to the product and is not kept.                          *)
(***************************************************************************)
EXTENDS Integers, Sequences, FiniteSetsExt

CONSTANTS
  Lengths,      \* of the months, more of them than the bounds reach to
  MonthsInYear, \* monthsInYear of the adapter
  Week,         \* days in a week
  Weeks,        \* rows of a month's grid
  MinDay, MaxDay,   \* min, max
  WeekStart,    \* weekStartsOn, counted from the weekday of day 1
  Disabled      \* the days isDateDisabled vetoes

VARIABLES
  panes,    \* numberOfMonths
  focused,  \* the day that is focused
  isBound,  \* it is the object of the bound itself
  cursor,   \* the month of the first pane
  pending,  \* focusPending
  dom,      \* where the browser's focus is
  \* History, read by no guard of the code:
  place,    \* where the user, or autoFocus, put it
  pressed,  \* a key pressed on against a bound: what it asked for is to
            \* come, or has come and the user did nothing since
  refused,  \* the day in focus was clicked and may not be chosen
  swept     \* the day in focus went away with its month when it was clicked

vars == <<panes, focused, isBound, cursor, pending, dom, place, pressed, refused, swept>>

(* Days, months and where the browser's focus can be. *)
Before[month \in 1..(Len(Lengths) + 1)] ==
  IF month = 1 THEN 0 ELSE Before[month - 1] + Lengths[month - 1]

Days == 1..Before[Len(Lengths) + 1]
MonthOf(day) == CHOOSE m \in DOMAIN Lengths : Before[m] < day /\ day <= Before[m + 1]

Cell(month, day) == [at |-> "grid", month |-> month, day |-> day]
Place(where) == [at |-> where, month |-> 0, day |-> 0]

(* The arrow of the header that pages by delta months. *)
Arrow(delta) == IF delta < 0 THEN "previous" ELSE "next"

TypeOK ==
  /\ panes \in {1, 2} /\ focused \in MinDay..MaxDay /\ isBound \in BOOLEAN
  /\ cursor \in DOMAIN Lengths /\ pending \in BOOLEAN
  /\ dom \in [at: {"grid"}, month: DOMAIN Lengths, day: Days]
             \cup {Place(where) : where \in {"previous", "next", "elsewhere", "nowhere"}}
  /\ place \in {"grid", "previous", "next", "elsewhere"}
  /\ pressed \in BOOLEAN /\ refused \in BOOLEAN /\ swept \in BOOLEAN

Init ==
  /\ panes \in {1, 2} /\ focused \in MinDay..MaxDay
  /\ isBound \in BOOLEAN /\ (isBound => focused = MinDay \/ focused = MaxDay)
  /\ cursor = MonthOf(focused) /\ pending = FALSE
  /\ \/ dom = Cell(cursor, focused) /\ place = "grid"
     \/ dom = Place("elsewhere") /\ place = "elsewhere"
  /\ pressed = FALSE /\ refused = FALSE /\ swept = FALSE

-----------------------------------------------------------------------------
(* The adapter and the arithmetic of days *)

AddMonths(day, amount) ==
  LET month == MonthOf(day) + amount
  IN  Before[month] + Min({day - Before[MonthOf(day)], Lengths[month]})

AddYears(day, amount) == AddMonths(day, amount * MonthsInYear)

Clamp(day) == Max({MinDay, Min({MaxDay, day})})

WeekOffset(day) == (day - 1 - WeekStart) % Week

(* The days of a month's grid: whole weeks, with days of its neighbours. *)
MonthGrid(month) ==
  LET first == Before[month] + 1
      start == first - WeekOffset(first)
  IN  start..(start + Week * Weeks - 1) \cap Days

IsDisabled(day) == day \notin MinDay..MaxDay \/ day \in Disabled

-----------------------------------------------------------------------------
(* A render *)

Shown(first) == first..(first + panes - 1)

(* The panes follow the focused day. *)
Follow(first, day) ==
  LET month == MonthOf(day)
  IN  IF month < first THEN month
      ELSE IF month > first + panes - 1 THEN month - (panes - 1)
      ELSE first

(* canPageBack, canPageForward: an arrow is disabled without it. *)
CanPage(first, delta) ==
  IF delta < 0 THEN Before[first] >= MinDay ELSE Before[first + panes] + 1 <= MaxDay

(* What cannot have the browser's focus, with the first pane first: a day  *)
(* that is not shown any more, and a disabled arrow.                       *)
Gone(user, first) ==
  \/ user.at = "grid" /\ user.month \notin Shown(first)
  \/ \E delta \in {-1, 1} : user.at = Arrow(delta) /\ ~CanPage(first, delta)

(* The effects of the renders after the focused day is day, the first pane *)
(* first, and the user's focus at user: with focusPending, the day with    *)
(* the tab stop takes it; what is gone loses it to the body of the page.   *)
Commit(day, first, wanted, user) ==
  /\ focused' = day /\ cursor' = Follow(first, day) /\ pending' = FALSE
  /\ dom' = IF wanted THEN Cell(MonthOf(day), day)
            ELSE IF Gone(user, Follow(first, day)) THEN Place("nowhere") ELSE user

-----------------------------------------------------------------------------
(* The user and the product *)

(* The tab stop. *)
EnterGrid ==
  /\ dom.at # "grid"
  /\ dom' = Cell(MonthOf(focused), focused) /\ place' = "grid"
  /\ pressed' = pending /\ refused' = FALSE /\ swept' = FALSE
  /\ UNCHANGED <<panes, focused, isBound, cursor, pending>>

Leave ==
  /\ dom.at # "elsewhere"
  /\ dom' = Place("elsewhere") /\ place' = "elsewhere"
  /\ pressed' = pending /\ refused' = FALSE /\ swept' = FALSE
  /\ UNCHANGED <<panes, focused, isBound, cursor, pending>>

(* The product, or the pointer over a range, has the calendar rendered. *)
Rerender ==
  /\ Commit(focused, cursor, pending, dom)
  /\ pressed' = (pressed /\ ~(pending /\ dom.at = "grid"))
  /\ UNCHANGED <<panes, isBound, place, refused, swept>>

(* The object of the bound in place of itself: React renders nothing, and  *)
(* focusPending stays on.                                                  *)
PressOn(next) ==
  /\ dom.at = "grid"
  /\ next # Clamp(next) /\ isBound /\ focused = Clamp(next)
  /\ pending' = TRUE /\ pressed' = TRUE /\ place' = "grid"
  /\ UNCHANGED <<panes, focused, isBound, cursor, dom, refused, swept>>

MoveFocus(next) ==
  /\ dom.at = "grid"
  /\ ~(next # Clamp(next) /\ isBound /\ focused = Clamp(next))
  /\ Commit(Clamp(next), cursor, TRUE, dom)
  /\ isBound' = (next # Clamp(next)) /\ place' = "grid"
  /\ pressed' = FALSE /\ refused' = FALSE
  /\ UNCHANGED <<panes, swept>>

(* Where the keys lead: a day, a week, the ends of the week, a month and a *)
(* year.  Enter and the space bar choose the focused day.                  *)
Nexts ==
  {focused + 1, focused - 1, focused + Week, focused - Week,
   focused - WeekOffset(focused), focused + Week - 1 - WeekOffset(focused),
   AddMonths(focused, -1), AddMonths(focused, 1), AddYears(focused, -1), AddYears(focused, 1)}

(* A click focuses the day's button, and select chooses it. *)
ClickDay(month, day) ==
  /\ month \in Shown(cursor) /\ day \in MonthGrid(month) /\ ~IsDisabled(day)
  /\ Commit(day, cursor, pending, Cell(month, day))
  /\ isBound' = FALSE /\ place' = "grid"
  /\ pressed' = FALSE /\ refused' = FALSE /\ swept' = (dom'.at = "nowhere")
  /\ UNCHANGED panes

ClickDisabled(month, day) ==
  /\ month \in Shown(cursor) /\ day \in MonthGrid(month) /\ IsDisabled(day)
  /\ dom' = Cell(month, day) /\ place' = "grid"
  /\ pressed' = pending /\ refused' = (day # focused) /\ swept' = FALSE
  /\ UNCHANGED <<panes, focused, isBound, cursor, pending>>

(* Mutant of Page: the arrow asks for the focus as the keys do. *)
PageAndFocus(delta) ==
  /\ CanPage(cursor, delta)
  /\ Commit(Clamp(AddMonths(focused, delta)), cursor + delta, TRUE, Place(Arrow(delta)))
  /\ isBound' = (AddMonths(focused, delta) # focused')
  /\ place' = Arrow(delta)
  /\ pressed' = pending /\ refused' = FALSE /\ swept' = FALSE
  /\ UNCHANGED panes

(* A click on an arrow of the header, which focuses it: the focused day    *)
(* travels with the panes.                                                 *)
Page(delta) ==
  /\ CanPage(cursor, delta)
  /\ Commit(Clamp(AddMonths(focused, delta)), cursor + delta, pending, Place(Arrow(delta)))
  /\ isBound' = (AddMonths(focused, delta) # focused')
  /\ place' = Arrow(delta)
  /\ pressed' = pending /\ refused' = FALSE /\ swept' = FALSE
  /\ UNCHANGED panes

Next ==
  \/ EnterGrid \/ Leave \/ Rerender
  \/ \E next \in Nexts : PressOn(next) \/ MoveFocus(next)
  \/ \E month \in DOMAIN Lengths, day \in Days :
       ClickDay(month, day) \/ ClickDisabled(month, day)
  \/ \E delta \in {-1, 1} : Page(delta)

Spec == Init /\ [][Next]_vars

-----------------------------------------------------------------------------
(* The properties *)

(* The arrow clicked last led to the month of a bound, which disables it. *)
Spent == \E delta \in {-1, 1} : place = Arrow(delta) /\ ~CanPage(cursor, delta)

(* The browser's focus is where the user put it last, and in the grid it   *)
(* is on the day that the keys move from and Enter chooses, which is shown *)
(* in a pane of its own month: through bounds, paging, days of other       *)
(* months and renders at any time.  Exempt are a focus asked for against a *)
(* bound, which comes later; a clicked day that may not be chosen, since   *)
(* the keys act on the day before it; a clicked day of another month that  *)
(* took its grid away; and an arrow that led to the month of a bound,      *)
(* which is disabled and leaves the focus nowhere.                         *)
PlaceIsKept ==
  /\ MonthOf(focused) \in Shown(cursor)
  /\ \/ dom.at = place
     \/ dom.at = "grid" /\ pressed
     \/ dom.at = "nowhere" /\ (swept \/ Spent)
  /\ dom.at = "grid" /\ ~refused => dom.day = focused

(* calendar.tsx says of paging: "DOM focus deliberately stays where it is  *)
(* ... so the pointer keeps its place on the button".                      *)
ArrowKeepsFocus == \A delta \in {-1, 1} : place = Arrow(delta) => dom.at = place
=============================================================================
