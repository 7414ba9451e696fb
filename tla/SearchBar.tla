----------------------------- MODULE SearchBar -----------------------------
(***************************************************************************)
(* SearchBuilder with the FilterBuilder in its popover (ui/components/     *)
(* query): a search text that is reported when the user pauses, and a      *)
(* draft of conditions of which the finished ones are applied.  The        *)
(* product keeps the value it is given and passes it back.  Groups only    *)
(* nest conditions, so a filter is a function of the ids of its conditions,*)
(* empty for null.                                                         *)
(***************************************************************************)
EXTENDS Functions

CONSTANTS
  Texts,       \* what the user may type, or clear the input
  NoText,      \* the empty text
  Ids,         \* of conditions
  Kinds,       \* types of the fields the product declares, one field each
  FirstKind,   \* the type of the first of them
  NoTimer

VARIABLES
  text, filter,  \* value
  typed,         \* what the input shows
  timer,         \* the pending report: what its callback will pass to onChange
  open, draft,   \* the popover
  \* History, read by no guard of the code:
  undone,        \* the last change of the filter was taken back
  raced          \* a report was pending when the filter was changed last

value == <<text, filter>>
popover == <<open, draft>>
history == <<undone, raced>>
vars == <<value, typed, timer, popover, history>>

-----------------------------------------------------------------------------
(* Conditions *)

(* Operators by what they need: "none" no value, "multi" a list, "between" *)
(* two values, "single" one.                                               *)
OPERATORS_BY_TYPE ==
  [text    |-> {"single", "none"},
   number  |-> {"single", "between", "none"},
   date    |-> {"single", "between", "none"},
   select  |-> {"multi", "single", "none"},
   boolean |-> {"single"}]

OperatorNeeds == {"single", "between", "multi", "none"}

FirstOperator(kind) == IF kind = "select" THEN "multi" ELSE "single"

Values == {"unset", "blank", "NaN", "one", "list", "empty list"}

Condition == [field : Kinds, operator : OperatorNeeds,
              value : Values, valueTo : Values]

(* What the control for a value reports; a number input that was cleared   *)
(* reports NaN, and a check box a value either way.                        *)
Entered(field, operator) ==
  CASE operator = "multi" -> {"list", "empty list"}
    [] field = "number"   -> {"one", "NaN"}
    [] field = "boolean"  -> {"one"}
    [] OTHER              -> {"one", "blank"}

Seeded(field) ==
  [field |-> field, operator |-> FirstOperator(field), value |-> "unset", valueTo |-> "unset"]

(* Mutant of IsComplete: the second bound is forgotten. *)
HasValue(c) ==
  \/ c.operator = "none"
  \/ c.operator = "multi" /\ c.value = "list"
  \/ c.operator \in {"single", "between"} /\ c.value \notin {"unset", "blank"}

(* isConditionComplete *)
IsComplete(c) ==
  \/ c.operator = "none"
  \/ c.operator = "multi" /\ c.value = "list"
  \/ /\ c.operator \in {"single", "between"}
     /\ c.value \notin {"unset", "blank"}
     /\ c.operator = "between" => c.valueTo \notin {"unset", "blank"}

(* pruneFilter *)
Pruned(f) == Restrict(f, {i \in DOMAIN f : IsComplete(f[i])})

Without(f, i) == Restrict(f, DOMAIN f \ {i})

Empty == [i \in {} |-> 0]

Filters == UNION {[S -> Condition] : S \in SUBSET Ids}

-----------------------------------------------------------------------------

TypeOK ==
  /\ text \in Texts \cup {NoText} /\ typed \in Texts \cup {NoText}
  /\ open \in BOOLEAN
  /\ {filter, draft} \subseteq Filters
  /\ timer \in [text : Texts \cup {NoText}, filter : Filters] \cup {NoTimer}
  /\ undone \in BOOLEAN /\ raced \in BOOLEAN

Init ==
  /\ text = NoText /\ filter = Empty
  /\ typed = NoText /\ timer = NoTimer
  /\ open = FALSE /\ draft = Empty
  /\ undone = FALSE /\ raced = FALSE

(* The callback has the value of the render it was made in. *)
Type(t) ==
  /\ t # typed
  /\ typed' = t
  /\ timer' = [text |-> t, filter |-> filter]
  /\ UNCHANGED <<value, popover, history>>

Report ==
  /\ timer # NoTimer
  /\ text' = timer.text /\ filter' = timer.filter
  /\ timer' = NoTimer
  /\ undone' = (undone \/ filter' # filter)
  /\ UNCHANGED <<typed, popover, raced>>

(* Mutant of KeepText: only the filter is passed. *)
DropText == text' = NoText

(* {...value, filter} *)
KeepText == UNCHANGED text

ChangeFilter(f) ==
  /\ filter' = f
  /\ KeepText
  /\ undone' = FALSE /\ raced' = (timer # NoTimer)
  /\ UNCHANGED <<typed, timer>>

Open == ~open /\ open' = TRUE /\ draft' = filter /\ UNCHANGED <<value, typed, timer, history>>

Abandon == open /\ open' = FALSE /\ UNCHANGED <<value, typed, timer, draft, history>>

Apply == open /\ open' = FALSE /\ ChangeFilter(Pruned(draft)) /\ UNCHANGED draft

(* The remove control of the chip of a condition, and "clear all" *)
RemoveCondition(i) ==
  /\ i \in DOMAIN filter
  /\ ChangeFilter(Without(filter, i))
  /\ draft' = filter'
  /\ UNCHANGED open

ClearAll ==
  /\ filter # Empty
  /\ ChangeFilter(Empty)
  /\ draft' = Empty
  /\ UNCHANGED open

-----------------------------------------------------------------------------
(* The editor *)

Edit(f) == open /\ draft' = f /\ UNCHANGED <<value, typed, timer, open, history>>

EditCondition(i, c) == c # draft[i] /\ Edit([draft EXCEPT ![i] = c])

AddCondition(i) ==
  /\ i \notin DOMAIN draft
  /\ Edit([j \in DOMAIN draft \cup {i} |-> IF j = i THEN Seeded(FirstKind) ELSE draft[j]])

RemoveDraft(i) == i \in DOMAIN draft /\ Edit(Without(draft, i))

ClearDraft == Edit(Empty)

ChangeField(i, field) == i \in DOMAIN draft /\ EditCondition(i, Seeded(field))

(* The value stays. *)
ChangeOperator(i, operator) ==
  /\ i \in DOMAIN draft /\ operator \in OPERATORS_BY_TYPE[draft[i].field]
  /\ EditCondition(i, [draft[i] EXCEPT !.operator = operator, !.valueTo = "unset"])

EnterValue(i, v) ==
  /\ i \in DOMAIN draft /\ draft[i].operator # "none"
  /\ v \in Entered(draft[i].field, draft[i].operator)
  /\ EditCondition(i, [draft[i] EXCEPT !.value = v])

EnterSecond(i, v) ==
  /\ i \in DOMAIN draft /\ draft[i].operator = "between"
  /\ v \in Entered(draft[i].field, "between")
  /\ EditCondition(i, [draft[i] EXCEPT !.valueTo = v])

EditDraft ==
  \/ ClearDraft
  \/ \E i \in Ids : AddCondition(i)
  \/ \E i \in Ids :
       \/ RemoveDraft(i)
       \/ \E field \in Kinds : ChangeField(i, field)
       \/ \E operator \in OperatorNeeds : ChangeOperator(i, operator)
       \/ \E v \in Values : EnterValue(i, v) \/ EnterSecond(i, v)

Next ==
  \/ \E t \in Texts \cup {NoText} : Type(t)
  \/ Report \/ Open \/ Abandon \/ Apply \/ ClearAll
  \/ \E i \in Ids : RemoveCondition(i)
  \/ EditDraft

Spec == Init /\ [][Next]_vars

-----------------------------------------------------------------------------
(* Properties *)

(* When no report is pending, what is applied is what the user typed and   *)
(* the filter the user applied last, in whichever order a pause, an Apply  *)
(* and a removed chip come; unless a report was pending when the filter    *)
(* changed, since its callback brings the older filter back.               *)
SearchSettles ==
  /\ timer = NoTimer => text = typed
  /\ undone => raced

(* SearchSettles without its exemption: what "Nothing here is applied      *)
(* until Apply is pressed" says of the filter, and what was applied stays. *)
AppliedStays == ~undone

(* What the controls of a condition show *)
Shown(c) ==
  CASE c.operator = "none"    -> TRUE
    [] c.operator = "multi"   -> c.value = "list"
    [] c.operator = "single"  -> c.value = "one"
    [] c.operator = "between" -> c.value = "one" /\ c.valueTo = "one"

(* A condition that reaches a query is one the user sees finished: through *)
(* any changes of its field, operator and values, none that looks half     *)
(* built is applied.  Two that do are exempt: a number that was cleared,   *)
(* and a list left over when the operator takes one value.                 *)
OnlyFinishedApplied ==
  \A i \in DOMAIN filter :
    \/ Shown(filter[i])
    \/ "NaN" \in {filter[i].value, filter[i].valueTo}
    \/ filter[i].operator = "single" /\ filter[i].value \in {"list", "empty list"}

(* OnlyFinishedApplied without its exemptions, which is what types.ts says *)
(* of pruneFilter: half-built clauses never reach a query.                 *)
HalfBuiltNeverApplied == \A i \in DOMAIN filter : Shown(filter[i])
=============================================================================
