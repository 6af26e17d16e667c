---------------------------- MODULE SinkContract ----------------------------
(***************************************************************************)
(* What either service promises to make of the events that relays deliver  *)
(* to it at least once, without requests, transactions, inboxes or locks:  *)
(* an event has its effect once and in one step.  It adds its rows, and    *)
(* leaves out a row only where an event before it had one in the same      *)
(* place; or it erases what a user had when the erasure was taken up.      *)
(* Nothing else adds a row or takes one away, but the end of its period,   *)
(* where rows have one.  ActivityFeed and Notifications implement this.    *)
(***************************************************************************)
CONSTANTS
  Event,         \* what producers publish
  IsErasure(_),  \* the events that erase a user
  RowsOf(_),     \* the rows that any other event is worth
  SlotOf(_),     \* the place of a row, which no two rows share
  Reaches(_, _), \* whether a row is the erasure's to take
  Lapses         \* whether rows have a period

VARIABLES
  taken,  \* the events that have had their effect
  rows,   \* the rows there are
  found   \* the erasures taken up, each with the rows it found

vars == <<taken, rows, found>>

Init == taken = {} /\ rows = {} /\ found = {}

Slots(some) == {SlotOf(r) : r \in some}

Take(e) ==
  /\ e \notin taken /\ ~IsErasure(e)
  /\ taken' = taken \cup {e}
  /\ UNCHANGED found
  /\ \E new \in SUBSET RowsOf(e) :
       /\ Slots(new) \cap Slots(rows) = {}
       /\ \A r \in RowsOf(e) \ new :
            \E f \in taken : ~IsErasure(f) /\ SlotOf(r) \in Slots(RowsOf(f))
       /\ rows' = rows \cup new

TakeUp(e) ==
  /\ e \notin taken /\ IsErasure(e)
  /\ \A f \in found : f.of # e
  /\ found' = found \cup {[of |-> e, rows |-> {r \in rows : Reaches(r, e)}]}
  /\ UNCHANGED <<taken, rows>>

GiveUp(f) ==
  /\ found' = found \ {f}
  /\ UNCHANGED <<taken, rows>>

Erase(f) ==
  /\ f.of \notin taken
  /\ taken' = taken \cup {f.of}
  /\ rows' = rows \ f.rows
  /\ found' = found \ {f}

Lapse ==
  /\ Lapses
  /\ UNCHANGED <<taken, found>>
  /\ rows' \in SUBSET rows

Next ==
  \/ \E e \in Event : Take(e) \/ TakeUp(e)
  \/ \E f \in found : GiveUp(f) \/ Erase(f)
  \/ Lapse

Spec == Init /\ [][Next]_vars
=============================================================================
