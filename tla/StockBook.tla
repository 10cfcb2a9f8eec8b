----------------------------- MODULE StockBook -----------------------------
(***************************************************************************)
(* What the stock ledger promises, without rows, versions, copies, locks   *)
(* or retries: a request drafts its tasks one after the other in a private *)
(* cart, a leg as it is and a draw from bins of its choice and in as many  *)
(* parts as it likes, never beyond its quantity; and it settles by adding  *)
(* the whole cart to the book in one step, or leaves no mark.  The book    *)
(* never leaves its bounds.                                                *)
(***************************************************************************)
EXTENDS Integers, Sequences

CONSTANTS Session, Bin, Programs, Stock

Amount == [avail: Int, occ: Int, transit: Int, defect: Int]

Zero == [avail |-> 0, occ |-> 0, transit |-> 0, defect |-> 0]

Sum2(x, y) == [avail   |-> x.avail + y.avail,
               occ     |-> x.occ + y.occ,
               transit |-> x.transit + y.transit,
               defect  |-> x.defect + y.defect]

Draw == [bins: SUBSET Bin, quantity: Nat, ships: BOOLEAN]

\* What a part of a draw adds to a bin.
Part(draw, q) == [avail |-> IF draw.ships THEN -q ELSE 0, occ |-> IF draw.ships THEN 0 ELSE q,
                  transit |-> 0, defect |-> 0]

InBounds(x) == /\ x.avail >= 0 /\ x.occ >= 0 /\ x.transit >= 0 /\ x.defect >= 0
               /\ x.occ <= x.avail

VARIABLES book,   \* the settled amounts
          cart,   \* per session, what it has drafted for each bin
          plan,   \* per session, its tasks
          pos,    \* per session, the next task to draft
          given   \* per session, what that task has drawn already

bookVars == <<book, cart, plan, pos, given>>

EmptyCart == [b \in Bin |-> Zero]

BookInit ==
    /\ book = Stock
    /\ cart = [s \in Session |-> EmptyCart]
    /\ plan = [s \in Session |-> <<>>]
    /\ pos = [s \in Session |-> 1]
    /\ given = [s \in Session |-> 0]

Order(s, legs) ==
    /\ plan[s] = <<>>
    /\ plan' = [plan EXCEPT ![s] = legs]
    /\ UNCHANGED <<book, cart, pos, given>>

Draft(s) ==
    /\ pos[s] <= Len(plan[s])
    /\ LET leg == plan[s][pos[s]]
       IN  leg \notin Draw /\ cart' = [cart EXCEPT ![s][leg.bin] = Sum2(@, leg)]
    /\ pos' = [pos EXCEPT ![s] = @ + 1]
    /\ UNCHANGED <<book, plan, given>>

DraftPart(s) ==
    /\ pos[s] <= Len(plan[s])
    /\ LET draw == plan[s][pos[s]]
       IN  /\ draw \in Draw
           /\ \E b \in draw.bins, q \in 1..(draw.quantity - given[s]) :
                 /\ cart' = [cart EXCEPT ![s][b] = Sum2(@, Part(draw, q))]
                 /\ given' = [given EXCEPT ![s] = @ + q]
    /\ UNCHANGED <<book, plan, pos>>

\* All of it, or as much as there is.
EndDraft(s) ==
    /\ pos[s] <= Len(plan[s])
    /\ plan[s][pos[s]] \in Draw
    /\ pos' = [pos EXCEPT ![s] = @ + 1]
    /\ given' = [given EXCEPT ![s] = 0]
    /\ UNCHANGED <<book, cart, plan>>

Close(s) ==
    /\ cart' = [cart EXCEPT ![s] = EmptyCart]
    /\ plan' = [plan EXCEPT ![s] = <<>>]
    /\ pos' = [pos EXCEPT ![s] = 1]
    /\ given' = [given EXCEPT ![s] = 0]

\* All the tasks, or none: only a fully drafted plan settles.
Settle(s) ==
    /\ pos[s] = Len(plan[s]) + 1
    /\ book' = [b \in Bin |-> Sum2(book[b], cart[s][b])]
    /\ \A b \in Bin : InBounds(book'[b])
    /\ Close(s)

Discard(s) ==
    /\ Close(s)
    /\ UNCHANGED book

BookNext ==
    \E s \in Session : \/ \E legs \in Programs : Order(s, legs)
                       \/ Draft(s) \/ DraftPart(s) \/ EndDraft(s) \/ Settle(s) \/ Discard(s)

BookSpec == BookInit /\ [][BookNext]_bookVars
=============================================================================
