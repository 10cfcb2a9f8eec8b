------------------------- MODULE StockLedgerProofs -------------------------
(***************************************************************************)
(* Proofs about StockLedger, for every set of sessions, bins and programs, *)
(* every opening stock and every retry limit.                              *)
(***************************************************************************)
EXTENDS StockLedger, TLAPS

(***************************************************************************)
(* A session inside a task has that task, and a loaded copy of the row it  *)
(* is changing; a portion that is being posted is one of the draw it       *)
(* belongs to, and within what is left of it.                              *)
(***************************************************************************)
TaskOf(t) == t.legs[t.at]

LegOf(t) == IF t.part = NoLeg THEN TaskOf(t) ELSE t.part

InTask == {"load", "insert", "pick", "apply", "reread"}

InOrder(t) ==
    /\ t.pc \in InTask => t.at <= Len(t.legs)
    /\ t.pc \in {"insert", "apply", "reread"} /\ t.part = NoLeg => TaskOf(t) \notin Draw
    /\ t.pc = "pick" => TaskOf(t) \in Draw
    /\ t.part # NoLeg =>
          /\ t.pc \in {"apply", "reread"} /\ TaskOf(t) \in Draw
          /\ \E b \in TaskOf(t).bins, q \in 1..(TaskOf(t).quantity - t.taken) :
                t.part = Portion(TaskOf(t), b, q)
    /\ t.pc \in {"apply", "reread"} => t.view[LegOf(t).bin] # NoRow

LegsInv == \A s \in Session : InOrder(tx[s])

(***************************************************************************)
(* Without an author there is no uncommitted version; an author's version  *)
(* is a row, and ahead of a committed one by at least one flow row.        *)
(***************************************************************************)
LockInv ==
    \A b \in Bin :
        /\ lock[b] = Nobody => cur[b] = inv[b] /\ pend[b] = <<>>
        /\ lock[b] # Nobody => /\ cur[b] # NoRow
                               /\ inv[b] # NoRow => Len(pend[b]) > 0

IndInv == /\ TypeOK
          /\ LegsInv
          /\ LockInv
          /\ NeverOversold
          /\ EveryChangeTraced
          /\ VersionIdentifiesRow

-----------------------------------------------------------------------------
(* What the operators of the ledger return.                                 *)

\* A plain leg, before its UPDATE or inside it.
Plain(s) == \/ tx[s].pc \in {"insert", "apply", "reread"} /\ tx[s].part = NoLeg
            \/ tx[s].pc = "load" /\ Task(s) \notin Draw

LEMMA TaskType ==
    ASSUME TypeOK, LegsInv, NEW s \in Session, tx[s].pc \in InTask
    PROVE  /\ tx[s] \in Progress
           /\ tx[s].at \in 1..Len(tx[s].legs)
           /\ Task(s) = TaskOf(tx[s])
           /\ Task(s) \in Leg \cup Draw
  <1>1. tx[s] \in Progress /\ tx[s].legs \in Seq(Leg \cup Draw) /\ tx[s].at \in Nat \ {0}
    BY DEF TypeOK, Progress
  <1>2. tx[s].at \in 1..Len(tx[s].legs)
    BY <1>1 DEF LegsInv, InOrder
  <1> QED
    BY <1>1, <1>2 DEF Task, TaskOf

LEMMA CurrentLegType ==
    ASSUME TypeOK, LegsInv, NEW s \in Session, Plain(s)
    PROVE  /\ tx[s].pc \in InTask
           /\ tx[s].part = NoLeg
           /\ CurrentLeg(s) = Task(s)
           /\ CurrentLeg(s) \in Leg
           /\ CurrentLeg(s).bin \in Bin
  <1>1. tx[s].pc \in InTask
    BY DEF Plain, InTask
  <1>2. tx[s].part = NoLeg /\ Task(s) \notin Draw
    BY <1>1, TaskType DEF Plain, LegsInv, InOrder
  <1>3. CurrentLeg(s) = Task(s) /\ CurrentLeg(s) \in Leg
    BY <1>1, <1>2, TaskType DEF CurrentLeg
  <1> QED
    BY <1>1, <1>2, <1>3 DEF Leg

LEMMA PortionType ==
    ASSUME NEW draw \in Draw, NEW b \in draw.bins, NEW q \in Int
    PROVE  /\ Portion(draw, b, q) \in Leg
           /\ Portion(draw, b, q) # NoLeg
           /\ Portion(draw, b, q).bin = b
           /\ Portion(draw, b, q).avail # 0 => Portion(draw, b, q).shown = "avail"
           /\ Pieces(Portion(draw, b, q)) = q
  <1>1. b \in Bin /\ -q \in Int
    BY DEF Draw
  <1>2. Portion(draw, b, q) \in Leg
    BY <1>1 DEF Portion, Leg, Bucket
  <1> QED
    BY <1>1, <1>2, AbsentAssumption DEF Portion, Pieces

\* What is being posted of a draw.
LEMMA PartType ==
    ASSUME TypeOK, LegsInv, NEW s \in Session, tx[s].part # NoLeg
    PROVE  /\ tx[s].pc \in {"apply", "reread"} /\ tx[s].pc \in InTask
           /\ tx[s].part \in Leg /\ tx[s].part.bin \in Bin
           /\ tx[s].part.avail # 0 => tx[s].part.shown = "avail"
           /\ tx[s].view[tx[s].part.bin] # NoRow
           /\ Task(s) = TaskOf(tx[s]) /\ Task(s) \in Draw
           /\ \E b \in Task(s).bins, q \in 1..(Task(s).quantity - tx[s].taken) :
                 tx[s].part = Portion(Task(s), b, q) /\ Pieces(tx[s].part) = q
  <1>1. InOrder(tx[s])
    BY DEF LegsInv
  <1>2. /\ tx[s].pc \in {"apply", "reread"} /\ tx[s].pc \in InTask /\ TaskOf(tx[s]) \in Draw
        /\ tx[s].view[tx[s].part.bin] # NoRow
    BY <1>1 DEF InOrder, LegOf, InTask
  <1>3. Task(s) = TaskOf(tx[s])
    BY <1>2, TaskType
  <1>4. PICK b \in Task(s).bins, q \in 1..(Task(s).quantity - tx[s].taken) :
           tx[s].part = Portion(Task(s), b, q)
    BY <1>1, <1>3 DEF InOrder
  <1>5. q \in Int
    OBVIOUS
  <1>6. /\ tx[s].part \in Leg /\ (tx[s].part.avail # 0 => tx[s].part.shown = "avail")
        /\ Pieces(tx[s].part) = q
    BY <1>2, <1>3, <1>4, <1>5, PortionType
  <1> QED
    BY <1>2, <1>3, <1>4, <1>6 DEF Leg

LEMMA MovedType ==
    ASSUME NEW row \in Balance, NEW leg \in Leg
    PROVE  /\ Moved(row, leg) \in Balance
           /\ Moved(row, leg) # NoRow
           /\ Moved(row, leg).version = row.version + 1
  BY AbsentAssumption DEF Moved, Balance, Leg

LEMMA ZeroRowType == ZeroRow \in Balance /\ ZeroRow # NoRow /\ Legal(ZeroRow)
                     /\ ZeroRow.version = 0
  BY AbsentAssumption DEF ZeroRow, Balance, Legal

LEMMA FlowRowType ==
    ASSUME NEW seen \in Balance, NEW new \in Balance, NEW leg \in Leg
    PROVE  FlowRow(seen, new, leg) \in Flow /\ DrawnRow(new, leg) \in Flow
  BY DEF FlowRow, DrawnRow, Flow, Balance, Leg, Bucket

\* A row a session may write is the row it sees.
LEMMA UnlockedSeesNewest ==
    ASSUME LockInv, NEW s \in Session, NEW b \in Bin, Unlocked(s, b)
    PROVE  Visible(s, b) = cur[b]
  BY DEF LockInv, Unlocked, Visible

LEMMA InitIndInv == Init => IndInv
  <1> SUFFICES ASSUME Init PROVE IndInv
    OBVIOUS
  <1> USE DEF Init
  <1>1. TypeOK
    BY OpeningAssumption DEF TypeOK, Progress, Idle, NoView
  <1>2. LegsInv
    BY DEF LegsInv, InOrder, InTask, Idle
  <1>3. LockInv
    BY DEF LockInv
  <1>4. NeverOversold
    BY OpeningAssumption DEF NeverOversold
  <1>5. EveryChangeTraced
    BY OpeningAssumption, AbsentAssumption
    DEF EveryChangeTraced, VersionOf, Balance
  <1>6. VersionIdentifiesRow
    BY DEF VersionIdentifiesRow, Idle, NoView
  <1> QED
    BY <1>1, <1>2, <1>3, <1>4, <1>5, <1>6 DEF IndInv

-----------------------------------------------------------------------------
(* Steps that change a session only.                                        *)

\* What VersionIdentifiesRow asks of one copy of one row.
Sound(s, b, copy) ==
    copy # NoRow => /\ Visible(s, b) # NoRow
                    /\ copy.version <= Visible(s, b).version
                    /\ copy.version = Visible(s, b).version
                         => copy = Visible(s, b)

LEMMA VisibleIsSound ==
    ASSUME TypeOK, NEW s \in Session, NEW b \in Bin
    PROVE  /\ Visible(s, b) \in Balance \cup {NoRow}
           /\ Sound(s, b, Visible(s, b))
  BY DEF TypeOK, Visible, Sound, Balance

LEMMA InOrderThen ==
    ASSUME NEW u \in Session, NEW t, InOrder(t), tx'[u] = t
    PROVE  InOrder(tx[u])'
  BY DEF InOrder, TaskOf, LegOf, Portion

LEMMA SessionStep ==
    ASSUME IndInv, UNCHANGED <<inv, cur, lock, pend>>,
           NEW s \in Session, NEW t \in Progress,
           tx' = [tx EXCEPT ![s] = t],
           InOrder(t),
           \A b \in Bin : Sound(s, b, t.view[b])
    PROVE  IndInv'
  <1> USE DEF IndInv
  <1>1. TypeOK'
    BY DEF TypeOK
  <1>2. \A u \in Session : tx'[u] = IF u = s THEN t ELSE tx[u]
    BY DEF TypeOK
  <1>3. LegsInv'
    <2> SUFFICES ASSUME NEW u \in Session PROVE InOrder(tx[u])'
      BY DEF LegsInv
    <2>1. tx'[u] = (IF u = s THEN t ELSE tx[u]) /\ InOrder(tx[u])
      BY <1>2 DEF LegsInv
    <2> QED
      BY <2>1, InOrderThen
  <1>4. LockInv' /\ NeverOversold' /\ EveryChangeTraced'
    BY DEF LockInv, NeverOversold, EveryChangeTraced
  <1>5. VersionIdentifiesRow'
    BY <1>2 DEF VersionIdentifiesRow, Visible, Sound
  <1> QED
    BY <1>1, <1>3, <1>4, <1>5

LEMMA BeginIndInv ==
    ASSUME IndInv, NEW s \in Session, Begin(s)
    PROVE  IndInv'
  <1>1. PICK legs \in Programs : Start(s, legs, NoView)
    BY DEF Begin
  <1> DEFINE t == [pc |-> IF legs = <<>> THEN "done" ELSE "load",
                   legs |-> legs, at |-> 1, tries |-> 0, view |-> NoView, taken |-> 0,
                   part |-> NoLeg]
  <1>2. UNCHANGED <<inv, cur, lock, pend>> /\ tx' = [tx EXCEPT ![s] = t]
    BY <1>1 DEF Start
  <1>3. legs \in Seq(Leg \cup Draw) /\ t \in Progress
    BY ProgramsAssumption DEF NoView, Progress
  <1>4. InOrder(t)
    BY <1>3 DEF InOrder, InTask
  <1>5. \A b \in Bin : Sound(s, b, t.view[b])
    BY DEF NoView, Sound
  <1> QED
    BY <1>2, <1>3, <1>4, <1>5, SessionStep

LEMMA LoadIndInv ==
    ASSUME IndInv, NEW s \in Session, Load(s)
    PROVE  IndInv'
  <1> USE DEF IndInv
  <1> DEFINE b == CurrentLeg(s).bin
             row == IF tx[s].view[b] # NoRow THEN tx[s].view[b] ELSE Visible(s, b)
             t == [tx[s] EXCEPT !.pc = IF row = NoRow THEN "insert" ELSE "apply",
                                !.view = [tx[s].view EXCEPT ![b] = row]]
  <1>1. Plain(s) /\ UNCHANGED <<inv, cur, lock, pend>>
    BY DEF Load, Plain
  <1>2. b \in Bin /\ tx[s] \in Progress
    BY <1>1, CurrentLegType DEF TypeOK
  <1>3. row \in Balance \cup {NoRow} /\ Sound(s, b, row)
    BY <1>2, VisibleIsSound DEF Progress, VersionIdentifiesRow, Sound
  <1>4. t \in Progress
    BY <1>2, <1>3 DEF Progress
  <1>5. tx' = [tx EXCEPT ![s] = t]
    BY <1>2 DEF Load, TypeOK, Progress
  <1>6. /\ tx[s].at <= Len(tx[s].legs) /\ tx[s].part = NoLeg /\ TaskOf(tx[s]) \notin Draw
        /\ b = TaskOf(tx[s]).bin
    BY <1>1, CurrentLegType, TaskType DEF Load
  <1>7. /\ t.at = tx[s].at /\ t.legs = tx[s].legs /\ t.part = NoLeg
        /\ t.pc \in {"insert", "apply"} /\ (t.pc = "apply" => row # NoRow)
        /\ t.view[b] = row
    BY <1>2, <1>6 DEF Progress
  <1>8. InOrder(t)
    BY <1>6, <1>7 DEF InOrder, TaskOf, LegOf, InTask
  <1>9. \A c \in Bin : Sound(s, c, t.view[c])
    BY <1>2, <1>3 DEF Progress, VersionIdentifiesRow, Sound
  <1> QED
    BY <1>1, <1>4, <1>5, <1>8, <1>9, SessionStep

LEMMA InsertRacedIndInv ==
    ASSUME IndInv, NEW s \in Session, InsertRaced(s)
    PROVE  IndInv'
  <1> USE DEF IndInv
  <1> DEFINE b == CurrentLeg(s).bin
             t == [tx[s] EXCEPT !.pc = "apply",
                                !.view = [tx[s].view EXCEPT ![b] = cur[b]]]
  <1>1. Plain(s) /\ UNCHANGED <<inv, cur, lock, pend>>
    BY DEF InsertRaced, Plain, LegsInv, InOrder
  <1>2. b \in Bin /\ tx[s] \in Progress
    BY <1>1, CurrentLegType DEF TypeOK
  <1>3. cur[b] # NoRow /\ cur[b] \in Balance /\ Sound(s, b, cur[b])
    BY <1>2, VisibleIsSound, UnlockedSeesNewest DEF InsertRaced, TypeOK
  <1>4. t \in Progress
    BY <1>2, <1>3 DEF Progress
  <1>5. tx' = [tx EXCEPT ![s] = t]
    BY <1>2 DEF InsertRaced, TypeOK, Progress
  <1>6. /\ tx[s].at <= Len(tx[s].legs) /\ tx[s].part = NoLeg /\ TaskOf(tx[s]) \notin Draw
        /\ b = TaskOf(tx[s]).bin
    BY <1>1, CurrentLegType, TaskType DEF InsertRaced, LegsInv, InOrder
  <1>7. /\ t.at = tx[s].at /\ t.legs = tx[s].legs /\ t.part = NoLeg /\ t.pc = "apply"
        /\ t.view[b] = cur[b]
    BY <1>2, <1>6 DEF Progress
  <1>8. InOrder(t)
    BY <1>3, <1>6, <1>7 DEF InOrder, TaskOf, LegOf, InTask
  <1>9. \A c \in Bin : Sound(s, c, t.view[c])
    BY <1>2, <1>3 DEF Progress, VersionIdentifiesRow, Sound
  <1> QED
    BY <1>1, <1>4, <1>5, <1>8, <1>9, SessionStep

LEMMA MissIndInv ==
    ASSUME IndInv, NEW s \in Session, Miss(s)
    PROVE  IndInv'
  <1> USE DEF IndInv
  <1> DEFINE t == [tx[s] EXCEPT !.pc = "reread"]
  <1>1. UNCHANGED <<inv, cur, lock, pend>> /\ tx[s].pc = "apply"
    BY DEF Miss
  <1>2. tx[s] \in Progress /\ tx' = [tx EXCEPT ![s] = t]
    BY DEF Miss, TypeOK
  <1>3. t \in Progress
    BY <1>2 DEF Progress
  <1>4. /\ t.pc = "reread" /\ t.at = tx[s].at /\ t.legs = tx[s].legs /\ t.part = tx[s].part
        /\ t.view = tx[s].view /\ t.taken = tx[s].taken
    BY <1>2 DEF Progress
  <1>5. InOrder(t)
    BY <1>1, <1>4 DEF LegsInv, InOrder, TaskOf, LegOf, InTask
  <1>6. \A c \in Bin : Sound(s, c, t.view[c])
    BY <1>4 DEF VersionIdentifiesRow, Sound
  <1> QED
    BY <1>1, <1>2, <1>3, <1>5, <1>6, SessionStep

\* The next task: an ended one leaves no portion behind.
LEMMA NextTask ==
    ASSUME TypeOK, LegsInv, NEW s \in Session, tx[s].pc \in InTask,
           NEW t \in Progress, t.pc = NextPhase(s), t.at = tx[s].at + 1, t.legs = tx[s].legs,
           t.part = NoLeg
    PROVE  InOrder(t)
  <1>1. tx[s].at \in 1..Len(tx[s].legs) /\ Len(tx[s].legs) \in Nat
    BY TaskType
  <1> QED
    BY <1>1 DEF InOrder, InTask, NextPhase

\* A portion takes something, so what changes nothing is no portion.
LEMMA EnsuredPlain ==
    ASSUME TypeOK, LegsInv, NEW s \in Session, Ensured(s)
    PROVE  tx[s].part = NoLeg
  <1> SUFFICES ASSUME tx[s].part # NoLeg PROVE FALSE
    OBVIOUS
  <1>1. PICK b \in Task(s).bins, q \in 1..(Task(s).quantity - tx[s].taken) :
           Pieces(tx[s].part) = q
    BY PartType
  <1>2. OnlyEnsures(tx[s].part)
    BY DEF Ensured, CurrentLeg
  <1> QED
    BY <1>1, <1>2 DEF OnlyEnsures, Pieces

LEMMA EnsuredIndInv ==
    ASSUME IndInv, NEW s \in Session, Ensured(s)
    PROVE  IndInv'
  <1> USE DEF IndInv
  <1> DEFINE t == [tx[s] EXCEPT !.pc = NextPhase(s), !.at = tx[s].at + 1]
  <1>0. tx[s].part = NoLeg
    BY EnsuredPlain
  <1>1. tx[s].pc \in InTask /\ UNCHANGED <<inv, cur, lock, pend>>
    BY DEF Ensured, InTask
  <1>2. tx[s] \in Progress /\ tx' = [tx EXCEPT ![s] = t]
    BY DEF Ensured, TypeOK
  <1>3. NextPhase(s) \in {"load", "done"} /\ tx[s].at + 1 \in Nat \ {0}
    BY <1>2 DEF Progress, NextPhase
  <1>4. /\ t \in Progress /\ t.pc = NextPhase(s) /\ t.at = tx[s].at + 1
        /\ t.legs = tx[s].legs /\ t.part = NoLeg /\ t.view = tx[s].view
    BY <1>0, <1>2, <1>3 DEF Progress
  <1> HIDE DEF t
  <1>5. InOrder(t)
    BY <1>1, <1>4, NextTask
  <1>6. \A c \in Bin : Sound(s, c, t.view[c])
    BY <1>4 DEF VersionIdentifiesRow, Sound
  <1> QED
    BY <1>1, <1>2, <1>4, <1>5, <1>6, SessionStep

LEMMA RetryIndInv ==
    ASSUME IndInv, NEW s \in Session, Retry(s)
    PROVE  IndInv'
  <1> USE DEF IndInv
  <1> DEFINE b == CurrentLeg(s).bin
             t == [tx[s] EXCEPT !.pc = "apply", !.tries = tx[s].tries + 1,
                                !.view = [tx[s].view EXCEPT ![b] = Visible(s, b)]]
  <1>1. Plain(s) /\ UNCHANGED <<inv, cur, lock, pend>>
    BY DEF Retry, Plain
  <1>2. b \in Bin /\ tx[s] \in Progress /\ b = TaskOf(tx[s]).bin
    BY <1>1, CurrentLegType, TaskType DEF TypeOK
  <1>3. Visible(s, b) # NoRow /\ Visible(s, b) \in Balance
        /\ Sound(s, b, Visible(s, b))
    BY <1>2, VisibleIsSound DEF Retry, LegsInv, InOrder, LegOf, VersionIdentifiesRow
  <1>4. t \in Progress
    <2>1. [tx[s].view EXCEPT ![b] = Visible(s, b)] \in [Bin -> Balance \cup {NoRow}]
      BY <1>2, <1>3 DEF Progress
    <2>2. tx[s].tries + 1 \in Nat
      BY <1>2 DEF Progress
    <2> QED
      BY <1>2, <2>1, <2>2 DEF Progress
  <1>5. tx' = [tx EXCEPT ![s] = t]
    BY <1>2 DEF Retry, TypeOK, Progress
  <1>6. /\ tx[s].at <= Len(tx[s].legs) /\ tx[s].part = NoLeg /\ TaskOf(tx[s]) \notin Draw
    BY <1>1, CurrentLegType, TaskType DEF Retry, LegsInv, InOrder
  <1>7. /\ t.at = tx[s].at /\ t.legs = tx[s].legs /\ t.part = NoLeg /\ t.pc = "apply"
        /\ t.view[b] = Visible(s, b)
    BY <1>2, <1>6 DEF Progress
  <1>8. InOrder(t)
    BY <1>2, <1>3, <1>6, <1>7 DEF InOrder, TaskOf, LegOf, InTask
  <1>9. \A c \in Bin : Sound(s, c, t.view[c])
    BY <1>2, <1>3 DEF Progress, VersionIdentifiesRow, Sound
  <1> QED
    BY <1>1, <1>4, <1>5, <1>8, <1>9, SessionStep

-----------------------------------------------------------------------------
(* Steps of a draw that write nothing.                                      *)

LEMMA ListBinsIndInv ==
    ASSUME IndInv, NEW s \in Session, ListBins(s)
    PROVE  IndInv'
  <1> USE DEF IndInv
  <1> DEFINE view == [b \in Bin |-> IF b \in Task(s).bins /\ tx[s].view[b] = NoRow
                                    THEN Visible(s, b) ELSE tx[s].view[b]]
             t == [tx[s] EXCEPT !.pc = "pick", !.view = view]
  <1>1. tx[s].pc = "load" /\ Task(s) \in Draw /\ UNCHANGED <<inv, cur, lock, pend>>
    BY DEF ListBins
  <1>2. /\ tx[s] \in Progress /\ Task(s) = TaskOf(tx[s]) /\ tx[s].at <= Len(tx[s].legs)
        /\ tx[s].part = NoLeg
    BY <1>1, TaskType DEF InTask, LegsInv, InOrder
  <1>3. view \in [Bin -> Balance \cup {NoRow}] /\ \A b \in Bin : Sound(s, b, view[b])
    BY <1>2, VisibleIsSound DEF Progress, VersionIdentifiesRow, Sound
  <1>4. tx' = [tx EXCEPT ![s] = t]
    BY <1>2 DEF ListBins, TypeOK, Progress
  <1> HIDE DEF view
  <1>5. /\ t \in Progress /\ t.pc = "pick" /\ t.at = tx[s].at /\ t.legs = tx[s].legs
        /\ t.part = NoLeg /\ t.view = view
    BY <1>2, <1>3 DEF Progress
  <1> HIDE DEF t
  <1>6. InOrder(t)
    BY <1>1, <1>2, <1>5 DEF InOrder, TaskOf
  <1> QED
    BY <1>1, <1>3, <1>4, <1>5, <1>6, SessionStep

LEMMA PickIndInv ==
    ASSUME IndInv, NEW s \in Session, Pick(s)
    PROVE  IndInv'
  <1> USE DEF IndInv
  <1>1. tx[s].pc = "pick" /\ Left(s) > 0 /\ UNCHANGED <<inv, cur, lock, pend>>
    BY DEF Pick
  <1>2. /\ tx[s] \in Progress /\ Task(s) = TaskOf(tx[s]) /\ Task(s) \in Draw
        /\ tx[s].at <= Len(tx[s].legs)
    BY <1>1, TaskType DEF InTask, LegsInv, InOrder
  <1>3. PICK b \in Roomy(s) :
           LET free == tx[s].view[b].avail - tx[s].view[b].occ
               q == IF free < Left(s) THEN free ELSE Left(s)
           IN  tx' = [tx EXCEPT ![s].pc = "apply", ![s].part = Portion(Task(s), b, q)]
    BY DEF Pick
  <1> DEFINE free == tx[s].view[b].avail - tx[s].view[b].occ
             q == IF free < Left(s) THEN free ELSE Left(s)
             t == [tx[s] EXCEPT !.pc = "apply", !.part = Portion(Task(s), b, q)]
  <1>4. /\ b \in Task(s).bins /\ b \in Bin /\ tx[s].view[b] # NoRow
        /\ tx[s].view[b].avail > tx[s].view[b].occ
    BY <1>2 DEF Roomy, Draw
  <1>5. q \in 1..(Task(s).quantity - tx[s].taken)
    <2>1. tx[s].view[b].avail \in Int /\ tx[s].view[b].occ \in Int
      BY <1>2, <1>4 DEF Progress, Balance
    <2>2. Task(s).quantity \in Nat /\ tx[s].taken \in Nat
      BY <1>2 DEF Draw, Progress
    <2> QED
      BY <1>1, <1>4, <2>1, <2>2 DEF Left
  <1>6. tx' = [tx EXCEPT ![s] = t]
    BY <1>2, <1>3 DEF TypeOK, Progress
  <1> HIDE DEF q, free
  <1>7. Portion(Task(s), b, q) \in Leg /\ Portion(Task(s), b, q) # NoLeg
        /\ Portion(Task(s), b, q).bin = b
    BY <1>2, <1>4, <1>5, PortionType
  <1>8. /\ t \in Progress /\ t.pc = "apply" /\ t.at = tx[s].at /\ t.legs = tx[s].legs
        /\ t.part = Portion(Task(s), b, q) /\ t.view = tx[s].view /\ t.taken = tx[s].taken
    BY <1>2, <1>7 DEF Progress
  <1> HIDE DEF t
  <1>9. InOrder(t)
    BY <1>2, <1>4, <1>5, <1>7, <1>8 DEF InOrder, TaskOf, LegOf
  <1>10. \A c \in Bin : Sound(s, c, t.view[c])
    BY <1>8 DEF VersionIdentifiesRow, Sound
  <1> QED
    BY <1>1, <1>6, <1>8, <1>9, <1>10, SessionStep

\* The row of a portion that has missed, as it is read again.
LEMMA RereadType ==
    ASSUME IndInv, NEW s \in Session, tx[s].part # NoLeg
    PROVE  /\ Visible(s, tx[s].part.bin) \in Balance
           /\ Sound(s, tx[s].part.bin, Visible(s, tx[s].part.bin))
           /\ [tx[s].view EXCEPT ![tx[s].part.bin] = Visible(s, tx[s].part.bin)]
                 \in [Bin -> Balance \cup {NoRow}]
           /\ \A c \in Bin :
                 Sound(s, c, [tx[s].view EXCEPT ![tx[s].part.bin] = Visible(s, tx[s].part.bin)][c])
  <1> USE DEF IndInv
  <1> DEFINE b == tx[s].part.bin
  <1>1. b \in Bin /\ tx[s].view[b] # NoRow /\ tx[s] \in Progress
    BY PartType DEF TypeOK
  <1>2. Visible(s, b) # NoRow /\ Visible(s, b) \in Balance /\ Sound(s, b, Visible(s, b))
    BY <1>1, VisibleIsSound DEF VersionIdentifiesRow
  <1> HIDE DEF b
  <1>3. [tx[s].view EXCEPT ![b] = Visible(s, b)] \in [Bin -> Balance \cup {NoRow}]
    BY <1>1, <1>2 DEF Progress
  <1>4. \A c \in Bin : Sound(s, c, [tx[s].view EXCEPT ![b] = Visible(s, b)][c])
    BY <1>1, <1>2 DEF Progress, VersionIdentifiesRow, Sound
  <1> QED
    BY <1>2, <1>3, <1>4 DEF b

LEMMA ReplanIndInv ==
    ASSUME IndInv, NEW s \in Session, Replan(s)
    PROVE  IndInv'
  <1> USE DEF IndInv
  <1> DEFINE view == [tx[s].view EXCEPT ![tx[s].part.bin] = Visible(s, tx[s].part.bin)]
             t == [tx[s] EXCEPT !.pc = "load", !.tries = tx[s].tries + 1, !.view = view,
                                !.part = NoLeg]
  <1>1. tx[s].part # NoLeg /\ UNCHANGED <<inv, cur, lock, pend>>
    BY DEF Replan
  <1>2. view \in [Bin -> Balance \cup {NoRow}] /\ \A c \in Bin : Sound(s, c, view[c])
    BY <1>1, RereadType
  <1>3. tx[s] \in Progress /\ tx[s].at <= Len(tx[s].legs) /\ tx[s].tries + 1 \in Nat
    BY <1>1, PartType, TaskType DEF LegsInv, InOrder, Progress
  <1>4. tx' = [tx EXCEPT ![s] = t]
    BY <1>3 DEF Replan, TypeOK, Progress
  <1> HIDE DEF view
  <1>5. /\ t \in Progress /\ t.pc = "load" /\ t.at = tx[s].at /\ t.legs = tx[s].legs
        /\ t.part = NoLeg /\ t.view = view
    BY <1>2, <1>3 DEF Progress
  <1> HIDE DEF t
  <1>6. InOrder(t)
    BY <1>3, <1>5 DEF InOrder
  <1> QED
    BY <1>1, <1>2, <1>4, <1>5, <1>6, SessionStep

LEMMA GiveUpIndInv ==
    ASSUME IndInv, NEW s \in Session, GiveUp(s)
    PROVE  IndInv'
  <1> USE DEF IndInv
  <1> DEFINE view == [tx[s].view EXCEPT ![tx[s].part.bin] = Visible(s, tx[s].part.bin)]
             t == [tx[s] EXCEPT !.pc = NextPhase(s), !.at = tx[s].at + 1, !.tries = 0,
                                !.view = view, !.taken = 0, !.part = NoLeg]
  <1>1. tx[s].part # NoLeg /\ UNCHANGED <<inv, cur, lock, pend>>
    BY DEF GiveUp
  <1>2. view \in [Bin -> Balance \cup {NoRow}] /\ \A c \in Bin : Sound(s, c, view[c])
    BY <1>1, RereadType
  <1>3. tx[s] \in Progress /\ tx[s].pc \in InTask
    BY <1>1, PartType DEF TypeOK
  <1>4. NextPhase(s) \in {"load", "done"} /\ tx[s].at + 1 \in Nat \ {0}
    BY <1>3 DEF Progress, NextPhase
  <1>5. tx' = [tx EXCEPT ![s] = t]
    BY <1>3 DEF GiveUp, TypeOK, Progress
  <1> HIDE DEF view
  <1>6. /\ t \in Progress /\ t.pc = NextPhase(s) /\ t.at = tx[s].at + 1
        /\ t.legs = tx[s].legs /\ t.part = NoLeg /\ t.view = view
    BY <1>2, <1>3, <1>4 DEF Progress
  <1> HIDE DEF t
  <1>7. InOrder(t)
    BY <1>3, <1>6, NextTask
  <1> QED
    BY <1>1, <1>2, <1>5, <1>6, <1>7, SessionStep

LEMMA EndDrawIndInv ==
    ASSUME IndInv, NEW s \in Session, EndDraw(s)
    PROVE  IndInv'
  <1> USE DEF IndInv
  <1> DEFINE t == [tx[s] EXCEPT !.pc = NextPhase(s), !.at = tx[s].at + 1, !.tries = 0, !.taken = 0]
  <1>1. tx[s].pc = "pick" /\ UNCHANGED <<inv, cur, lock, pend>>
    BY DEF EndDraw
  <1>2. tx[s] \in Progress /\ tx[s].pc \in InTask /\ tx[s].part = NoLeg
    BY <1>1 DEF TypeOK, InTask, LegsInv, InOrder
  <1>3. NextPhase(s) \in {"load", "done"} /\ tx[s].at + 1 \in Nat \ {0}
    BY <1>2 DEF Progress, NextPhase
  <1>4. tx' = [tx EXCEPT ![s] = t]
    BY <1>2 DEF EndDraw, TypeOK, Progress
  <1>5. /\ t \in Progress /\ t.pc = NextPhase(s) /\ t.at = tx[s].at + 1
        /\ t.legs = tx[s].legs /\ t.part = NoLeg /\ t.view = tx[s].view
    BY <1>2, <1>3 DEF Progress
  <1> HIDE DEF t
  <1>6. InOrder(t)
    BY <1>2, <1>5, NextTask
  <1>7. \A c \in Bin : Sound(s, c, t.view[c])
    BY <1>5 DEF VersionIdentifiesRow, Sound
  <1> QED
    BY <1>1, <1>4, <1>5, <1>6, <1>7, SessionStep

-----------------------------------------------------------------------------
(* Steps that write a row.                                                  *)

(***************************************************************************)
(* Writing row b as "new", its author being s: what has to be shown of the *)
(* new row, the new flow rows and the session's new progress t.            *)
(***************************************************************************)
LEMMA WriteStep ==
    ASSUME IndInv, NEW s \in Session, NEW b \in Bin, Unlocked(s, b),
           NEW new \in Balance, new # NoRow, Legal(new),
           NEW flows \in Seq(Flow),
           new.version = VersionOf(inv[b]) + Len(flows),
           inv[b] # NoRow => Len(flows) > 0,
           NEW t \in Progress,
           InOrder(t),
           t.view = [tx[s].view EXCEPT ![b] = new],
           cur' = [cur EXCEPT ![b] = new],
           lock' = [lock EXCEPT ![b] = s],
           pend' = [pend EXCEPT ![b] = flows],
           tx' = [tx EXCEPT ![s] = t],
           inv' = inv
    PROVE  IndInv'
  <1> USE DEF IndInv
  <1>1. TypeOK'
    BY DEF TypeOK
  <1>2. /\ \A u \in Session : tx'[u] = IF u = s THEN t ELSE tx[u]
        /\ \A c \in Bin : /\ cur'[c] = IF c = b THEN new ELSE cur[c]
                          /\ lock'[c] = IF c = b THEN s ELSE lock[c]
                          /\ pend'[c] = IF c = b THEN flows ELSE pend[c]
    BY DEF TypeOK
  <1>3. LegsInv'
    <2> SUFFICES ASSUME NEW u \in Session PROVE InOrder(tx[u])'
      BY DEF LegsInv
    <2>1. tx'[u] = (IF u = s THEN t ELSE tx[u]) /\ InOrder(tx[u])
      BY <1>2 DEF LegsInv
    <2> QED
      BY <2>1, InOrderThen
  <1>4. LockInv'
    BY <1>2, AbsentAssumption DEF LockInv
  <1>5. NeverOversold'
    BY <1>2 DEF NeverOversold
  <1>6. EveryChangeTraced'
    BY <1>2 DEF EveryChangeTraced, VersionOf
  <1>7. VersionIdentifiesRow'
    <2> SUFFICES ASSUME NEW u \in Session, NEW c \in Bin
                 PROVE  Sound(u, c, tx[u].view[c])'
      BY DEF VersionIdentifiesRow, Sound
    <2>1. Sound(u, c, tx[u].view[c])
      BY DEF VersionIdentifiesRow, Sound
    <2>2. CASE u = s /\ c = b
      <3>1. tx'[u].view[c] = new /\ Visible(u, c)' = new
        BY <1>2, <2>2 DEF Visible, TypeOK, Progress
      <3> QED
        BY <3>1 DEF Sound, Balance
    <2>3. CASE u = s /\ c # b
      <3>1. tx'[u].view[c] = tx[u].view[c] /\ Visible(u, c)' = Visible(u, c)
        BY <1>2, <2>3 DEF Visible, TypeOK, Progress
      <3> QED
        BY <3>1, <2>1 DEF Sound
    <2>4. CASE u # s
      <3>1. Visible(u, c)' = Visible(u, c)
        BY <1>2, <2>4, AbsentAssumption DEF Visible, Unlocked, TypeOK
      <3> QED
        BY <3>1, <2>1, <2>4, <1>2 DEF Sound
    <2> QED
      BY <2>2, <2>3, <2>4
  <1> QED
    BY <1>1, <1>3, <1>4, <1>5, <1>6, <1>7

LEMMA InsertIndInv ==
    ASSUME IndInv, NEW s \in Session, Insert(s)
    PROVE  IndInv'
  <1> USE DEF IndInv
  <1> DEFINE b == CurrentLeg(s).bin
             t == [tx[s] EXCEPT !.pc = "apply",
                                !.view = [tx[s].view EXCEPT ![b] = ZeroRow]]
  <1>1. Plain(s) /\ Unlocked(s, b) /\ cur[b] = NoRow /\ inv' = inv
    BY DEF Insert, Plain, LegsInv, InOrder
  <1>2. b \in Bin /\ tx[s] \in Progress
    BY <1>1, CurrentLegType DEF TypeOK
  <1>3. inv[b] = NoRow /\ pend[b] = <<>>
    BY <1>1, <1>2 DEF LockInv, Unlocked
  <1>4. /\ cur' = [cur EXCEPT ![b] = ZeroRow]
        /\ lock' = [lock EXCEPT ![b] = s]
        /\ pend' = [pend EXCEPT ![b] = <<>>]
        /\ tx' = [tx EXCEPT ![s] = t]
    BY <1>2, <1>3 DEF Insert, TypeOK, Progress
  <1>5. t \in Progress
    BY <1>2, ZeroRowType DEF Progress
  <1>6. /\ tx[s].at <= Len(tx[s].legs) /\ tx[s].part = NoLeg /\ TaskOf(tx[s]) \notin Draw
        /\ b = TaskOf(tx[s]).bin
    BY <1>1, CurrentLegType, TaskType DEF Insert, LegsInv, InOrder
  <1>7. /\ t.at = tx[s].at /\ t.legs = tx[s].legs /\ t.part = NoLeg /\ t.pc = "apply"
        /\ t.view[b] = ZeroRow /\ t.view = [tx[s].view EXCEPT ![b] = ZeroRow]
    BY <1>2, <1>6 DEF Progress
  <1>8. InOrder(t)
    BY <1>6, <1>7, ZeroRowType DEF InOrder, TaskOf, LegOf, InTask
  <1>9. /\ <<>> \in Seq(Flow)
        /\ ZeroRow.version = VersionOf(inv[b]) + Len(<<>>)
        /\ inv[b] # NoRow => Len(<<>>) > 0
    BY <1>3, ZeroRowType DEF VersionOf
  <1> HIDE DEF b, t
  <1> QED
    BY <1>1, <1>2, <1>4, <1>5, <1>7, <1>8, <1>9, ZeroRowType, WriteStep

\* The UPDATE of a leg, whichever way it is posted: what the row and its flow rows become.
LEMMA PostedRow ==
    ASSUME IndInv, NEW s \in Session, NEW leg \in Leg, leg.bin \in Bin,
           tx[s].view[leg.bin] # NoRow, Unlocked(s, leg.bin),
           Matches(cur[leg.bin], tx[s].view[leg.bin], leg), NEW f \in Flow
    PROVE  /\ tx[s].view[leg.bin] = cur[leg.bin] /\ cur[leg.bin] \in Balance /\ cur[leg.bin] # NoRow
           /\ Moved(cur[leg.bin], leg) \in Balance /\ Moved(cur[leg.bin], leg) # NoRow
           /\ Legal(Moved(cur[leg.bin], leg))
           /\ Append(pend[leg.bin], f) \in Seq(Flow) /\ Len(Append(pend[leg.bin], f)) > 0
           /\ Moved(cur[leg.bin], leg).version
                 = VersionOf(inv[leg.bin]) + Len(Append(pend[leg.bin], f))
           /\ [tx[s].view EXCEPT ![leg.bin] = Moved(cur[leg.bin], leg)]
                 \in [Bin -> Balance \cup {NoRow}]
  <1> USE DEF IndInv
  <1> DEFINE b == leg.bin
             new == Moved(cur[b], leg)
  <1>1. tx[s] \in Progress
    BY DEF TypeOK
  <1>2. tx[s].view[b] = cur[b] /\ cur[b] # NoRow /\ cur[b] \in Balance
    BY UnlockedSeesNewest DEF VersionIdentifiesRow, Matches, TypeOK
  <1>3. new \in Balance /\ new # NoRow /\ new.version = cur[b].version + 1
    BY <1>2, MovedType
  <1>4. Legal(new)
    BY DEF Matches, Fits
  <1>5. pend[b] \in Seq(Flow) /\ Append(pend[b], f) \in Seq(Flow)
        /\ Len(Append(pend[b], f)) = Len(pend[b]) + 1
    BY DEF TypeOK
  <1>6. cur[b].version = VersionOf(inv[b]) + Len(pend[b])
    BY <1>2 DEF EveryChangeTraced, VersionOf
  <1>7. VersionOf(inv[b]) \in Int /\ cur[b].version \in Int
    BY <1>2 DEF VersionOf, TypeOK, Balance
  <1>8. [tx[s].view EXCEPT ![b] = new] \in [Bin -> Balance \cup {NoRow}]
    BY <1>1, <1>3 DEF Progress
  <1> QED
    BY <1>2, <1>3, <1>4, <1>5, <1>6, <1>7, <1>8

LEMMA ApplyIndInv ==
    ASSUME IndInv, NEW s \in Session, Apply(s)
    PROVE  IndInv'
  <1> USE DEF IndInv
  <1> DEFINE leg == CurrentLeg(s)
             b == leg.bin
             seen == tx[s].view[b]
             new == Moved(cur[b], leg)
             f == FlowRow(seen, new, leg)
             flows == Append(pend[b], f)
             view == [tx[s].view EXCEPT ![b] = new]
             t == [tx[s] EXCEPT !.pc = NextPhase(s),
                                !.at = tx[s].at + 1,
                                !.tries = 0,
                                !.view = view]
  <1>1. /\ Plain(s) /\ Unlocked(s, b) /\ Matches(cur[b], seen, leg) /\ inv' = inv
        /\ tx[s].pc = "apply" /\ tx[s].part = NoLeg
    BY DEF Apply, Plain
  <1>2. leg \in Leg /\ b \in Bin /\ tx[s] \in Progress /\ tx[s].pc \in InTask /\ seen # NoRow
    BY <1>1, CurrentLegType, TaskType DEF TypeOK, LegsInv, InOrder, LegOf
  <1>3. seen \in Balance /\ cur[b] \in Balance /\ new \in Balance
    <2>1. seen \in Balance
      BY <1>2 DEF Progress
    <2>2. f \in Flow => cur[b] \in Balance /\ new \in Balance
      BY <1>1, <1>2, PostedRow
    <2>3. cur[b] \in Balance
      BY <1>1, <1>2, UnlockedSeesNewest DEF VersionIdentifiesRow, TypeOK
    <2> QED
      BY <1>2, <2>1, <2>3, MovedType
  <1>4. f \in Flow
    BY <1>2, <1>3, FlowRowType
  <1> HIDE DEF f
  <1>5. /\ new \in Balance /\ new # NoRow /\ Legal(new) /\ flows \in Seq(Flow) /\ Len(flows) > 0
        /\ new.version = VersionOf(inv[b]) + Len(flows) /\ view \in [Bin -> Balance \cup {NoRow}]
    BY <1>1, <1>2, <1>4, PostedRow
  <1>6. NextPhase(s) \in {"load", "done"} /\ tx[s].at + 1 \in Nat \ {0}
    BY <1>2 DEF Progress, NextPhase
  <1>7. /\ cur' = [cur EXCEPT ![b] = new]
        /\ lock' = [lock EXCEPT ![b] = s]
        /\ pend' = [pend EXCEPT ![b] = flows]
        /\ tx' = [tx EXCEPT ![s] = t]
    BY <1>2 DEF Apply, TypeOK, Progress, f
  <1> HIDE DEF view, new, flows, b, leg
  <1>8. /\ t \in Progress /\ t.pc = NextPhase(s) /\ t.at = tx[s].at + 1
        /\ t.legs = tx[s].legs /\ t.part = NoLeg /\ t.view = view
    BY <1>1, <1>2, <1>5, <1>6 DEF Progress
  <1> HIDE DEF t
  <1>9. InOrder(t)
    BY <1>2, <1>8, NextTask
  <1>10. t.view = [tx[s].view EXCEPT ![b] = new]
    BY <1>8 DEF view
  <1> QED
    BY <1>1, <1>2, <1>5, <1>7, <1>8, <1>9, <1>10, WriteStep

LEMMA ApplyDrawnIndInv ==
    ASSUME IndInv, NEW s \in Session, ApplyDrawn(s)
    PROVE  IndInv'
  <1> USE DEF IndInv
  <1> DEFINE leg == tx[s].part
             b == leg.bin
             new == Moved(cur[b], leg)
             f == DrawnRow(new, leg)
             flows == Append(pend[b], f)
             view == [tx[s].view EXCEPT ![b] = new]
             t == [tx[s] EXCEPT !.pc = "pick", !.view = view,
                                !.taken = tx[s].taken + Pieces(leg), !.part = NoLeg]
  <1>1. /\ tx[s].part # NoLeg /\ Unlocked(s, b) /\ Matches(cur[b], tx[s].view[b], leg)
        /\ inv' = inv
    BY DEF ApplyDrawn
  <1>2. /\ leg \in Leg /\ b \in Bin /\ tx[s] \in Progress /\ tx[s].view[b] # NoRow
        /\ Task(s) \in Draw /\ Task(s) = TaskOf(tx[s]) /\ tx[s].at <= Len(tx[s].legs)
    BY <1>1, PartType, TaskType
  <1>3. PICK c \in Task(s).bins, q \in 1..(Task(s).quantity - tx[s].taken) : Pieces(leg) = q
    BY <1>1, PartType
  <1>4. f \in Flow
    <2>1. cur[b] \in Balance
      BY <1>1, <1>2, UnlockedSeesNewest DEF VersionIdentifiesRow, TypeOK
    <2> QED
      BY <1>2, <2>1, MovedType, FlowRowType
  <1> HIDE DEF f
  <1>5. /\ new \in Balance /\ new # NoRow /\ Legal(new) /\ flows \in Seq(Flow) /\ Len(flows) > 0
        /\ new.version = VersionOf(inv[b]) + Len(flows) /\ view \in [Bin -> Balance \cup {NoRow}]
    BY <1>1, <1>2, <1>4, PostedRow
  <1>6. tx[s].taken + Pieces(leg) \in Nat
    BY <1>2, <1>3 DEF Progress
  <1>7. /\ cur' = [cur EXCEPT ![b] = new]
        /\ lock' = [lock EXCEPT ![b] = s]
        /\ pend' = [pend EXCEPT ![b] = flows]
        /\ tx' = [tx EXCEPT ![s] = t]
    BY <1>2 DEF ApplyDrawn, TypeOK, Progress, f
  <1> HIDE DEF view, new, flows, b, leg
  <1>8. /\ t \in Progress /\ t.pc = "pick" /\ t.at = tx[s].at
        /\ t.legs = tx[s].legs /\ t.part = NoLeg /\ t.view = view
    BY <1>2, <1>5, <1>6 DEF Progress
  <1> HIDE DEF t
  <1>9. InOrder(t)
    BY <1>2, <1>8 DEF InOrder, TaskOf
  <1>10. t.view = [tx[s].view EXCEPT ![b] = new]
    BY <1>8 DEF view
  <1> QED
    BY <1>1, <1>2, <1>5, <1>7, <1>8, <1>9, <1>10, WriteStep

-----------------------------------------------------------------------------
(* The end of a transaction.                                                *)

LEMMA ReleaseFacts ==
    ASSUME TypeOK, NEW s \in Session, Release(s)
    PROVE  /\ tx' \in [Session -> Progress]
           /\ lock' \in [Bin -> Session \cup {Nobody}]
           /\ pend' \in [Bin -> Seq(Flow)]
           /\ \A u \in Session : tx'[u] = IF u = s THEN Idle ELSE tx[u]
           /\ \A b \in Bin : IF lock[b] = s
                            THEN lock'[b] = Nobody /\ pend'[b] = <<>>
                            ELSE lock'[b] = lock[b] /\ pend'[b] = pend[b]
  <1>1. Idle \in Progress
    BY DEF Idle, Progress, NoView
  <1> QED
    BY <1>1 DEF Release, Held, TypeOK

LEMMA IdleLegs ==
    ASSUME TypeOK, LegsInv, NEW s \in Session, Release(s)
    PROVE  LegsInv'
  <1>1. \A u \in Session : tx'[u] = IF u = s THEN Idle ELSE tx[u]
    BY ReleaseFacts
  <1> SUFFICES ASSUME NEW u \in Session PROVE InOrder(tx[u])'
    BY DEF LegsInv
  <1>2. InOrder(Idle)
    BY DEF InOrder, InTask, Idle
  <1>3. InOrder(tx[u])
    BY DEF LegsInv
  <1> QED
    BY <1>1, <1>2, <1>3, InOrderThen

LEMMA RollbackIndInv ==
    ASSUME IndInv, NEW s \in Session, Rollback(s)
    PROVE  IndInv'
  <1> USE DEF IndInv
  <1>1. Release(s) /\ inv' = inv
        /\ cur' = [b \in Bin |-> IF lock[b] = s THEN inv[b] ELSE cur[b]]
    BY DEF Rollback, Held
  <1>2. TypeOK'
    BY <1>1, ReleaseFacts DEF TypeOK
  <1>3. LegsInv'
    BY <1>1, IdleLegs
  <1>4. LockInv'
    BY <1>1, ReleaseFacts DEF LockInv
  <1>5. NeverOversold'
    BY <1>1 DEF NeverOversold
  <1>6. EveryChangeTraced'
    <2> SUFFICES ASSUME NEW b \in Bin
                 PROVE  VersionOf(cur'[b]) = VersionOf(inv'[b]) + Len(pend'[b])
      BY DEF EveryChangeTraced, VersionOf
    <2>1. CASE lock[b] = s
      <3>1. cur'[b] = inv'[b] /\ pend'[b] = <<>> /\ inv'[b] \in Balance \cup {NoRow}
        BY <1>1, <2>1, ReleaseFacts DEF TypeOK
      <3> QED
        BY <3>1 DEF VersionOf, Balance
    <2>2. CASE lock[b] # s
      BY <1>1, <2>2, ReleaseFacts DEF EveryChangeTraced, VersionOf
    <2> QED
      BY <2>1, <2>2
  <1>7. VersionIdentifiesRow'
    <2> SUFFICES ASSUME NEW u \in Session, NEW c \in Bin
                 PROVE  Sound(u, c, tx[u].view[c])'
      BY DEF VersionIdentifiesRow, Sound
    <2>1. CASE u = s
      BY <1>1, <2>1, ReleaseFacts DEF Sound, Idle, NoView
    <2>2. CASE u # s
      <3>1. Visible(u, c)' = Visible(u, c) /\ tx'[u] = tx[u]
        BY <1>1, <2>2, ReleaseFacts, AbsentAssumption DEF Visible
      <3> QED
        BY <3>1 DEF VersionIdentifiesRow, Sound
    <2> QED
      BY <2>1, <2>2
  <1> QED
    BY <1>2, <1>3, <1>4, <1>5, <1>6, <1>7

LEMMA CommitIndInv ==
    ASSUME IndInv, NEW s \in Session, Commit(s)
    PROVE  IndInv'
  <1> USE DEF IndInv
  <1>1. Release(s) /\ cur' = cur
        /\ inv' = [b \in Bin |-> IF lock[b] = s THEN cur[b] ELSE inv[b]]
    BY DEF Commit, Visible
  <1>2. TypeOK'
    BY <1>1, ReleaseFacts DEF TypeOK
  <1>3. LegsInv'
    BY <1>1, IdleLegs
  <1>4. LockInv'
    BY <1>1, ReleaseFacts DEF LockInv
  <1>5. NeverOversold'
    BY <1>1 DEF NeverOversold
  <1>6. EveryChangeTraced'
    <2> SUFFICES ASSUME NEW b \in Bin
                 PROVE  VersionOf(cur'[b]) = VersionOf(inv'[b]) + Len(pend'[b])
      BY DEF EveryChangeTraced, VersionOf
    <2>1. CASE lock[b] = s
      <3>1. cur'[b] = inv'[b] /\ pend'[b] = <<>> /\ cur'[b] \in Balance \cup {NoRow}
        BY <1>1, <2>1, ReleaseFacts DEF TypeOK
      <3> QED
        BY <3>1 DEF VersionOf, Balance
    <2>2. CASE lock[b] # s
      BY <1>1, <2>2, ReleaseFacts DEF EveryChangeTraced, VersionOf
    <2> QED
      BY <2>1, <2>2
  <1>7. VersionIdentifiesRow'
    <2> SUFFICES ASSUME NEW u \in Session, NEW c \in Bin
                 PROVE  Sound(u, c, tx[u].view[c])'
      BY DEF VersionIdentifiesRow, Sound
    <2>1. CASE u = s
      BY <1>1, <2>1, ReleaseFacts DEF Sound, Idle, NoView
    <2>2. CASE u # s /\ lock[c] # s
      <3>1. Visible(u, c)' = Visible(u, c) /\ tx'[u] = tx[u]
        BY <1>1, <2>2, ReleaseFacts DEF Visible
      <3> QED
        BY <3>1 DEF VersionIdentifiesRow, Sound
    <2>3. CASE u # s /\ lock[c] = s
      <3>1. Visible(u, c) = inv[c] /\ Visible(u, c)' = cur[c] /\ tx'[u] = tx[u]
        BY <1>1, <2>3, ReleaseFacts, AbsentAssumption DEF Visible
      <3>2. ASSUME tx[u].view[c] # NoRow
            PROVE  cur[c] # NoRow /\ tx[u].view[c].version < cur[c].version
        <4>1. inv[c] # NoRow /\ tx[u].view[c].version <= inv[c].version
          BY <3>1, <3>2 DEF VersionIdentifiesRow
        <4>2. cur[c] # NoRow /\ Len(pend[c]) > 0
          BY <2>3, <4>1, AbsentAssumption DEF LockInv
        <4>3. cur[c].version = inv[c].version + Len(pend[c])
          BY <4>1, <4>2 DEF EveryChangeTraced, VersionOf
        <4>4. /\ inv[c].version \in Int /\ tx[u].view[c].version \in Int
              /\ Len(pend[c]) \in Nat
          BY <3>2, <4>1 DEF TypeOK, Progress, Balance
        <4> QED
          BY <4>1, <4>2, <4>3, <4>4
      <3>3. tx[u].view[c] # NoRow => tx[u].view[c].version \in Int
        BY DEF TypeOK, Progress, Balance
      <3>4. cur[c] # NoRow => cur[c].version \in Int
        BY DEF TypeOK, Balance
      <3> QED
        BY <3>1, <3>2, <3>3, <3>4 DEF Sound
    <2> QED
      BY <2>1, <2>2, <2>3
  <1> QED
    BY <1>2, <1>3, <1>4, <1>5, <1>6, <1>7

-----------------------------------------------------------------------------
LEMMA NextIndInv == IndInv /\ [Next]_vars => IndInv'
  <1> SUFFICES ASSUME IndInv, [Next]_vars PROVE IndInv'
    OBVIOUS
  <1>1. ASSUME NEW s \in Session, Begin(s) PROVE IndInv'
    BY <1>1, BeginIndInv
  <1>2. ASSUME NEW s \in Session, Step(s) PROVE IndInv'
    <2>1. ASSUME Insufficient(s) \/ Exhausted(s) PROVE IndInv'
      BY <2>1, RollbackIndInv DEF Insufficient, Exhausted
    <2> QED
      BY <1>2, <2>1, LoadIndInv, InsertIndInv, InsertRacedIndInv, EnsuredIndInv, ApplyIndInv,
         MissIndInv, RetryIndInv, ListBinsIndInv, PickIndInv, ApplyDrawnIndInv, ReplanIndInv,
         GiveUpIndInv, EndDrawIndInv, CommitIndInv DEF Step
  <1>3. ASSUME NEW s \in Session, Victim(s) \/ Abort(s) PROVE IndInv'
    BY <1>3, RollbackIndInv DEF Victim, Abort
  <1>4. CASE UNCHANGED vars
    BY <1>4 DEF vars, IndInv, TypeOK, LegsInv, InOrder, TaskOf, LegOf, Portion, LockInv,
       NeverOversold, EveryChangeTraced, VersionIdentifiesRow, Visible
  <1> QED
    BY <1>1, <1>2, <1>3, <1>4 DEF Next

LEMMA SpecIndInv == Spec => []IndInv
  BY InitIndInv, NextIndInv, PTL DEF Spec

(***************************************************************************)
(* Types: the variables of the ledger keep their types through every       *)
(* request, retry, rollback and crash.                                     *)
(***************************************************************************)
THEOREM TypeCorrect == Spec => []TypeOK
  BY SpecIndInv, PTL DEF IndInv

(***************************************************************************)
(* Anti-oversell for any number of concurrent requests: no version of a    *)
(* row that apply_change writes is negative or reserved beyond its stock.  *)
(***************************************************************************)
THEOREM StockSafe == Spec => []NeverOversold
  BY SpecIndInv, PTL DEF IndInv

(***************************************************************************)
(* The version predicate of apply_change recognises every stale copy: two  *)
(* versions of a row with one number are the same row.                     *)
(***************************************************************************)
THEOREM OptimisticLockSound == Spec => []VersionIdentifiesRow
  BY SpecIndInv, PTL DEF IndInv

(***************************************************************************)
(* Each change of a row inserts exactly one flow row (_commit_change).     *)
(***************************************************************************)
THEOREM ChangesTraced == Spec => []EveryChangeTraced
  BY SpecIndInv, PTL DEF IndInv

-----------------------------------------------------------------------------
(* What a step leaves of its session's progress.                            *)

\* The statements that post nothing.
Statement(s) == \/ Load(s) \/ Insert(s) \/ InsertRaced(s) \/ Miss(s) \/ Retry(s)
                \/ ListBins(s) \/ Pick(s) \/ Replan(s)

\* The steps that post something, or end a task.
Posting(s) == Ensured(s) \/ Apply(s) \/ ApplyDrawn(s) \/ GiveUp(s) \/ EndDraw(s)

\* A task is ended by Ensured and Apply, and a draw by GiveUp and EndDraw.
EndsTask(s) == Ensured(s) \/ Apply(s) \/ GiveUp(s) \/ EndDraw(s)

LEMMA InsertPlain ==
    ASSUME TypeOK, LegsInv, NEW s \in Session, Insert(s)
    PROVE  Plain(s)
  <1>1. tx[s].pc = "insert"
    BY DEF Insert
  <1> QED
    BY <1>1 DEF LegsInv, InOrder, Plain

LEMMA StatementKeeps ==
    ASSUME TypeOK, NEW s \in Session, Statement(s)
    PROVE  /\ \A u \in Session : /\ tx'[u].legs = tx[u].legs
                                 /\ tx'[u].at = tx[u].at
                                 /\ tx'[u].taken = tx[u].taken
           /\ tx'[s].pc \notin {"idle", "done"}
           /\ \A u \in Session : u # s => tx'[u] = tx[u]
           /\ inv' = inv
  <1>1. tx \in [Session -> Progress]
    BY DEF TypeOK
  <1>2. CASE Load(s)
    BY <1>1, <1>2 DEF Load, Progress
  <1>3. CASE Insert(s)
    BY <1>1, <1>3 DEF Insert, Progress
  <1>4. CASE InsertRaced(s)
    BY <1>1, <1>4 DEF InsertRaced, Progress
  <1>5. CASE Miss(s)
    BY <1>1, <1>5 DEF Miss, Progress
  <1>6. CASE Retry(s)
    BY <1>1, <1>6 DEF Retry, Progress
  <1>7. CASE ListBins(s)
    BY <1>1, <1>7 DEF ListBins, Progress
  <1>8. CASE Pick(s)
    BY <1>1, <1>8 DEF Pick, Progress
  <1>9. CASE Replan(s)
    BY <1>1, <1>9 DEF Replan, Progress
  <1> QED
    BY <1>2, <1>3, <1>4, <1>5, <1>6, <1>7, <1>8, <1>9 DEF Statement

LEMMA PostingKeeps ==
    ASSUME IndInv, NEW s \in Session, Posting(s)
    PROVE  /\ \A u \in Session : tx'[u].legs = tx[u].legs
           /\ \A u \in Session : u # s => tx'[u] = tx[u]
           /\ EndsTask(s) => tx'[s].pc = NextPhase(s) /\ tx'[s].at = tx[s].at + 1
           /\ ApplyDrawn(s) => /\ tx'[s].pc = "pick" /\ tx'[s].at = tx[s].at
                               /\ tx'[s].taken = tx[s].taken + Pieces(tx[s].part)
           /\ Ensured(s) \/ Apply(s) => tx'[s].taken = tx[s].taken
           /\ GiveUp(s) \/ EndDraw(s) => tx'[s].taken = 0
  <1>1. tx \in [Session -> Progress]
    BY DEF IndInv, TypeOK
  <1>2. CASE Ensured(s)
    <2>1. /\ tx' = [tx EXCEPT ![s].pc = NextPhase(s), ![s].at = tx[s].at + 1]
          /\ tx[s].part = NoLeg
      BY <1>2, EnsuredPlain DEF Ensured, IndInv
    <2>2. ~ApplyDrawn(s) /\ ~GiveUp(s) /\ ~EndDraw(s)
      BY <1>2, <2>1 DEF Ensured, ApplyDrawn, GiveUp, EndDraw
    <2> QED
      BY <1>1, <2>1, <2>2 DEF Progress
  <1>3. CASE Apply(s)
    <2>1. ~ApplyDrawn(s) /\ ~GiveUp(s) /\ ~EndDraw(s)
      BY <1>3 DEF Apply, ApplyDrawn, GiveUp, EndDraw
    <2> QED
      BY <1>1, <1>3, <2>1 DEF Apply, Progress
  <1>4. CASE ApplyDrawn(s)
    <2>1. ~Ensured(s) /\ ~Apply(s) /\ ~GiveUp(s) /\ ~EndDraw(s)
      BY <1>4, EnsuredPlain DEF IndInv, Apply, ApplyDrawn, GiveUp, EndDraw
    <2> QED
      BY <1>1, <1>4, <2>1 DEF ApplyDrawn, Progress, EndsTask
  <1>5. CASE GiveUp(s)
    <2>1. ~Ensured(s) /\ ~Apply(s) /\ ~ApplyDrawn(s)
      BY <1>5 DEF Ensured, Apply, ApplyDrawn, GiveUp
    <2> QED
      BY <1>1, <1>5, <2>1 DEF GiveUp, Progress
  <1>6. CASE EndDraw(s)
    <2>1. ~Ensured(s) /\ ~Apply(s) /\ ~ApplyDrawn(s)
      BY <1>6 DEF Ensured, Apply, ApplyDrawn, EndDraw
    <2> QED
      BY <1>1, <1>6, <2>1 DEF EndDraw, Progress
  <1> QED
    BY <1>2, <1>3, <1>4, <1>5, <1>6 DEF Posting

-----------------------------------------------------------------------------
(* The trail of the physical stock.                                         *)

LEMMA AppendChains ==
    ASSUME NEW p \in Seq(Flow), NEW f \in Flow,
           NEW start \in Int, NEW mid \in Int, NEW end \in Int,
           Chains(p, start, mid),
           f.bucket = "avail" => f.before = mid /\ f.after = end,
           f.bucket # "avail" => end = mid
    PROVE  Chains(Append(p, f), start, end)
  <1> DEFINE q == Append(p, f)
             n == Len(p)
  <1>1. /\ n \in Nat /\ Len(q) = n + 1 /\ q[n + 1] = f
        /\ \A i \in 1..n : q[i] = p[i]
    OBVIOUS
  <1>2. \A lo \in 1..(n + 1), hi \in 0..n : Quiet(q, lo, hi) <=> Quiet(p, lo, hi)
    BY <1>1 DEF Quiet, Shows
  <1>3. \A lo \in 1..(n + 1) :
           Quiet(q, lo, n + 1) <=> Quiet(p, lo, n) /\ f.bucket # "avail"
    BY <1>1 DEF Quiet, Shows
  <1>4. Quiet(q, 1, n + 1) => end = start
    BY <1>1, <1>3 DEF Chains
  <1>5. ASSUME NEW i \in 1..n, Shows(q, i)
        PROVE  /\ Quiet(q, 1, i - 1) => q[i].before = start
               /\ Quiet(q, i + 1, n + 1) => q[i].after = end
               /\ \A j \in 1..(i - 1) :
                    Shows(q, j) /\ Quiet(q, j + 1, i - 1)
                      => q[j].after = q[i].before
    <2>1. Shows(p, i)
      BY <1>1, <1>5 DEF Shows
    <2>2. Quiet(q, 1, i - 1) => q[i].before = start
      BY <1>1, <1>2, <2>1 DEF Chains
    <2>3. Quiet(q, i + 1, n + 1) => q[i].after = end
      BY <1>1, <1>3, <2>1 DEF Chains
    <2>4. \A j \in 1..(i - 1) :
            Shows(q, j) /\ Quiet(q, j + 1, i - 1) => q[j].after = q[i].before
      <3> SUFFICES ASSUME NEW j \in 1..(i - 1), Shows(q, j), Quiet(q, j + 1, i - 1)
                   PROVE  q[j].after = q[i].before
        OBVIOUS
      <3>1. j \in 1..n /\ Shows(p, j) /\ Quiet(p, j + 1, i - 1)
        BY <1>1, <1>2 DEF Shows
      <3> QED
        BY <1>1, <2>1, <3>1 DEF Chains
    <2> QED
      BY <2>2, <2>3, <2>4
  <1>6. ASSUME Shows(q, n + 1)
        PROVE  /\ Quiet(q, 1, n) => q[n + 1].before = start
               /\ Quiet(q, n + 2, n + 1) => q[n + 1].after = end
               /\ \A j \in 1..n :
                    Shows(q, j) /\ Quiet(q, j + 1, n)
                      => q[j].after = q[n + 1].before
    <2>1. f.before = mid /\ f.after = end
      BY <1>1, <1>6 DEF Shows
    <2>2. Quiet(q, 1, n) => mid = start
      BY <1>1, <1>2 DEF Chains
    <2>3. \A j \in 1..n : Shows(q, j) /\ Quiet(q, j + 1, n) => q[j].after = mid
      <3> SUFFICES ASSUME NEW j \in 1..n, Shows(q, j), Quiet(q, j + 1, n)
                   PROVE  q[j].after = mid
        OBVIOUS
      <3>1. Shows(p, j) /\ Quiet(p, j + 1, n)
        BY <1>1, <1>2 DEF Shows
      <3> QED
        BY <1>1, <3>1 DEF Chains
    <2> QED
      BY <1>1, <2>1, <2>2, <2>3
  <1>7. ASSUME NEW i \in 1..(n + 1), Shows(q, i)
        PROVE  /\ Quiet(q, 1, i - 1) => q[i].before = start
               /\ Quiet(q, i + 1, n + 1) => q[i].after = end
               /\ \A j \in 1..(i - 1) :
                    Shows(q, j) /\ Quiet(q, j + 1, i - 1)
                      => q[j].after = q[i].before
    <2>1. CASE i \in 1..n
      BY <1>5, <1>7, <2>1
    <2>2. CASE i = n + 1
      <3>1. i - 1 = n /\ i + 1 = n + 2
        BY <1>1, <2>2
      <3> QED
        BY <1>6, <1>7, <2>2, <3>1
    <2> QED
      BY <1>1, <2>1, <2>2
  <1> QED
    BY <1>1, <1>4, <1>7 DEF Chains

LEMMA ListsItems ==
    ASSUME NEW S, NEW q \in Seq(S)
    PROVE  q = [i \in 1..Len(q) |-> q[i]]
  OBVIOUS

\* Reading the rows of _draw as the audit does keeps them flow rows, one by one.
LEMMA AmendedAppend ==
    ASSUME NEW p \in Seq(Flow), NEW f \in Flow
    PROVE  /\ Amended(p) \in Seq(Flow) /\ Amend(f) \in Flow
           /\ Amended(Append(p, f)) = Append(Amended(p), Amend(f))
  <1>1. \A g \in Flow : Amend(g) \in Flow
    BY DEF Flow, Amend
  <1> HIDE DEF Amend
  <1>2. /\ Len(p) \in Nat /\ \A i \in 1..Len(p) : p[i] \in Flow
        /\ Len(Append(p, f)) = Len(p) + 1
        /\ \A i \in 1..(Len(p) + 1) :
              Append(p, f)[i] = IF i = Len(p) + 1 THEN f ELSE p[i]
    OBVIOUS
  <1>3. Amended(p) \in Seq(Flow)
    BY <1>1, <1>2 DEF Amended
  <1>4. /\ Len(Amended(p)) = Len(p)
        /\ Append(Amended(p), Amend(f)) \in Seq(Flow)
        /\ Len(Append(Amended(p), Amend(f))) = Len(p) + 1
        /\ \A i \in 1..(Len(p) + 1) :
              Append(Amended(p), Amend(f))[i]
                = IF i = Len(p) + 1 THEN Amend(f) ELSE Amend(p[i])
    BY <1>1, <1>2, <1>3 DEF Amended
  <1>5. Append(Amended(p), Amend(f))
          = [i \in 1..(Len(p) + 1) |-> Append(Amended(p), Amend(f))[i]]
    BY <1>4, ListsItems
  <1>6. Amended(Append(p, f)) = [i \in 1..(Len(p) + 1) |-> Amend(Append(p, f)[i])]
    BY <1>2 DEF Amended
  <1> QED
    BY <1>1, <1>2, <1>3, <1>4, <1>5, <1>6

LEMMA EmptyChains ==
    ASSUME NEW amount PROVE Chains(Amended(<<>>), amount, amount)
  BY DEF Chains, Quiet, Amended

\* A session's legs are one of the programs, so its flow rows show the bucket.
PlansInv == \A s \in Session : tx[s].legs \in Programs \cup {<<>>}

TrailInv == IndInv /\ PlansInv /\ TrailAdds

LEMMA NextPlansInv == IndInv /\ PlansInv /\ [Next]_vars => PlansInv'
  <1> SUFFICES ASSUME IndInv, PlansInv, [Next]_vars PROVE PlansInv'
    OBVIOUS
  <1> USE DEF IndInv
  <1>1. ASSUME NEW s \in Session, Release(s) PROVE PlansInv'
    BY <1>1, ReleaseFacts DEF PlansInv, Idle
  <1>2. ASSUME NEW s \in Session, Begin(s) PROVE PlansInv'
    BY <1>2 DEF Begin, Start, PlansInv, TypeOK
  <1>3. ASSUME NEW s \in Session, Statement(s) \/ Posting(s) PROVE PlansInv'
    BY <1>3, StatementKeeps, PostingKeeps DEF PlansInv
  <1>4. CASE UNCHANGED vars
    BY <1>4 DEF vars, PlansInv
  <1> QED
    BY <1>1, <1>2, <1>3, <1>4
    DEF Next, Step, Statement, Posting, Victim, Abort, Commit, Insufficient, Exhausted, Rollback

\* A flow row that, as the audit reads it, leads from the row before to the row after.
LEMMA PostedChains ==
    ASSUME TrailInv, NEW b \in Bin, NEW f \in Flow, NEW new \in Balance, new # NoRow,
           cur[b] \in Balance, cur[b] # NoRow,
           f.bucket = "avail" => f.before - f.drawn = cur[b].avail /\ f.after = new.avail,
           f.bucket # "avail" => new.avail = cur[b].avail,
           inv' = inv, cur' = [cur EXCEPT ![b] = new],
           pend' = [pend EXCEPT ![b] = Append(pend[b], f)]
    PROVE  TrailAdds'
  <1> USE DEF TrailInv, IndInv
  <1>1. Avail(new) = new.avail /\ Avail(cur[b]) = cur[b].avail
    BY DEF Avail
  <1>2. Avail(inv[b]) \in Int /\ Avail(cur[b]) \in Int /\ Avail(new) \in Int
    BY <1>1 DEF Avail, TypeOK, Balance
  <1>3. pend[b] \in Seq(Flow) /\ Chains(Amended(pend[b]), Avail(inv[b]), Avail(cur[b]))
    BY DEF TypeOK, TrailAdds
  <1>4. /\ Amended(pend[b]) \in Seq(Flow) /\ Amend(f) \in Flow
        /\ Amended(Append(pend[b], f)) = Append(Amended(pend[b]), Amend(f))
    BY <1>3, AmendedAppend
  <1>5. /\ Amend(f).bucket = f.bucket /\ Amend(f).after = f.after
        /\ Amend(f).before = f.before - f.drawn
    BY DEF Amend, Flow
  <1>6. Chains(Append(Amended(pend[b]), Amend(f)), Avail(inv[b]), Avail(new))
    BY <1>1, <1>2, <1>3, <1>4, <1>5, AppendChains
  <1>7. \A c \in Bin : /\ cur'[c] = IF c = b THEN new ELSE cur[c]
                       /\ pend'[c] = IF c = b THEN Append(pend[b], f) ELSE pend[c]
    BY DEF TypeOK
  <1>8. ASSUME NEW c \in Bin
        PROVE  Chains(Amended(pend'[c]), Avail(inv'[c]), Avail(cur'[c]))
    BY <1>4, <1>6, <1>7 DEF TrailAdds
  <1> QED
    BY <1>8 DEF TrailAdds, Avail, Amended, Amend

LEMMA ApplyChains ==
    ASSUME TrailInv, NEW s \in Session, Apply(s)
    PROVE  TrailAdds'
  <1> USE DEF TrailInv, IndInv
  <1> DEFINE leg == CurrentLeg(s)
             b == leg.bin
             seen == tx[s].view[b]
             new == Moved(cur[b], leg)
             f == FlowRow(seen, new, leg)
  <1>1. /\ Plain(s) /\ Unlocked(s, b) /\ Matches(cur[b], seen, leg) /\ inv' = inv
        /\ tx[s].pc = "apply" /\ tx[s].part = NoLeg
    BY DEF Apply, Plain
  <1>2. /\ leg \in Leg /\ b \in Bin /\ leg = Task(s) /\ tx[s].pc \in InTask
        /\ tx[s] \in Progress /\ seen # NoRow
    BY <1>1, CurrentLegType, TaskType DEF LegsInv, InOrder, LegOf
  <1>3. seen \in Balance /\ seen = cur[b]
    BY <1>1, <1>2, UnlockedSeesNewest
    DEF VersionIdentifiesRow, Matches, Progress
  <1>4. new \in Balance /\ new # NoRow /\ f \in Flow
    BY <1>2, <1>3, MovedType, FlowRowType
  <1>5. leg.avail # 0 => leg.shown = "avail"
    <2>1. tx[s].at \in 1..Len(tx[s].legs) /\ tx[s].legs \in Seq(Leg \cup Draw)
      BY <1>2, TaskType DEF Progress
    <2>2. tx[s].legs \in Programs
      BY <2>1 DEF PlansInv
    <2> QED
      BY <1>2, <2>1, <2>2, ShownAssumption DEF Task
  <1>6. /\ f.bucket = "avail" => f.before - f.drawn = cur[b].avail /\ f.after = new.avail
        /\ f.bucket # "avail" => new.avail = cur[b].avail
    BY <1>2, <1>3, <1>5 DEF FlowRow, Moved, Balance, Leg
  <1>7. cur' = [cur EXCEPT ![b] = new] /\ pend' = [pend EXCEPT ![b] = Append(pend[b], f)]
    BY <1>2 DEF Apply, TypeOK
  <1> HIDE DEF f, new, seen, b, leg
  <1> QED
    BY <1>1, <1>2, <1>3, <1>4, <1>6, <1>7, PostedChains

LEMMA ApplyDrawnChains ==
    ASSUME TrailInv, NEW s \in Session, ApplyDrawn(s)
    PROVE  TrailAdds'
  <1> USE DEF TrailInv, IndInv
  <1> DEFINE leg == tx[s].part
             b == leg.bin
             new == Moved(cur[b], leg)
             f == DrawnRow(new, leg)
  <1>1. /\ tx[s].part # NoLeg /\ Unlocked(s, b) /\ Matches(cur[b], tx[s].view[b], leg)
        /\ inv' = inv
    BY DEF ApplyDrawn
  <1>2. /\ leg \in Leg /\ b \in Bin /\ tx[s].view[b] # NoRow
        /\ leg.avail # 0 => leg.shown = "avail"
    BY <1>1, PartType
  <1>3. cur[b] \in Balance /\ cur[b] # NoRow
    BY <1>1, <1>2, UnlockedSeesNewest DEF VersionIdentifiesRow, TypeOK
  <1>4. new \in Balance /\ new # NoRow /\ f \in Flow
    BY <1>2, <1>3, MovedType, FlowRowType
  <1>5. /\ f.bucket = "avail" => f.before - f.drawn = cur[b].avail /\ f.after = new.avail
        /\ f.bucket # "avail" => new.avail = cur[b].avail
    BY <1>2, <1>3 DEF DrawnRow, Moved, Balance, Leg
  <1>6. cur' = [cur EXCEPT ![b] = new] /\ pend' = [pend EXCEPT ![b] = Append(pend[b], f)]
    BY <1>2 DEF ApplyDrawn, TypeOK
  <1> HIDE DEF f, new, b, leg
  <1> QED
    BY <1>1, <1>2, <1>3, <1>4, <1>5, <1>6, PostedChains

LEMMA NextTrailAdds == TrailInv /\ [Next]_vars => TrailAdds'
  <1> SUFFICES ASSUME TrailInv, [Next]_vars PROVE TrailAdds'
    OBVIOUS
  <1> USE DEF TrailInv, IndInv
  <1>1. ASSUME UNCHANGED <<inv, cur, pend>> PROVE TrailAdds'
    BY <1>1 DEF TrailAdds, Avail
  <1>2. ASSUME NEW s \in Session, Insert(s) PROVE TrailAdds'
    <2> DEFINE b == CurrentLeg(s).bin
    <2>1. b \in Bin
      BY <1>2, InsertPlain, CurrentLegType
    <2>2. inv[b] = NoRow /\ pend[b] = <<>>
      BY <1>2, <2>1 DEF LockInv, Unlocked, Insert
    <2>3. /\ inv' = inv /\ pend' = pend
          /\ \A c \in Bin : cur'[c] = IF c = b THEN ZeroRow ELSE cur[c]
      BY <1>2 DEF Insert, TypeOK
    <2>4. Avail(inv[b]) = 0 /\ Avail(ZeroRow) = 0
      BY <2>2 DEF Avail, ZeroRow
    <2> QED
      BY <2>2, <2>3, <2>4, EmptyChains DEF TrailAdds, Avail
  <1>3. ASSUME NEW s \in Session, Release(s),
               \A b \in Bin : IF lock[b] = s THEN cur'[b] = inv'[b]
                              ELSE cur'[b] = cur[b] /\ inv'[b] = inv[b]
        PROVE  TrailAdds'
    BY <1>3, ReleaseFacts, EmptyChains DEF TrailAdds, Avail
  <1>4. ASSUME NEW s \in Session, Rollback(s) PROVE TrailAdds'
    <2>1. /\ Release(s)
          /\ \A b \in Bin : IF lock[b] = s THEN cur'[b] = inv'[b]
                           ELSE cur'[b] = cur[b] /\ inv'[b] = inv[b]
      BY <1>4 DEF Rollback, Held
    <2> QED
      BY <2>1, <1>3
  <1>5. ASSUME NEW s \in Session, Commit(s) PROVE TrailAdds'
    <2>1. /\ Release(s)
          /\ \A b \in Bin : IF lock[b] = s THEN cur'[b] = inv'[b]
                           ELSE cur'[b] = cur[b] /\ inv'[b] = inv[b]
      BY <1>5 DEF Commit, Visible
    <2> QED
      BY <2>1, <1>3
  <1>6. ASSUME NEW s \in Session, Statement(s), ~Insert(s)
        PROVE  UNCHANGED <<inv, cur, pend>>
    BY <1>6 DEF Statement, Load, InsertRaced, Miss, Retry, ListBins, Pick, Replan
  <1>7. ASSUME NEW s \in Session, Begin(s) \/ Ensured(s) \/ GiveUp(s) \/ EndDraw(s)
        PROVE  UNCHANGED <<inv, cur, pend>>
    BY <1>7 DEF Begin, Start, Ensured, GiveUp, EndDraw
  <1>8. CASE UNCHANGED vars
    BY <1>1, <1>8 DEF vars
  <1> QED
    BY <1>1, <1>2, <1>4, <1>5, <1>6, <1>7, <1>8, ApplyChains, ApplyDrawnChains
    DEF Next, Step, Statement, Victim, Abort, Insufficient, Exhausted

(***************************************************************************)
(* The flow rows of the physical stock form an unbroken trail, whatever    *)
(* copies were stale when before_qty was read (_commit_change), once the   *)
(* rows of _draw are read as starting that much lower.                     *)
(***************************************************************************)
THEOREM TrailAudits == Spec => []TrailAdds
  <1>1. Init => TrailInv
    <2>1. ASSUME Init PROVE PlansInv /\ TrailAdds
      BY <2>1, EmptyChains DEF Init, PlansInv, Idle, TrailAdds
    <2> QED
      BY <2>1, InitIndInv DEF TrailInv
  <1>2. TrailInv /\ [Next]_vars => TrailInv'
    BY NextIndInv, NextPlansInv, NextTrailAdds DEF TrailInv
  <1>3. TrailInv => TrailAdds
    BY DEF TrailInv
  <1> QED
    BY <1>1, <1>2, <1>3, PTL DEF Spec

-----------------------------------------------------------------------------
(* Committed versions.                                                      *)

(***************************************************************************)
(* A committed row is never removed, and every committed change of it      *)
(* raises its version (apply_change), so no ABA can fool a stale copy.     *)
(***************************************************************************)
THEOREM VersionsGrow == Spec => NoABA
  <1> DEFINE Grows == \A b \in Bin :
              inv'[b] # inv[b] =>
                 /\ inv'[b] # NoRow
                 /\ inv[b] # NoRow => inv'[b].version > inv[b].version
  <1>1. ASSUME IndInv, [Next]_vars PROVE [Grows]_vars
    <2> USE DEF IndInv
    <2>1. ASSUME NEW s \in Session, Commit(s) PROVE Grows
      <3> SUFFICES ASSUME NEW b \in Bin, inv'[b] # inv[b]
                   PROVE  /\ inv'[b] # NoRow
                          /\ inv[b] # NoRow => inv'[b].version > inv[b].version
        OBVIOUS
      <3>1. lock[b] = s /\ inv'[b] = cur[b]
        BY <2>1 DEF Commit, Visible
      <3>2. cur[b] # NoRow /\ (inv[b] # NoRow => Len(pend[b]) > 0)
        BY <1>1, <3>1, AbsentAssumption DEF LockInv
      <3>3. inv[b] # NoRow => /\ cur[b].version = inv[b].version + Len(pend[b])
                              /\ inv[b].version \in Int
                              /\ Len(pend[b]) \in Nat
        BY <1>1, <3>2 DEF EveryChangeTraced, VersionOf, TypeOK, Balance
      <3> QED
        BY <3>1, <3>2, <3>3
    <2>2. ASSUME inv' = inv PROVE Grows
      BY <2>2
    <2>3. ASSUME NEW s \in Session,
                 \/ Begin(s) \/ Statement(s) \/ Posting(s) \/ Insufficient(s) \/ Exhausted(s)
                 \/ Victim(s) \/ Abort(s)
          PROVE  inv' = inv
      BY <1>1, <2>3, StatementKeeps DEF Begin, Start, Posting, Ensured, Apply, ApplyDrawn, GiveUp,
         EndDraw, Insufficient, Exhausted, Victim, Abort, Rollback
    <2> QED
      BY <1>1, <2>1, <2>2, <2>3 DEF Next, Step, Statement, Posting
  <1> QED
    BY <1>1, SpecIndInv, PTL DEF Spec, NoABA

-----------------------------------------------------------------------------
(***************************************************************************)
(* The stock ledger implements the stock book: each step of the ledger is  *)
(* a step of the book, or leaves it alone, under the refinement mapping    *)
(* that module StockLedger gives with its instance Book.                   *)
(***************************************************************************)

\* An idle session has no plan; a session that is done has posted every leg.
PhaseInv ==
    \A s \in Session :
        /\ tx[s].pc = "idle" => tx[s] = Idle
        /\ tx[s].pc = "done" => tx[s].at = Len(tx[s].legs) + 1

LEMMA NextPhaseInv == IndInv /\ PhaseInv /\ [Next]_vars => PhaseInv'
  <1> SUFFICES ASSUME IndInv, PhaseInv, [Next]_vars PROVE PhaseInv'
    OBVIOUS
  <1> USE DEF IndInv
  <1>1. ASSUME NEW s \in Session, Release(s) PROVE PhaseInv'
    <2>1. \A u \in Session : tx'[u] = IF u = s THEN Idle ELSE tx[u]
      BY <1>1, ReleaseFacts
    <2>2. Idle.pc # "done"
      BY DEF Idle
    <2> SUFFICES ASSUME NEW u \in Session
                 PROVE  /\ tx'[u].pc = "idle" => tx'[u] = Idle
                        /\ tx'[u].pc = "done" => tx'[u].at = Len(tx'[u].legs) + 1
      BY DEF PhaseInv, Idle, NoView
    <2> QED
      BY <2>1, <2>2 DEF PhaseInv
  <1>2. ASSUME NEW s \in Session, NEW t \in Progress, tx' = [tx EXCEPT ![s] = t],
               t.pc # "idle", t.pc = "done" => t.at = Len(t.legs) + 1
        PROVE  PhaseInv'
    BY <1>2 DEF PhaseInv, TypeOK
  <1>3. ASSUME NEW s \in Session, Begin(s) PROVE PhaseInv'
    <2>1. PICK legs \in Programs : Start(s, legs, NoView)
      BY <1>3 DEF Begin
    <2> DEFINE t == [pc |-> IF legs = <<>> THEN "done" ELSE "load",
                     legs |-> legs, at |-> 1, tries |-> 0, view |-> NoView,
                     taken |-> 0, part |-> NoLeg]
    <2>2. t \in Progress
      BY ProgramsAssumption DEF NoView, Progress
    <2>3. t.pc # "idle" /\ (t.pc = "done" => t.at = Len(t.legs) + 1)
      OBVIOUS
    <2>4. tx' = [tx EXCEPT ![s] = t]
      BY <2>1 DEF Start
    <2> HIDE DEF t
    <2> QED
      BY <1>2, <2>2, <2>3, <2>4
  <1>4. ASSUME NEW s \in Session, Statement(s) PROVE PhaseInv'
    BY <1>4, StatementKeeps DEF PhaseInv
  <1>5. ASSUME NEW s \in Session, Posting(s) PROVE PhaseInv'
    <2>1. tx'[s].pc # "idle" /\ (tx'[s].pc = "done" => tx'[s].at = Len(tx'[s].legs) + 1)
      <3>1. CASE EndsTask(s)
        <4>1. tx[s] \in Progress
          BY DEF TypeOK
        <4> QED
          BY <1>5, <3>1, <4>1, PostingKeeps DEF NextPhase, Progress
      <3>2. CASE ApplyDrawn(s)
        BY <1>5, <3>2, PostingKeeps
      <3> QED
        BY <1>5, <3>1, <3>2 DEF Posting, EndsTask
    <2> QED
      BY <1>5, <2>1, PostingKeeps DEF PhaseInv
  <1>6. CASE UNCHANGED vars
    BY <1>6 DEF vars, PhaseInv
  <1> QED
    BY <1>1, <1>3, <1>4, <1>5, <1>6
    DEF Next, Step, Statement, Posting, Victim, Abort, Commit, Insufficient, Exhausted, Rollback

-----------------------------------------------------------------------------
(* Amounts and their differences.                                           *)

IntAmount == [avail: Int, occ: Int, transit: Int, defect: Int]

LEMMA AmountsType ==
    ASSUME NEW row \in Balance \cup {NoRow}
    PROVE  Amounts(row) \in IntAmount
  BY DEF Amounts, Balance, IntAmount

LEMMA MinusSelf ==
    ASSUME NEW x \in IntAmount
    PROVE  Minus(x, x) = Book!Zero
  BY DEF IntAmount, Minus, Book!Zero

LEMMA SumMinus ==
    ASSUME NEW x \in IntAmount, NEW y \in IntAmount
    PROVE  Book!Sum2(x, Minus(y, x)) = y
  BY DEF IntAmount, Minus, Book!Sum2

\* A leg adds its own amounts to the difference from the committed row.
LEMMA MovedAmounts ==
    ASSUME NEW row \in Balance, NEW leg \in Leg, NEW base \in IntAmount
    PROVE  Minus(Amounts(Moved(row, leg)), base)
             = Book!Sum2(Minus(Amounts(row), base), leg)
  <1>1. row # NoRow /\ Moved(row, leg) # NoRow
    BY AbsentAssumption, MovedType
  <1> QED
    BY <1>1 DEF Amounts, Minus, Moved, Book!Sum2, Balance, Leg, IntAmount

LEMMA LegalAmounts ==
    ASSUME NEW row \in Balance \cup {NoRow}, row # NoRow => Legal(row)
    PROVE  Book!InBounds(Amounts(row))
  BY DEF Book!InBounds, Amounts, Legal, Balance

-----------------------------------------------------------------------------
(* The mapped variables.                                                    *)

BookBar == [b \in Bin |-> Amounts(inv[b])]
CartBar == [s \in Session |-> [b \in Bin |->
              Minus(Amounts(Visible(s, b)), Amounts(inv[b]))]]
PlanBar == [s \in Session |-> tx[s].legs]
PosBar == [s \in Session |-> tx[s].at]
GivenBar == [s \in Session |-> tx[s].taken]

\* The book's draws are the ledger's, and a part of one is what a portion adds.
LEMMA PartAmounts ==
    ASSUME NEW draw \in Draw, NEW b \in draw.bins, NEW q \in Int
    PROVE  /\ draw \in Book!Draw
           /\ \A x : Book!Sum2(x, Portion(draw, b, q)) = Book!Sum2(x, Book!Part(draw, q))
  BY DEF Draw, Book!Draw, Book!Sum2, Book!Part, Portion

LEMMA InitRefines == Init => Book!BookInit
  <1> SUFFICES ASSUME Init PROVE Book!BookInit
    OBVIOUS
  <1>1. \A s \in Session, b \in Bin : Visible(s, b) = inv[b]
    BY DEF Init, Visible
  <1>2. \A b \in Bin : Minus(Amounts(inv[b]), Amounts(inv[b])) = Book!Zero
    BY OpeningAssumption, AmountsType, MinusSelf DEF Init
  <1>3. CartBar = [s \in Session |-> Book!EmptyCart]
    BY <1>1, <1>2 DEF CartBar, Book!EmptyCart
  <1> QED
    BY <1>3 DEF Init, Idle, CartBar, Book!BookInit

\* Steps that leave plans, positions and the amounts seen alone.
LEMMA StutterRefines ==
    ASSUME inv' = inv,
           \A s \in Session : /\ tx'[s].legs = tx[s].legs /\ tx'[s].at = tx[s].at
                              /\ tx'[s].taken = tx[s].taken,
           \A s \in Session, b \in Bin :
              Amounts(Visible(s, b)') = Amounts(Visible(s, b))
    PROVE  UNCHANGED <<BookBar, CartBar, PlanBar, PosBar, GivenBar>>
  BY DEF BookBar, CartBar, PlanBar, PosBar, GivenBar, Amounts

LEMMA BeginRefines ==
    ASSUME IndInv, PhaseInv, NEW s \in Session, Begin(s)
    PROVE  Book!BookNext
  <1> USE DEF IndInv
  <1>1. PICK legs \in Programs : Start(s, legs, NoView)
    BY DEF Begin
  <1>2. tx[s] = Idle /\ UNCHANGED <<inv, cur, lock>>
    BY <1>1 DEF Start, PhaseInv
  <1>3. /\ \A u \in Session : u # s => tx'[u] = tx[u]
        /\ tx'[s].legs = legs /\ tx'[s].at = 1 /\ tx'[s].taken = 0
    BY <1>1 DEF Start, TypeOK
  <1>4. BookBar' = BookBar /\ CartBar' = CartBar
    BY <1>2 DEF BookBar, CartBar, Amounts, Visible
  <1>5. PosBar' = PosBar /\ GivenBar' = GivenBar /\ PlanBar[s] = <<>>
    BY <1>2, <1>3 DEF PosBar, GivenBar, PlanBar, Idle
  <1>6. PlanBar' = [PlanBar EXCEPT ![s] = legs]
    BY <1>3 DEF PlanBar
  <1>7. Book!Order(s, legs)
    BY <1>4, <1>5, <1>6 DEF Book!Order, BookBar, CartBar, PlanBar, PosBar, GivenBar
  <1> QED
    BY <1>7 DEF Book!BookNext

\* The statements that post nothing: a missing row counts as 0.
LEMMA StatementRefines ==
    ASSUME IndInv, NEW s \in Session, Statement(s)
    PROVE  UNCHANGED <<BookBar, CartBar, PlanBar, PosBar, GivenBar>>
  <1> USE DEF IndInv
  <1>1. inv' = inv
    BY StatementKeeps
  <1>2. \A u \in Session : /\ tx'[u].legs = tx[u].legs /\ tx'[u].at = tx[u].at
                           /\ tx'[u].taken = tx[u].taken
    BY StatementKeeps
  <1>3. ASSUME Insert(s), NEW u \in Session, NEW b \in Bin
        PROVE  Amounts(Visible(u, b)') = Amounts(Visible(u, b))
    <2>0. CurrentLeg(s).bin \in Bin
      BY <1>3, InsertPlain, CurrentLegType
    <2>1. PICK c \in Bin :
             /\ Unlocked(s, c) /\ cur[c] = NoRow /\ inv' = inv
             /\ cur' = [cur EXCEPT ![c] = ZeroRow] /\ lock' = [lock EXCEPT ![c] = s]
      BY <1>3, <2>0 DEF Insert
    <2>2. inv[c] = NoRow
      BY <2>1, AbsentAssumption DEF LockInv
    <2>3. Amounts(ZeroRow) = Amounts(NoRow)
      BY ZeroRowType DEF Amounts, ZeroRow
    <2>4. b # c => Visible(u, b)' = Visible(u, b)
      BY <2>1 DEF Visible, TypeOK
    <2>5. Visible(u, c) = NoRow
      BY <2>1, <2>2 DEF Visible
    <2>6. Visible(u, c)' = IF lock'[c] = u THEN ZeroRow ELSE NoRow
      BY <2>1, <2>2 DEF Visible, TypeOK
    <2>7. CASE b = c
      BY <2>3, <2>5, <2>6, <2>7
    <2>8. CASE b # c
      BY <2>4, <2>8
    <2> QED
      BY <2>7, <2>8
  <1>4. ASSUME ~Insert(s) PROVE UNCHANGED <<inv, cur, lock>>
    BY <1>4 DEF Statement, Load, InsertRaced, Miss, Retry, ListBins, Pick, Replan
  <1>5. \A u \in Session, b \in Bin :
           Amounts(Visible(u, b)') = Amounts(Visible(u, b))
    BY <1>3, <1>4 DEF Visible
  <1> QED
    BY <1>1, <1>2, <1>5, StutterRefines

LEMMA TwoLevel ==
    ASSUME NEW S, NEW B, NEW F, NEW G, NEW s \in S, NEW c \in B, NEW v,
           F = [u \in S |-> [b \in B |-> F[u][b]]],
           G = [u \in S |-> [b \in B |-> G[u][b]]],
           \A u \in S, b \in B : G[u][b] = IF u = s /\ b = c THEN v ELSE F[u][b]
    PROVE  G = [F EXCEPT ![s][c] = v]
  <1>1. \A u \in S : /\ F[u] = [b \in B |-> F[u][b]]
                    /\ G[u] = [b \in B |-> G[u][b]]
    BY Zenon
  <1>2. ASSUME NEW u \in S, u # s PROVE G[u] = F[u]
    <2>1. \A b \in B : G[u][b] = F[u][b]
      BY <1>2
    <2> QED
      BY <1>1, <2>1
  <1>3. G[s] = [F[s] EXCEPT ![c] = v]
    <2>1. \A b \in B : G[s][b] = [F[s] EXCEPT ![c] = v][b]
      BY <1>1
    <2> QED
      BY <1>1, <2>1
  <1>4. F = [u \in S |-> F[u]] /\ G = [u \in S |-> G[u]]
    BY <1>1
  <1> QED
    BY <1>2, <1>3, <1>4

\* A plain leg is the next task of the plan, and no draw.
LEMMA PlainTask ==
    ASSUME TypeOK, LegsInv, NEW s \in Session, Plain(s)
    PROVE  /\ PosBar[s] <= Len(PlanBar[s]) /\ CurrentLeg(s) = PlanBar[s][PosBar[s]]
           /\ CurrentLeg(s) \notin Book!Draw
  <1>1. tx[s].pc \in InTask /\ CurrentLeg(s) = Task(s)
    BY CurrentLegType
  <1>2. Task(s) \notin Draw
    BY DEF Plain, LegsInv, InOrder, Task, TaskOf
  <1> QED
    BY <1>1, <1>2, TaskType DEF PosBar, PlanBar, Task, Draw, Book!Draw

LEMMA LegRefines ==
    ASSUME IndInv, NEW s \in Session, Ensured(s) \/ Apply(s)
    PROVE  PlanBar' = PlanBar /\ PosBar' = [PosBar EXCEPT ![s] = @ + 1] /\ GivenBar' = GivenBar
  <1>1. /\ \A u \in Session : tx'[u].legs = tx[u].legs
        /\ \A u \in Session : u # s => tx'[u] = tx[u]
        /\ tx'[s].at = tx[s].at + 1 /\ tx'[s].taken = tx[s].taken
    BY PostingKeeps DEF Posting, EndsTask
  <1> QED
    BY <1>1 DEF PlanBar, PosBar, GivenBar

\* A call of _ensure alone drafts a leg of zeros.
LEMMA EnsuredRefines ==
    ASSUME IndInv, NEW s \in Session, Ensured(s)
    PROVE  Book!BookNext
  <1> USE DEF IndInv
  <1>1. Plain(s) /\ UNCHANGED <<inv, cur, lock>>
    BY EnsuredPlain DEF Ensured, Plain
  <1>2. PICK leg \in Leg : leg = CurrentLeg(s) /\ leg.bin \in Bin
    BY <1>1, CurrentLegType
  <1>3. OnlyEnsures(leg)
    BY <1>2 DEF Ensured
  <1>4. PlanBar' = PlanBar /\ PosBar' = [PosBar EXCEPT ![s] = @ + 1] /\ GivenBar' = GivenBar
    BY LegRefines DEF PlanBar
  <1>5. BookBar' = BookBar /\ CartBar' = CartBar
    BY <1>1 DEF BookBar, CartBar, Amounts, Visible
  <1>6. CartBar[s][leg.bin] = Book!Sum2(CartBar[s][leg.bin], leg)
    <2>1. /\ Amounts(inv[leg.bin]) \in IntAmount
          /\ Amounts(Visible(s, leg.bin)) \in IntAmount
      BY <1>2, AmountsType, VisibleIsSound DEF TypeOK
    <2>2. CartBar[s][leg.bin] \in IntAmount
      BY <1>2, <2>1 DEF CartBar, Minus, IntAmount
    <2> QED
      BY <1>3, <2>2 DEF OnlyEnsures, Book!Sum2, IntAmount
  <1>7. CartBar' = [CartBar EXCEPT ![s][leg.bin] = Book!Sum2(@, leg)]
    <2>1. CartBar = [u \in Session |-> [b \in Bin |-> CartBar[u][b]]]
      BY DEF CartBar
    <2>2. CartBar = [CartBar EXCEPT ![s][leg.bin] = CartBar[s][leg.bin]]
      <3>1. DOMAIN CartBar = Session /\ DOMAIN CartBar[s] = Bin
        BY <2>1
      <3>2. CartBar[s] = [CartBar[s] EXCEPT ![leg.bin] = CartBar[s][leg.bin]]
        BY <2>1, <3>1
      <3> QED
        BY <2>1, <3>1, <3>2
    <2> QED
      BY <1>5, <1>6, <2>2
  <1>8. /\ PosBar[s] <= Len(PlanBar[s]) /\ leg = PlanBar[s][PosBar[s]]
        /\ leg \notin Book!Draw
    BY <1>1, <1>2, PlainTask
  <1>9. Book!Draft(s)
    BY <1>4, <1>5, <1>7, <1>8
    DEF Book!Draft, BookBar, CartBar, PlanBar, PosBar, GivenBar
  <1> QED
    BY <1>9 DEF Book!BookNext

\* The UPDATE of a leg adds the leg to the cart of its session.
LEMMA PostedCart ==
    ASSUME IndInv, NEW s \in Session, NEW leg \in Leg, NEW c \in Bin, c = leg.bin,
           tx[s].view[c] # NoRow, Unlocked(s, c), inv' = inv,
           cur' = [cur EXCEPT ![c] = Moved(cur[c], leg)], lock' = [lock EXCEPT ![c] = s]
    PROVE  BookBar' = BookBar /\ CartBar' = [CartBar EXCEPT ![s][c] = Book!Sum2(@, leg)]
  <1> USE DEF IndInv
  <1> DEFINE new == Moved(cur[c], leg)
  <1>1. Visible(s, c) = cur[c] /\ cur[c] \in Balance
    <2>1. Visible(s, c) = cur[c] /\ Visible(s, c) # NoRow
      BY UnlockedSeesNewest DEF VersionIdentifiesRow
    <2> QED
      BY <2>1 DEF TypeOK
  <1>2. \A u \in Session, b \in Bin :
           Visible(u, b)' = IF u = s /\ b = c THEN new ELSE Visible(u, b)
    BY <1>1 DEF Visible, TypeOK, Unlocked, LockInv
  <1>3. CartBar'[s][c] = Book!Sum2(CartBar[s][c], leg)
    <2>1. Amounts(inv[c]) \in IntAmount
      BY AmountsType DEF TypeOK
    <2>2. CartBar'[s][c] = Minus(Amounts(new), Amounts(inv[c]))
      BY <1>2 DEF CartBar, Amounts
    <2>3. CartBar[s][c] = Minus(Amounts(cur[c]), Amounts(inv[c]))
      BY <1>1 DEF CartBar
    <2> QED
      BY <1>1, <2>1, <2>2, <2>3, MovedAmounts
  <1>4. \A u \in Session, b \in Bin :
            CartBar'[u][b] = IF u = s /\ b = c THEN Book!Sum2(CartBar[s][c], leg)
                                               ELSE CartBar[u][b]
    BY <1>2, <1>3 DEF CartBar, Amounts
  <1>5. /\ CartBar = [u \in Session |-> [b \in Bin |-> CartBar[u][b]]]
        /\ CartBar' = [u \in Session |-> [b \in Bin |-> CartBar'[u][b]]]
    BY DEF CartBar
  <1>6. CartBar' = [CartBar EXCEPT ![s][c] = Book!Sum2(CartBar[s][c], leg)]
    BY <1>4, <1>5, TwoLevel
  <1>7. BookBar' = BookBar
    BY DEF BookBar, Amounts
  <1> QED
    BY <1>6, <1>7

LEMMA ApplyRefines ==
    ASSUME IndInv, NEW s \in Session, Apply(s)
    PROVE  Book!BookNext
  <1> USE DEF IndInv
  <1> DEFINE leg == CurrentLeg(s)
             c == leg.bin
  <1>1. Plain(s) /\ tx[s].pc = "apply"
    BY DEF Apply, Plain
  <1>2. leg \in Leg /\ c \in Bin /\ tx[s].part = NoLeg /\ leg = Task(s)
    BY <1>1, CurrentLegType
  <1>3. tx[s].view[c] # NoRow
    BY <1>1, <1>2 DEF LegsInv, InOrder, LegOf, TaskOf, Task
  <1>4. /\ Unlocked(s, c) /\ inv' = inv
        /\ cur' = [cur EXCEPT ![c] = Moved(cur[c], leg)] /\ lock' = [lock EXCEPT ![c] = s]
    BY DEF Apply
  <1> HIDE DEF leg, c
  <1>5. BookBar' = BookBar /\ CartBar' = [CartBar EXCEPT ![s][c] = Book!Sum2(@, leg)]
    BY <1>2, <1>3, <1>4, PostedCart DEF c
  <1>6. PlanBar' = PlanBar /\ PosBar' = [PosBar EXCEPT ![s] = @ + 1] /\ GivenBar' = GivenBar
    BY LegRefines
  <1>7. /\ PosBar[s] <= Len(PlanBar[s]) /\ leg = PlanBar[s][PosBar[s]]
        /\ leg \notin Book!Draw
    BY <1>1, PlainTask DEF leg
  <1>8. Book!Draft(s)
    BY <1>5, <1>6, <1>7
    DEF Book!Draft, BookBar, CartBar, PlanBar, PosBar, GivenBar, c
  <1> QED
    BY <1>8 DEF Book!BookNext

LEMMA ApplyDrawnRefines ==
    ASSUME IndInv, NEW s \in Session, ApplyDrawn(s)
    PROVE  Book!BookNext
  <1> USE DEF IndInv
  <1> DEFINE leg == tx[s].part
             draw == Task(s)
  <1>1. leg # NoLeg /\ tx[s].pc = "apply"
    BY DEF ApplyDrawn
  <1>2. /\ leg \in Leg /\ leg.bin \in Bin /\ tx[s].view[leg.bin] # NoRow
        /\ draw \in Draw /\ tx[s].pc \in InTask
    BY <1>1, PartType
  <1>3. PICK c \in draw.bins, q \in 1..(draw.quantity - tx[s].taken) :
           leg = Portion(draw, c, q) /\ Pieces(leg) = q
    BY <1>1, PartType
  <1>4. c \in Bin /\ leg.bin = c /\ q \in Int /\ draw \in Book!Draw
        /\ \A x : Book!Sum2(x, leg) = Book!Sum2(x, Book!Part(draw, q))
    BY <1>2, <1>3, PartAmounts, PortionType
  <1>5. /\ Unlocked(s, c) /\ inv' = inv
        /\ cur' = [cur EXCEPT ![c] = Moved(cur[c], leg)] /\ lock' = [lock EXCEPT ![c] = s]
    BY <1>4 DEF ApplyDrawn
  <1>6. /\ \A u \in Session : tx'[u].legs = tx[u].legs
        /\ \A u \in Session : u # s => tx'[u] = tx[u]
        /\ tx'[s].at = tx[s].at /\ tx'[s].taken = tx[s].taken + q
    BY <1>3, PostingKeeps DEF Posting
  <1>7. /\ PosBar[s] <= Len(PlanBar[s]) /\ draw = PlanBar[s][PosBar[s]]
        /\ GivenBar[s] = tx[s].taken
    BY <1>2, TaskType DEF PosBar, PlanBar, GivenBar, Task
  <1> HIDE DEF leg, draw
  <1>8. BookBar' = BookBar /\ CartBar' = [CartBar EXCEPT ![s][c] = Book!Sum2(@, leg)]
    BY <1>2, <1>4, <1>5, PostedCart
  <1>9. CartBar' = [CartBar EXCEPT ![s][c] = Book!Sum2(@, Book!Part(draw, q))]
    BY <1>4, <1>8
  <1>10. PlanBar' = PlanBar /\ PosBar' = PosBar /\ GivenBar' = [GivenBar EXCEPT ![s] = @ + q]
    BY <1>6 DEF PlanBar, PosBar, GivenBar
  <1>11. q \in 1..(draw.quantity - GivenBar[s])
    BY <1>7
  <1> DEFINE task == PlanBar[s][PosBar[s]]
  <1>12. \E b \in task.bins, k \in 1..(task.quantity - GivenBar[s]) :
            /\ CartBar' = [CartBar EXCEPT ![s][b] = Book!Sum2(@, Book!Part(task, k))]
            /\ GivenBar' = [GivenBar EXCEPT ![s] = @ + k]
    BY <1>3, <1>7, <1>9, <1>10, <1>11
  <1>13. PlanBar[s][PosBar[s]] \in Book!Draw
    BY <1>4, <1>7
  <1>14. Book!DraftPart(s)
    BY <1>7, <1>8, <1>10, <1>12, <1>13
    DEF Book!DraftPart, BookBar, CartBar, PlanBar, PosBar, GivenBar
  <1> QED
    BY <1>14 DEF Book!BookNext

\* The end of a draw, whether all of it is taken or not.
LEMMA EndDrawRefines ==
    ASSUME IndInv, NEW s \in Session, GiveUp(s) \/ EndDraw(s)
    PROVE  Book!BookNext
  <1> USE DEF IndInv
  <1>1. Task(s) \in Draw /\ tx[s].pc \in InTask
    <2>1. CASE GiveUp(s)
      BY <2>1, PartType DEF GiveUp
    <2>2. CASE EndDraw(s)
      <3>1. tx[s].pc = "pick"
        BY <2>2 DEF EndDraw
      <3> QED
        BY <3>1 DEF LegsInv, InOrder, InTask, TaskOf, Task
    <2> QED
      BY <2>1, <2>2
  <1>2. /\ \A u \in Session : tx'[u].legs = tx[u].legs
        /\ \A u \in Session : u # s => tx'[u] = tx[u]
        /\ tx'[s].at = tx[s].at + 1 /\ tx'[s].taken = 0
    BY PostingKeeps DEF Posting, EndsTask
  <1>3. UNCHANGED <<inv, cur, lock>>
    BY DEF GiveUp, EndDraw
  <1>4. BookBar' = BookBar /\ CartBar' = CartBar
    BY <1>3 DEF BookBar, CartBar, Amounts, Visible
  <1>5. /\ PlanBar' = PlanBar /\ PosBar' = [PosBar EXCEPT ![s] = @ + 1]
        /\ GivenBar' = [GivenBar EXCEPT ![s] = 0]
    BY <1>2 DEF PlanBar, PosBar, GivenBar
  <1>6. PosBar[s] <= Len(PlanBar[s]) /\ PlanBar[s][PosBar[s]] \in Book!Draw
    BY <1>1, TaskType DEF PosBar, PlanBar, Task, Draw, Book!Draw
  <1>7. Book!EndDraft(s)
    BY <1>4, <1>5, <1>6
    DEF Book!EndDraft, BookBar, CartBar, PlanBar, PosBar, GivenBar
  <1> QED
    BY <1>7 DEF Book!BookNext

-----------------------------------------------------------------------------
(* The ends of a transaction.                                               *)

LEMMA CloseRefines ==
    ASSUME IndInv, NEW s \in Session, Release(s),
           \A b \in Bin : inv'[b] \in Balance \cup {NoRow},
           \A b \in Bin : Visible(s, b)' = inv'[b],
           \A u \in Session, b \in Bin : u # s =>
              Minus(Amounts(Visible(u, b)), Amounts(inv[b]))'
                = Minus(Amounts(Visible(u, b)), Amounts(inv[b]))
    PROVE  Book!Close(s)
  <1> USE DEF IndInv
  <1>1. \A u \in Session : tx'[u] = IF u = s THEN Idle ELSE tx[u]
    BY ReleaseFacts
  <1>2. /\ PlanBar' = [PlanBar EXCEPT ![s] = <<>>] /\ PosBar' = [PosBar EXCEPT ![s] = 1]
        /\ GivenBar' = [GivenBar EXCEPT ![s] = 0]
    <2>1. \A u \in Session : /\ tx'[u].legs = IF u = s THEN <<>> ELSE tx[u].legs
                             /\ tx'[u].at = IF u = s THEN 1 ELSE tx[u].at
                             /\ tx'[u].taken = IF u = s THEN 0 ELSE tx[u].taken
      BY <1>1 DEF Idle
    <2> QED
      BY <2>1 DEF PlanBar, PosBar, GivenBar
  <1>3. \A b \in Bin : Minus(Amounts(Visible(s, b)), Amounts(inv[b]))' = Book!Zero
    <2> SUFFICES ASSUME NEW b \in Bin
                 PROVE  Minus(Amounts(Visible(s, b)), Amounts(inv[b]))' = Book!Zero
      OBVIOUS
    <2>1. Amounts(inv'[b]) \in IntAmount
      BY AmountsType
    <2>2. Minus(Amounts(inv'[b]), Amounts(inv'[b])) = Book!Zero
      BY <2>1, MinusSelf
    <2>3. Visible(s, b)' = inv'[b]
      OBVIOUS
    <2> QED
      BY <2>2, <2>3 DEF Minus, Amounts
  <1>4. CartBar' = [CartBar EXCEPT ![s] = Book!EmptyCart]
    BY <1>3 DEF CartBar, Book!EmptyCart
  <1> QED
    BY <1>2, <1>4 DEF Book!Close, CartBar, PlanBar, PosBar, GivenBar

LEMMA RollbackRefines ==
    ASSUME IndInv, NEW s \in Session, Rollback(s)
    PROVE  Book!BookNext
  <1> USE DEF IndInv
  <1>1. Release(s) /\ inv' = inv
        /\ cur' = [b \in Bin |-> IF lock[b] = s THEN inv[b] ELSE cur[b]]
    BY DEF Rollback, Held
  <1>2. \A b \in Bin : lock'[b] = IF lock[b] = s THEN Nobody ELSE lock[b]
    BY <1>1, ReleaseFacts
  <1>3. \A b \in Bin : Visible(s, b)' = inv'[b]
    BY <1>1, <1>2, AbsentAssumption DEF Visible
  <1>4. \A u \in Session, b \in Bin : u # s => Visible(u, b)' = Visible(u, b)
    BY <1>1, <1>2, AbsentAssumption DEF Visible
  <1>5. \A b \in Bin : inv'[b] \in Balance \cup {NoRow}
    BY <1>1 DEF TypeOK
  <1>6. \A u \in Session, b \in Bin : u # s =>
           Minus(Amounts(Visible(u, b)), Amounts(inv[b]))'
             = Minus(Amounts(Visible(u, b)), Amounts(inv[b]))
    BY <1>1, <1>4 DEF Minus, Amounts
  <1>7. Book!Close(s)
    BY <1>1, <1>3, <1>5, <1>6, CloseRefines
  <1>8. Book!Discard(s)
    BY <1>1, <1>7 DEF Book!Discard, Amounts
  <1> QED
    BY <1>8 DEF Book!BookNext

LEMMA CommitRefines ==
    ASSUME IndInv, PhaseInv, NEW s \in Session, Commit(s)
    PROVE  Book!BookNext
  <1> USE DEF IndInv
  <1>1. /\ Release(s) /\ cur' = cur
        /\ inv' = [b \in Bin |-> Visible(s, b)]
        /\ \A b \in Bin : inv'[b] = Visible(s, b)
    BY DEF Commit
  <1>2. \A b \in Bin : lock'[b] = IF lock[b] = s THEN Nobody ELSE lock[b]
    BY <1>1, ReleaseFacts
  <1>3. \A b \in Bin : inv'[b] \in Balance \cup {NoRow} /\ inv[b] \in Balance \cup {NoRow}
    BY <1>1 DEF TypeOK, Visible
  <1>4. \A b \in Bin : Visible(s, b)' = inv'[b]
    BY <1>1, <1>2, AbsentAssumption DEF Visible
  <1>5. ASSUME NEW u \in Session, NEW b \in Bin, u # s
        PROVE  Minus(Amounts(Visible(u, b)), Amounts(inv[b]))'
                 = Minus(Amounts(Visible(u, b)), Amounts(inv[b]))
    <2>1. CASE lock[b] = s
      <3>1. Visible(u, b)' = inv'[b] /\ Visible(u, b) = inv[b]
        BY <1>1, <1>2, <1>5, <2>1, AbsentAssumption DEF Visible
      <3>2. Amounts(inv'[b]) \in IntAmount /\ Amounts(inv[b]) \in IntAmount
        BY <1>3, <1>5, AmountsType
      <3>3. Minus(Amounts(inv'[b]), Amounts(inv'[b])) = Book!Zero
            /\ Minus(Amounts(inv[b]), Amounts(inv[b])) = Book!Zero
        BY <3>2, MinusSelf
      <3> QED
        BY <3>1, <3>3 DEF Minus, Amounts
    <2>2. CASE lock[b] # s
      <3>1. Visible(u, b)' = Visible(u, b) /\ inv'[b] = inv[b]
        BY <1>1, <1>2, <1>5, <2>2 DEF Visible
      <3> QED
        BY <3>1 DEF Minus, Amounts
    <2> QED
      BY <2>1, <2>2
  <1>6. Book!Close(s)
    BY <1>1, <1>3, <1>4, <1>5, CloseRefines
  <1>7. \A b \in Bin : BookBar'[b] = Book!Sum2(BookBar[b], CartBar[s][b])
    <2> SUFFICES ASSUME NEW b \in Bin
                 PROVE  BookBar'[b] = Book!Sum2(BookBar[b], CartBar[s][b])
      OBVIOUS
    <2>1. Amounts(inv'[b]) \in IntAmount /\ Amounts(inv[b]) \in IntAmount
      BY <1>3, AmountsType
    <2>2. BookBar'[b] = Amounts(inv'[b]) /\ BookBar[b] = Amounts(inv[b])
          /\ CartBar[s][b] = Minus(Amounts(inv'[b]), Amounts(inv[b]))
      BY <1>1 DEF BookBar, CartBar, Amounts
    <2> QED
      BY <2>1, <2>2, SumMinus
  <1>8. \A b \in Bin : Book!InBounds(BookBar'[b])
    <2> SUFFICES ASSUME NEW b \in Bin PROVE Book!InBounds(BookBar'[b])
      OBVIOUS
    <2>1. inv'[b] # NoRow => Legal(inv'[b])
      BY <1>1 DEF NeverOversold, Visible
    <2>2. Book!InBounds(Amounts(inv'[b]))
      BY <1>3, <2>1, LegalAmounts
    <2> QED
      BY <2>2 DEF BookBar, Amounts
  <1>9. BookBar' = [b \in Bin |-> Book!Sum2(BookBar[b], CartBar[s][b])]
    BY <1>7 DEF BookBar
  <1>10. PosBar[s] = Len(PlanBar[s]) + 1
    BY DEF Commit, PhaseInv, PosBar, PlanBar
  <1>11. Book!Settle(s)
    BY <1>6, <1>8, <1>9, <1>10
    DEF Book!Settle, BookBar, CartBar, PlanBar, PosBar, GivenBar
  <1> QED
    BY <1>11 DEF Book!BookNext

LEMMA NextRefines ==
    ASSUME IndInv, PhaseInv, [Next]_vars
    PROVE  [Book!BookNext]_(Book!bookVars)
  <1>1. ASSUME NEW s \in Session,
               \/ Begin(s) \/ Posting(s) \/ Commit(s) \/ Insufficient(s)
               \/ Exhausted(s) \/ Victim(s) \/ Abort(s)
        PROVE  Book!BookNext
    BY <1>1, BeginRefines, EnsuredRefines, ApplyRefines, ApplyDrawnRefines, EndDrawRefines,
       CommitRefines, RollbackRefines
    DEF Posting, Insufficient, Exhausted, Victim, Abort
  <1>2. ASSUME NEW s \in Session, Statement(s)
        PROVE  UNCHANGED <<BookBar, CartBar, PlanBar, PosBar, GivenBar>>
    BY <1>2, StatementRefines
  <1>3. CASE UNCHANGED vars
    BY <1>3 DEF vars, Book!bookVars, Amounts, Visible
  <1>4. UNCHANGED <<BookBar, CartBar, PlanBar, PosBar, GivenBar>> => UNCHANGED Book!bookVars
    BY DEF Book!bookVars, BookBar, CartBar, PlanBar, PosBar, GivenBar
  <1> QED
    BY <1>1, <1>2, <1>3, <1>4 DEF Next, Step, Statement, Posting

(***************************************************************************)
(* For any number of sessions, bins and tasks, the ledger implements the   *)
(* book: a request's tasks take effect all together at its commit, each    *)
(* leg exactly once and no draw beyond its quantity, whatever retries      *)
(* _commit_change and _draw made, or not at all.                           *)
(***************************************************************************)
THEOREM LedgerImplementsBook == Spec => ImplementsBook
  <1>1. Init => PhaseInv
    <2> SUFFICES ASSUME Init, NEW s \in Session
                 PROVE  tx[s] = Idle /\ tx[s].pc # "done"
      BY DEF PhaseInv
    <2> QED
      BY DEF Init, Idle
  <1>2. IndInv /\ PhaseInv /\ [Next]_vars => (IndInv /\ PhaseInv)'
    BY NextIndInv, NextPhaseInv
  <1>3. IndInv /\ PhaseInv /\ [Next]_vars => [Book!BookNext]_(Book!bookVars)
    BY NextRefines
  <1> QED
    BY <1>1, <1>2, <1>3, InitIndInv, InitRefines, PTL
    DEF Spec, ImplementsBook, Book!BookSpec
=============================================================================
