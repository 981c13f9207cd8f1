-------------------------- MODULE WorkQueueProofs --------------------------
(* Proofs about Executor::Queue (WorkQueue): for every number of threads,  *)
(* every capacity >= 2 and every number of pushes.                         *)
EXTENDS WorkQueue, TLAPS

\* position & mask_ is an index of cells_.
LEMMA CellInRange == \A p \in Nat : Cell(p) \in Cells
  BY CapacityAssumption DEF Cell, Cells

\* The ring is entered in order: the first lap visits every cell under its index.
LEMMA CellFirstLap == \A c \in Cells : Cell(c) = c
  BY CapacityAssumption DEF Cell, Cells

\* A position is a whole number of laps past its cell.
LEMMA CellLaps == \A p \in Nat : \E k \in Nat : p = Capacity * k + Cell(p)
  <1> TAKE p \in Nat
  <1>1. p \div Capacity \in Nat
    BY CapacityAssumption
  <1>2. p = Capacity * (p \div Capacity) + (p % Capacity)
    BY CapacityAssumption
  <1> QED
    BY <1>1, <1>2 DEF Cell

\* A whole number of laps between two cells is no lap at all.
LEMMA LapsUnique ==
    ASSUME NEW c \in Nat, c > 0, NEW j \in Int, NEW x \in Int, x = c * j,
           x > 0
    PROVE  x >= c
  <1>1. j >= 1
    BY SMT
  <1> QED
    BY <1>1, SMT

\* Two positions in the same cell are at least one lap apart.
LEMMA CellLapDistance ==
    ASSUME NEW p \in Nat, NEW q \in Nat, Cell(p) = Cell(q), p < q
    PROVE  q >= p + Capacity
  <1>1. PICK j \in Nat : p = Capacity * j + Cell(p)
    BY CellLaps
  <1>2. PICK k \in Nat : q = Capacity * k + Cell(q)
    BY CellLaps
  <1>3. Cell(p) \in Int
    BY CellInRange, CapacityAssumption DEF Cells
  <1>4. q - p = Capacity * (k - j)
    BY <1>1, <1>2, <1>3, CapacityAssumption
  <1> QED
    BY <1>4, LapsUnique, CapacityAssumption

\* One lap further is the same cell.
LEMMA CellNextLap == \A p \in Nat : Cell(p + Capacity) = Cell(p)
  <1> TAKE p \in Nat
  <1> DEFINE q == p + Capacity
             d == Cell(q) - Cell(p)
  <1>1. q \in Nat
    BY CapacityAssumption
  <1>2. PICK j \in Nat : p = Capacity * j + Cell(p)
    BY CellLaps
  <1>3. PICK k \in Nat : q = Capacity * k + Cell(q)
    BY <1>1, CellLaps
  <1>4. Cell(p) \in 0 .. Capacity - 1 /\ Cell(q) \in 0 .. Capacity - 1
    BY <1>1, CellInRange DEF Cells
  <1>5. d = Capacity * (j + 1 - k) /\ -d = Capacity * (k - j - 1)
    <2>1. d = Capacity * j - Capacity * k + Capacity
      BY <1>2, <1>3, <1>4, CapacityAssumption
    <2>2. Capacity * (j + 1 - k) = Capacity * j - Capacity * k + Capacity
      BY CapacityAssumption
    <2>3. Capacity * (k - j - 1) = Capacity * k - Capacity * j - Capacity
      BY CapacityAssumption
    <2> HIDE DEF d
    <2> QED
      BY <2>1, <2>2, <2>3, CapacityAssumption
  <1>6. d \in Int /\ d < Capacity /\ -d < Capacity
    BY <1>4, CapacityAssumption
  <1>7. ~(d > 0) /\ ~(-d > 0)
    BY <1>5, <1>6, LapsUnique, CapacityAssumption
  <1> QED
    BY <1>4, <1>6, <1>7

-----------------------------------------------------------------------------
\* Neighbouring positions lie in different cells (the ring has two or more).
LEMMA CellNeighbour == \A p \in Nat : Cell(p) # Cell(p + 1)
  BY CellLapDistance, CapacityAssumption

\* A fresh ring satisfies the invariant: cell c waits for the push of c.
LEMMA RingInit == Init => RingInv
  <1> SUFFICES ASSUME Init PROVE RingInv
    OBVIOUS
  <1> USE CapacityAssumption, TicketAssumption, ItemAssumption
  <1>1. TypeOK
    BY DEF Init, TypeOK, Cells, Tickets, Pcs
  <1>2. Bounded
    BY DEF Init, Bounded
  <1>3. \A c \in Cells : Free(c) \/ Published(c)
    BY CellFirstLap DEF Init, Free, Cells
  <1>4. \A t \in Threads : PushHolds(t) /\ PopHolds(t) /\ CheckHolds(t)
    BY DEF Init, PushHolds, PopHolds, CheckHolds, Pushing, Popping
  <1>5. Owners /\ History /\ Fifo
    BY DEF Init, Owners, History, Fifo, Pushing, Popping, Tickets
  <1> QED
    BY <1>1, <1>2, <1>3, <1>4, <1>5 DEF RingInv

\* What the threads outside the cells do to their own locals.
Outside == {"idle", "push_check", "push_cas", "pop_check", "pop_cas"}

\* A step that moves one thread outside the cells, changes nothing shared and
\* establishes that thread's own facts preserves the invariant.
LEMMA LocalStep ==
    ASSUME RingInv, NEW t \in Threads, UNCHANGED shared,
           pc[t] \in Outside,
           NEW q \in Outside, pc' = [pc EXCEPT ![t] = q],
           NEW p \in Nat, position' = [position EXCEPT ![t] = p],
           NEW w \in Items \cup {NoItem}, work' = [work EXCEPT ![t] = w],
           CheckHolds(t)'
    PROVE  RingInv'
  <1>1. TypeOK'
    BY DEF RingInv, TypeOK, shared, Outside, Pcs
  <1>2. Bounded' /\ History' /\ Fifo'
    BY DEF RingInv, Bounded, History, Fifo, shared
  <1>3. \A c \in Cells : (Free(c) \/ Published(c))'
    BY DEF RingInv, Free, Published, shared, Cell
  <1>4. \A u \in Threads : u # t =>
            pc'[u] = pc[u] /\ position'[u] = position[u] /\ work'[u] = work[u]
    BY DEF RingInv, TypeOK
  <1>5. pc'[t] = q
    BY DEF RingInv, TypeOK
  <1>6. \A u \in Threads : (PushHolds(u) /\ PopHolds(u) /\ CheckHolds(u))'
    BY <1>4, <1>5 DEF RingInv, PushHolds, PopHolds, CheckHolds, Pushing,
                      Popping, shared, Outside, Cell
  <1>7. Owners'
    BY <1>4, <1>5 DEF RingInv, Owners, Pushing, Popping, Outside
  <1> QED
    BY <1>1, <1>2, <1>3, <1>6, <1>7 DEF RingInv

\* The steps of try_push and try_pop that only load: the facts they record
\* about the cell hold when they are recorded.
LEMMA LocalActions ==
    ASSUME RingInv, NEW t \in Threads,
           \/ \E i \in Items : PushBegin(t, i)
           \/ PushCheck(t) \/ PushLose(t)
           \/ PopBegin(t) \/ PopCheck(t) \/ PopLose(t)
    PROVE  RingInv'
  <1> USE DEF Goto, SetPosition
  <1>0. /\ pc \in [Threads -> Pcs] /\ position \in [Threads -> Nat]
        /\ work \in [Threads -> Items \cup {NoItem}]
        /\ enqueue_ \in Nat /\ dequeue_ \in Nat
        /\ sequence \in [Cells -> Nat]
        /\ CheckHolds(t)
    BY TicketAssumption DEF RingInv, TypeOK
  <1>1. ASSUME Return(t), UNCHANGED shared, pc[t] \in Outside PROVE RingInv'
    <2>1. CheckHolds(t)'
      BY <1>0, <1>1 DEF Return, CheckHolds
    <2> QED
      BY <1>0, <1>1, <2>1, LocalStep, Zenon DEF Return, Outside
  <1>2. ASSUME NEW i \in Items, PushBegin(t, i) PROVE RingInv'
    <2>1. CheckHolds(t)'
      BY <1>0, <1>2 DEF PushBegin, CheckHolds, shared
    <2> QED
      BY <1>0, <1>2, <2>1, LocalStep, Zenon DEF PushBegin, Outside
  <1>3. ASSUME PopBegin(t) PROVE RingInv'
    <2>1. CheckHolds(t)'
      BY <1>0, <1>3 DEF PopBegin, CheckHolds, shared
    <2>2. work' = [work EXCEPT ![t] = work[t]]
      BY <1>0, <1>3 DEF PopBegin
    <2> QED
      BY <1>0, <1>3, <2>1, <2>2, LocalStep, Zenon DEF PopBegin, Outside
  <1>4. ASSUME NEW q, NEW p,
               \/ q = "push_check" /\ p = enqueue_ /\ work[t] \in Items
               \/ q = "pop_check" /\ p = dequeue_,
               Lose(t, q, p), UNCHANGED shared, pc[t] \in Outside
        PROVE  RingInv'
    <2>1. CASE Return(t)
      BY <1>1, <1>4, <2>1
    <2>2. CASE Goto(t, q) /\ SetPosition(t, p) /\ UNCHANGED work
      <3>1. CheckHolds(t)'
        BY <1>0, <1>4, <2>2 DEF CheckHolds, shared
      <3>2. work' = [work EXCEPT ![t] = work[t]]
        BY <1>0, <2>2
      <3> QED
        BY <1>0, <1>4, <2>2, <3>1, <3>2, LocalStep, Zenon DEF Outside
    <2> QED
      BY <1>4, <2>1, <2>2 DEF Lose
  <1>5. ASSUME Goto(t, "push_cas") \/ Goto(t, "pop_cas"),
               UNCHANGED <<shared, position, work>>,
               Goto(t, "push_cas") => /\ pc[t] = "push_check"
                                      /\ sequence[Cell(position[t])] = position[t],
               Goto(t, "pop_cas") => /\ pc[t] = "pop_check"
                                     /\ sequence[Cell(position[t])] = position[t] + 1
        PROVE  RingInv'
    <2>1. CheckHolds(t)'
      BY <1>0, <1>5 DEF CheckHolds, shared, Cell
    <2>2. /\ work' = [work EXCEPT ![t] = work[t]]
          /\ position' = [position EXCEPT ![t] = position[t]]
      BY <1>0, <1>5
    <2>3. pc[t] \in Outside
      BY <1>5 DEF Outside
    <2>4. CASE Goto(t, "push_cas")
      BY <1>0, <1>5, <2>1, <2>2, <2>3, <2>4, LocalStep, Zenon DEF Outside
    <2>5. CASE Goto(t, "pop_cas")
      BY <1>0, <1>5, <2>1, <2>2, <2>3, <2>5, LocalStep, Zenon DEF Outside
    <2> QED
      BY <1>5, <2>4, <2>5
  <1>6. ASSUME PushCheck(t) PROVE RingInv'
    <2>1. pc[t] \in Outside /\ UNCHANGED shared /\ work[t] \in Items
      BY <1>0, <1>6 DEF PushCheck, Outside, CheckHolds
    <2>2. CASE Return(t)
      BY <1>1, <2>1, <2>2
    <2>3. CASE Lose(t, "push_check", enqueue_)
      BY <1>4, <2>1, <2>3
    <2>4. CASE /\ sequence[Cell(position[t])] = position[t]
               /\ Goto(t, "push_cas") /\ UNCHANGED <<position, work>>
      <3>1. pc' # [pc EXCEPT ![t] = "pop_cas"]
        BY <1>0, <2>4
      <3> QED
        BY <1>5, <1>6, <2>1, <2>4, <3>1 DEF PushCheck
    <2> QED
      BY <1>6, <2>2, <2>3, <2>4 DEF PushCheck
  <1>7. ASSUME PopCheck(t) PROVE RingInv'
    <2>1. pc[t] \in Outside /\ UNCHANGED shared
      BY <1>7 DEF PopCheck, Outside
    <2>2. CASE Return(t)
      BY <1>1, <2>1, <2>2
    <2>3. CASE Lose(t, "pop_check", dequeue_)
      BY <1>4, <2>1, <2>3
    <2>4. CASE /\ sequence[Cell(position[t])] = position[t] + 1
               /\ Goto(t, "pop_cas") /\ UNCHANGED <<position, work>>
      <3>1. pc' # [pc EXCEPT ![t] = "push_cas"]
        BY <1>0, <2>4
      <3> QED
        BY <1>5, <1>7, <2>1, <2>4, <3>1 DEF PopCheck
    <2> QED
      BY <1>7, <2>2, <2>3, <2>4 DEF PopCheck
  <1>8. ASSUME PushLose(t) PROVE RingInv'
    BY <1>0, <1>4, <1>8 DEF PushLose, Outside, CheckHolds
  <1>9. ASSUME PopLose(t) PROVE RingInv'
    BY <1>0, <1>4, <1>9 DEF PopLose, Outside
  <1> QED
    BY <1>2, <1>3, <1>6, <1>7, <1>8, <1>9

-----------------------------------------------------------------------------
\* A cell whose sequence is one of its own positions waits for that push.
LEMMA PushTurn ==
    ASSUME RingInv, NEW p \in Nat, sequence[Cell(p)] = p
    PROVE  dequeue_ <= p /\ p < dequeue_ + Capacity
  <1>1. Cell(p) \in Cells
    BY CellInRange
  <1>2. ~Published(Cell(p))
    BY CellNeighbour DEF Published, Tickets
  <1> QED
    BY <1>1, <1>2 DEF RingInv, Free

\* A cell whose sequence is one past one of its own positions holds the record
\* pushed under that position.
LEMMA PopTurn ==
    ASSUME RingInv, NEW p \in Nat, sequence[Cell(p)] = p + 1
    PROVE  /\ p \in Tickets /\ p < enqueue_ /\ enqueue_ <= p + Capacity
           /\ item[Cell(p)] = pushed[p]
  <1>1. Cell(p) \in Cells
    BY CellInRange
  <1>2. ~Free(Cell(p))
    BY CellNeighbour DEF Free
  <1>3. PICK q \in Tickets : /\ sequence[Cell(p)] = q + 1
                             /\ q < enqueue_
                             /\ enqueue_ <= q + Capacity
                             /\ item[Cell(p)] = pushed[q]
    BY <1>1, <1>2 DEF RingInv, Published
  <1>4. q = p
    BY <1>3 DEF Tickets
  <1> QED
    BY <1>3, <1>4

\* The facts about types that every step uses.
LEMMA RingTypes ==
    ASSUME RingInv
    PROVE  /\ enqueue_ \in Nat /\ enqueue_ <= MaxTickets /\ dequeue_ \in Nat
           /\ sequence \in [Cells -> Nat]
           /\ item \in [Cells -> Items \cup {NoItem}]
           /\ pc \in [Threads -> Pcs] /\ position \in [Threads -> Nat]
           /\ work \in [Threads -> Items \cup {NoItem}]
           /\ pushed \in [Tickets -> Items \cup {NoItem}]
           /\ popped \in [Tickets -> Seq(Items \cup {NoItem})]
           /\ dequeue_ <= enqueue_ /\ enqueue_ <= dequeue_ + Capacity
           /\ Capacity \in Nat /\ Capacity >= 2 /\ MaxTickets \in Nat
           /\ \A t \in Threads : Cell(position[t]) \in Cells
  BY CapacityAssumption, TicketAssumption, CellInRange DEF RingInv, TypeOK, Bounded

\* The compare-exchange on enqueue_ that succeeds.
LEMMA PushClaimStep ==
    ASSUME RingInv, NEW t \in Threads, PushClaim(t)
    PROVE  RingInv'
  <1> USE RingTypes DEF PushClaim, Goto
  <1>1. /\ sequence[Cell(enqueue_)] = enqueue_ /\ work[t] \in Items
        /\ enqueue_ \in Tickets
    BY DEF RingInv, CheckHolds, Tickets
  <1>2. enqueue_ < dequeue_ + Capacity
    BY <1>1, PushTurn
  <1>3. TypeOK'
    <2>1. pushed' \in [Tickets -> Items \cup {NoItem}]
      BY <1>1
    <2>2. enqueue_' \in 0 .. MaxTickets /\ pc' \in [Threads -> Pcs]
      BY DEF Pcs
    <2> QED
      BY <2>1, <2>2 DEF TypeOK
  <1>4. Bounded'
    BY <1>2 DEF Bounded
  <1>5. ASSUME NEW c \in Cells PROVE (Free(c) \/ Published(c))'
    <2>1. CASE Free(c)
      BY <2>1 DEF Free, Cell
    <2>2. CASE Published(c)
      <3>1. PICK p \in Tickets : /\ sequence[c] = p + 1 /\ Cell(p) = c
                                 /\ p < enqueue_ /\ enqueue_ <= p + Capacity
                                 /\ item[c] = pushed[p]
        BY <2>2 DEF Published
      <3>2. p \in Nat
        BY DEF Tickets
      <3>3. enqueue_ # p + Capacity
        <4> SUFFICES ASSUME enqueue_ = p + Capacity PROVE FALSE
          OBVIOUS
        <4>1. Cell(enqueue_) = c
          BY <3>1, <3>2, CellNextLap
        <4> QED
          BY <1>1, <3>1, <3>2, <4>1
      <3>4. pushed'[p] = pushed[p]
        BY <3>1, <3>2
      <3>5. /\ sequence'[c] = p + 1 /\ item'[c] = pushed'[p]
            /\ p < enqueue_' /\ enqueue_' <= p + Capacity
        <4>1. sequence'[c] = p + 1 /\ item'[c] = pushed'[p]
          BY <3>1, <3>4
        <4>2. p < enqueue_' /\ enqueue_' <= p + Capacity
          <5>1. enqueue_' = enqueue_ + 1 /\ enqueue_ \in Nat /\ Capacity \in Nat
            OBVIOUS
          <5> HIDE RingTypes DEF PushClaim
          <5> QED
            BY <3>1, <3>2, <3>3, <5>1
        <4> QED
          BY <4>1, <4>2
      <3> QED
        BY <3>1, <3>5 DEF Published, Cell, Tickets
    <2> QED
      BY <2>1, <2>2 DEF RingInv
  <1>6. ASSUME NEW u \in Threads
        PROVE  (PushHolds(u) /\ PopHolds(u) /\ CheckHolds(u))'
    <2>1. CASE u = t
      BY <1>1, <2>1 DEF PushHolds, PopHolds, CheckHolds, Pushing, Popping, Cell
    <2>2. CASE u # t
      <3>1. PushHolds(u) /\ PopHolds(u) /\ CheckHolds(u) /\ pc'[u] = pc[u]
        BY <2>2 DEF RingInv
      <3> QED
        BY <3>1 DEF PushHolds, PopHolds, CheckHolds, Pushing, Popping, Cell
    <2> QED
      BY <2>1, <2>2
  <1>7. Owners'
    BY DEF RingInv, Owners, PushHolds, Pushing, Popping
  <1>8. \A p \in Tickets : p # enqueue_ => pushed'[p] = pushed[p]
    OBVIOUS
  <1>9. History'
    <2>1. pushed'[enqueue_] \in Items
      BY <1>1
    <2> QED
      BY <1>8, <2>1 DEF RingInv, History, Tickets
  <1>10. Fifo'
    <2>1. popped[enqueue_] = <<>>
      BY <1>1 DEF RingInv, History
    <2> QED
      BY <1>8, <2>1 DEF RingInv, Fifo
  <1> QED
    BY <1>3, <1>4, <1>5, <1>6, <1>7, <1>9, <1>10 DEF RingInv

\* The write of cell.item.
LEMMA PushWriteStep ==
    ASSUME RingInv, NEW t \in Threads, PushWrite(t)
    PROVE  RingInv'
  <1> USE RingTypes DEF PushWrite, Goto
  <1> DEFINE p == position[t]
  <1>1. p < enqueue_ /\ sequence[Cell(p)] = p /\ pushed[p] = work[t] /\ work[t] \in Items
    BY DEF RingInv, PushHolds, Pushing
  <1>2. TypeOK'
    BY DEF RingInv, TypeOK, Pcs
  <1>3. Bounded' /\ History' /\ Fifo'
    BY DEF RingInv, Bounded, History, Fifo
  <1>4. ASSUME NEW c \in Cells PROVE (Free(c) \/ Published(c))'
    <2>1. CASE c = Cell(p)
      <3>1. Free(c)
        BY <1>1, <2>1, PushTurn DEF Free
      <3> QED
        BY <3>1 DEF Free, Cell
    <2>2. CASE c # Cell(p)
      <3>1. item'[c] = item[c]
        BY <2>2
      <3> QED
        BY <3>1 DEF RingInv, Free, Published, Cell
    <2> QED
      BY <2>1, <2>2
  <1>5. ASSUME NEW u \in Threads
        PROVE  (PushHolds(u) /\ PopHolds(u) /\ CheckHolds(u))'
    <2>1. CASE u = t
      BY <1>1, <2>1 DEF PushHolds, PopHolds, CheckHolds, Pushing, Popping, Cell
    <2>2. CASE u # t
      <3>1. PushHolds(u) /\ PopHolds(u) /\ CheckHolds(u) /\ pc'[u] = pc[u]
        BY <2>2 DEF RingInv
      <3>2. Pushing(u) => Cell(position[u]) # Cell(p)
        BY <1>1, <2>2, <3>1 DEF RingInv, Owners, PushHolds, Pushing
      <3> QED
        BY <3>1, <3>2 DEF PushHolds, PopHolds, CheckHolds, Pushing, Popping, Cell
    <2> QED
      BY <2>1, <2>2
  <1>6. Owners'
    BY DEF RingInv, Owners, Pushing, Popping
  <1> QED
    BY <1>2, <1>3, <1>4, <1>5, <1>6 DEF RingInv

\* The store that publishes the record.
LEMMA PushPublishStep ==
    ASSUME RingInv, NEW t \in Threads, PushPublish(t)
    PROVE  RingInv'
  <1> USE RingTypes DEF PushPublish, Return, SetPosition, Goto
  <1> DEFINE p == position[t]
  <1>1. /\ p < enqueue_ /\ sequence[Cell(p)] = p /\ pushed[p] = work[t]
        /\ item[Cell(p)] = work[t]
    BY DEF RingInv, PushHolds, Pushing
  <1>2. dequeue_ <= p
    BY <1>1, PushTurn
  <1>3. TypeOK'
    BY ItemAssumption, SMTT(30) DEF RingInv, TypeOK, Pcs
  <1>4. Bounded' /\ History' /\ Fifo'
    BY DEF RingInv, Bounded, History, Fifo
  <1>5. \A c \in Cells : c # Cell(p) => sequence'[c] = sequence[c]
    OBVIOUS
  <1>6. ASSUME NEW c \in Cells PROVE (Free(c) \/ Published(c))'
    <2>1. CASE c = Cell(p)
      <3>1. p \in Tickets
        BY <1>1 DEF Tickets
      <3>2. sequence'[c] = p + 1 /\ item'[c] = pushed'[p]
        BY <1>1, <2>1
      <3>3. p < enqueue_' /\ enqueue_' <= p + Capacity
        BY <1>1, <1>2
      <3> QED
        BY <2>1, <3>1, <3>2, <3>3 DEF Published, Cell, Tickets
    <2>2. CASE c # Cell(p)
      BY <1>5, <2>2 DEF RingInv, Free, Published, Cell
    <2> QED
      BY <2>1, <2>2
  <1>7. ASSUME NEW u \in Threads
        PROVE  (PushHolds(u) /\ PopHolds(u) /\ CheckHolds(u))'
    <2>1. CASE u = t
      BY <2>1 DEF PushHolds, PopHolds, CheckHolds, Pushing, Popping
    <2>2. CASE u # t
      <3>1. /\ PushHolds(u) /\ PopHolds(u) /\ CheckHolds(u)
            /\ pc'[u] = pc[u] /\ position'[u] = position[u] /\ work'[u] = work[u]
        BY <2>2 DEF RingInv
      <3>2. Pushing(u) => Cell(position[u]) # Cell(p)
        BY <1>1, <2>2, <3>1 DEF RingInv, Owners, PushHolds, Pushing
      <3>3. sequence[Cell(position[u])] = position[u] + 1
                => Cell(position[u]) # Cell(p)
        BY <1>1, CellNeighbour
      <3>4. sequence[Cell(position[u])] = position[u] /\ position[u] = enqueue_
                => Cell(position[u]) # Cell(p)
        BY <1>1
      <3> QED
        BY <1>5, <3>1, <3>2, <3>3, <3>4
        DEF PushHolds, PopHolds, CheckHolds, Pushing, Popping, Cell
    <2> QED
      BY <2>1, <2>2
  <1>8. Owners'
    BY DEF RingInv, Owners, Pushing, Popping
  <1> QED
    BY <1>3, <1>4, <1>6, <1>7, <1>8 DEF RingInv

-----------------------------------------------------------------------------
\* The compare-exchange on dequeue_ that succeeds.
LEMMA PopClaimStep ==
    ASSUME RingInv, NEW t \in Threads, PopClaim(t)
    PROVE  RingInv'
  <1> USE RingTypes DEF PopClaim, Goto
  <1>1. sequence[Cell(dequeue_)] = dequeue_ + 1
    BY DEF RingInv, CheckHolds
  <1>2. dequeue_ \in Tickets /\ dequeue_ < enqueue_
    BY <1>1, PopTurn
  <1>3. TypeOK'
    BY DEF RingInv, TypeOK, Pcs
  <1>4. Bounded'
    BY <1>2 DEF Bounded
  <1>5. ASSUME NEW c \in Cells PROVE (Free(c) \/ Published(c))'
    <2>1. CASE Free(c)
      <3>1. sequence[c] # dequeue_
        BY <1>1, <2>1 DEF Free
      <3>2. dequeue_' <= sequence'[c] /\ sequence'[c] < dequeue_' + Capacity
        BY <2>1, <3>1 DEF Free
      <3> QED
        BY <2>1, <3>2 DEF Free, Cell
    <2>2. CASE Published(c)
      BY <2>2 DEF Published, Cell
    <2> QED
      BY <2>1, <2>2 DEF RingInv
  <1>6. ASSUME NEW u \in Threads
        PROVE  (PushHolds(u) /\ PopHolds(u) /\ CheckHolds(u))'
    <2>1. CASE u = t
      <3>1. popped[dequeue_] = <<>>
        BY <1>2 DEF RingInv, History
      <3> QED
        BY <1>1, <2>1, <3>1
        DEF PushHolds, PopHolds, CheckHolds, Pushing, Popping, Cell
    <2>2. CASE u # t
      <3>1. PushHolds(u) /\ PopHolds(u) /\ CheckHolds(u) /\ pc'[u] = pc[u]
        BY <2>2 DEF RingInv
      <3> QED
        BY <3>1 DEF PushHolds, PopHolds, CheckHolds, Pushing, Popping, Cell
    <2> QED
      BY <2>1, <2>2
  <1>7. Owners'
    BY DEF RingInv, Owners, PopHolds, Pushing, Popping
  <1>8. History' /\ Fifo'
    BY DEF RingInv, History, Fifo, Tickets
  <1> QED
    BY <1>3, <1>4, <1>5, <1>6, <1>7, <1>8 DEF RingInv

\* The read of cell.item.
LEMMA PopReadStep ==
    ASSUME RingInv, NEW t \in Threads, PopRead(t)
    PROVE  RingInv'
  <1> USE RingTypes DEF PopRead, Goto
  <1> DEFINE p == position[t]
  <1>1. p < dequeue_ /\ sequence[Cell(p)] = p + 1 /\ popped[p] = <<>>
    BY DEF RingInv, PopHolds, Popping
  <1>2. p \in Tickets /\ p < enqueue_ /\ item[Cell(p)] = pushed[p]
    BY <1>1, PopTurn
  <1>3. pushed[p] \in Items
    BY <1>2 DEF RingInv, History
  <1>4. popped' = [popped EXCEPT ![p] = <<pushed[p]>>]
    BY <1>1, <1>2
  <1>5. TypeOK'
    <2>1. <<pushed[p]>> \in Seq(Items \cup {NoItem})
      BY <1>3
    <2>2. popped' \in [Tickets -> Seq(Items \cup {NoItem})]
      BY <1>2, <1>4, <2>1 DEF RingInv, TypeOK
    <2> QED
      BY <2>2, SMTT(30) DEF TypeOK, Pcs
  <1>6. Bounded' /\ \A c \in Cells : (Free(c) \/ Published(c))'
    BY DEF RingInv, Bounded, Free, Published, Cell
  <1>7. ASSUME NEW u \in Threads
        PROVE  (PushHolds(u) /\ PopHolds(u) /\ CheckHolds(u))'
    <2>1. CASE u = t
      BY <1>1, <2>1 DEF PushHolds, PopHolds, CheckHolds, Pushing, Popping, Cell
    <2>2. CASE u # t
      <3>1. PushHolds(u) /\ PopHolds(u) /\ CheckHolds(u) /\ pc'[u] = pc[u]
        BY <2>2 DEF RingInv
      <3>2. Popping(u) => position[u] # p
        BY <2>2 DEF RingInv, Owners, Popping
      <3>3. Popping(u) => popped'[position[u]] = popped[position[u]]
        BY <1>4, <3>1, <3>2 DEF PopHolds, Tickets
      <3> QED
        BY <3>1, <3>3, Zenon DEF PushHolds, PopHolds, CheckHolds, Pushing, Popping, Cell
    <2> QED
      BY <2>1, <2>2
  <1>8. Owners'
    BY DEF RingInv, Owners, Pushing, Popping
  <1>9. History'
    BY <1>1, <1>4 DEF RingInv, History, Tickets
  <1>10. Fifo'
    BY <1>3, <1>4, ItemAssumption, Zenon DEF RingInv, Fifo
  <1> QED
    BY <1>5, <1>6, <1>7, <1>8, <1>9, <1>10 DEF RingInv

\* The store that gives the cell to the next lap.
LEMMA PopReleaseStep ==
    ASSUME RingInv, NEW t \in Threads, PopRelease(t)
    PROVE  RingInv'
  <1> USE RingTypes DEF PopRelease, Return, SetPosition, Goto
  <1> DEFINE p == position[t]
  <1>1. p < dequeue_ /\ sequence[Cell(p)] = p + 1
    BY DEF RingInv, PopHolds, Popping
  <1>2. enqueue_ <= p + Capacity
    BY <1>1, PopTurn
  <1>3. TypeOK'
    BY ItemAssumption DEF RingInv, TypeOK, Pcs
  <1>4. Bounded' /\ History' /\ Fifo'
    BY DEF RingInv, Bounded, History, Fifo
  <1>5. \A c \in Cells : c # Cell(p) => sequence'[c] = sequence[c]
    OBVIOUS
  <1>6. ASSUME NEW c \in Cells PROVE (Free(c) \/ Published(c))'
    <2>1. CASE c = Cell(p)
      <3>1. sequence'[c] = p + Capacity /\ Cell(p + Capacity) = c
        BY <2>1, CellNextLap
      <3>2. dequeue_' <= p + Capacity /\ p + Capacity < dequeue_' + Capacity
        BY <1>1, <1>2
      <3> QED
        BY <3>1, <3>2 DEF Free, Cell
    <2>2. CASE c # Cell(p)
      BY <1>5, <2>2 DEF RingInv, Free, Published, Cell
    <2> QED
      BY <2>1, <2>2
  <1>7. ASSUME NEW u \in Threads
        PROVE  (PushHolds(u) /\ PopHolds(u) /\ CheckHolds(u))'
    <2>1. CASE u = t
      BY <2>1 DEF PushHolds, PopHolds, CheckHolds, Pushing, Popping
    <2>2. CASE u # t
      <3>1. /\ PushHolds(u) /\ PopHolds(u) /\ CheckHolds(u)
            /\ pc'[u] = pc[u] /\ position'[u] = position[u] /\ work'[u] = work[u]
        BY <2>2 DEF RingInv
      <3>2. Popping(u) => Cell(position[u]) # Cell(p)
        BY <1>1, <2>2, <3>1 DEF RingInv, Owners, PopHolds, Popping
      <3>3. sequence[Cell(position[u])] = position[u]
                => Cell(position[u]) # Cell(p)
        BY <1>1, CellNeighbour
      <3>4. sequence[Cell(position[u])] = position[u] + 1 /\ position[u] = dequeue_
                => Cell(position[u]) # Cell(p)
        BY <1>1
      <3> QED
        BY <1>5, <3>1, <3>2, <3>3, <3>4
        DEF PushHolds, PopHolds, CheckHolds, Pushing, Popping, Cell
    <2> QED
      BY <2>1, <2>2
  <1>8. Owners'
    BY DEF RingInv, Owners, Pushing, Popping
  <1> QED
    BY <1>3, <1>4, <1>6, <1>7, <1>8 DEF RingInv

-----------------------------------------------------------------------------
\* Every step of every thread, and every stuttering step, keeps RingInv.
LEMMA RingStep == RingInv /\ [Next]_vars => RingInv'
  <1> SUFFICES ASSUME RingInv, [Next]_vars
               PROVE  RingInv'
    OBVIOUS
  <1>1. ASSUME NEW t \in Threads, NEW i \in Items, PushBegin(t, i)
        PROVE  RingInv'
    BY <1>1, LocalActions
  <1>2. ASSUME NEW t \in Threads,
               PushCheck(t) \/ PushLose(t) \/ PopBegin(t) \/ PopCheck(t) \/ PopLose(t)
        PROVE  RingInv'
    BY <1>2, LocalActions
  <1>3. ASSUME NEW t \in Threads, PushClaim(t) PROVE RingInv'
    BY <1>3, PushClaimStep
  <1>4. ASSUME NEW t \in Threads, PushWrite(t) PROVE RingInv'
    BY <1>4, PushWriteStep
  <1>5. ASSUME NEW t \in Threads, PushPublish(t) PROVE RingInv'
    BY <1>5, PushPublishStep
  <1>6. ASSUME NEW t \in Threads, PopClaim(t) PROVE RingInv'
    BY <1>6, PopClaimStep
  <1>7. ASSUME NEW t \in Threads, PopRead(t) PROVE RingInv'
    BY <1>7, PopReadStep
  <1>8. ASSUME NEW t \in Threads, PopRelease(t) PROVE RingInv'
    BY <1>8, PopReleaseStep
  <1>9. CASE UNCHANGED vars
    BY <1>9 DEF vars, RingInv, TypeOK, Bounded, Free, Published, PushHolds,
       PopHolds, CheckHolds, Pushing, Popping, Owners, History, Fifo, Cell
  <1> QED
    BY <1>1, <1>2, <1>3, <1>4, <1>5, <1>6, <1>7, <1>8, <1>9 DEF Next

\* The ring's inductive invariant holds of Executor::Queue for every number of
\* threads, every capacity and every number of pushes.
THEOREM RingCorrect == Spec => []RingInv
  <1>1. Init => RingInv
    BY RingInit
  <1>2. RingInv /\ [Next]_vars => RingInv'
    BY RingStep
  <1> QED
    BY <1>1, <1>2, PTL DEF Spec

\* try_push and try_pop keep the types of the ring's state.
THEOREM TypeCorrect == Spec => []TypeOK
  <1>1. RingInv => TypeOK
    BY DEF RingInv
  <1> QED
    BY <1>1, RingCorrect, PTL

\* Each accepted record is handed out at most once, unchanged and in order.
THEOREM FifoCorrect == Spec => []Fifo
  <1>1. RingInv => Fifo
    BY DEF RingInv
  <1> QED
    BY <1>1, RingCorrect, PTL

\* The ring never holds more than Capacity records.
THEOREM BoundedCorrect == Spec => []Bounded
  <1>1. RingInv => Bounded
    BY DEF RingInv
  <1> QED
    BY <1>1, RingCorrect, PTL

\* No two threads access cell.item of one cell at the same time.
THEOREM ExclusiveCorrect == Spec => []CellExclusive
  <1>1. RingInv => CellExclusive
    <2> SUFFICES ASSUME RingInv, NEW t \in Threads, NEW u \in Threads, t # u,
                        Pushing(t) \/ Popping(t), Pushing(u) \/ Popping(u),
                        Cell(position[t]) = Cell(position[u])
                 PROVE  FALSE
      BY DEF CellExclusive
    <2> USE RingTypes
    <2>1. /\ PushHolds(t) /\ PopHolds(t)
          /\ PushHolds(u) /\ PopHolds(u)
      BY DEF RingInv
    <2>2. CASE Pushing(t) /\ Pushing(u)
      BY <2>1, <2>2 DEF PushHolds, RingInv, Owners
    <2>3. CASE Popping(t) /\ Popping(u)
      BY <2>1, <2>3 DEF PopHolds, RingInv, Owners
    <2>4. CASE Pushing(t) /\ Popping(u)
      BY <2>1, <2>4, CellNeighbour DEF PushHolds, PopHolds
    <2>5. CASE Popping(t) /\ Pushing(u)
      BY <2>1, <2>5, CellNeighbour DEF PushHolds, PopHolds
    <2> QED
      BY <2>2, <2>3, <2>4, <2>5
  <1> QED
    BY <1>1, RingCorrect, PTL
=============================================================================
