----------------------------- MODULE WorkQueue -----------------------------
(***************************************************************************)
(* Executor::Queue (rt/src/executor.cpp): the bounded multi-producer       *)
(* multi-consumer ring that holds the work of one executor worker.  A      *)
(* position is claimed by a compare-exchange on enqueue_ or dequeue_; the  *)
(* sequence number of a cell says whose turn the cell is.  Every atomic    *)
(* access of try_push and try_pop is a step, and so is the plain access to *)
(* cell.item, so that overlapping accesses to a cell are visible.          *)
(*                                                                         *)
(* A thread gives up after kQueueCasAttemptLimit lost attempts.  The limit *)
(* is not a number here: a thread that loses an attempt may retry or give  *)
(* up, which covers every limit.  Positions do not wrap (2^64 pushes).     *)
(***************************************************************************)
EXTENDS Integers, Sequences

CONSTANTS
    Threads,     \* threads that push or pop: workers, frame and device lanes
    Items,       \* work records
    NoItem,      \* an empty cell
    Capacity,    \* executor_queue_capacity
    MaxTickets   \* bound of the model: positions ever claimed by pushes

\* Finalization accepts a power of two in [2, 1048576]; the ring needs >= 2.
ASSUME CapacityAssumption == Capacity \in Nat /\ Capacity >= 2
ASSUME TicketAssumption == MaxTickets \in Nat
ASSUME ItemAssumption == NoItem \notin Items

VARIABLES
    enqueue_,   \* next position to push
    dequeue_,   \* next position to pop
    sequence,   \* cells_[c].sequence
    item,       \* cells_[c].item
    pc,         \* where each thread is inside try_push / try_pop
    position,   \* its local position
    work,       \* the record it pushes
    pushed,     \* history: the record pushed under each claimed position
    popped      \* history: the records read under each position

vars == <<enqueue_, dequeue_, sequence, item, pc, position, work, pushed, popped>>
shared == <<enqueue_, dequeue_, sequence, item, pushed, popped>>

Cells == 0 .. Capacity - 1
Cell(p) == p % Capacity          \* position & mask_
Tickets == 0 .. MaxTickets - 1
Pcs == {"idle", "push_check", "push_cas", "push_write", "push_publish",
        "pop_check", "pop_cas", "pop_read", "pop_release"}

Init ==
    /\ enqueue_ = 0
    /\ dequeue_ = 0
    /\ sequence = [c \in Cells |-> c]
    /\ item = [c \in Cells |-> NoItem]
    /\ pc = [t \in Threads |-> "idle"]
    /\ position = [t \in Threads |-> 0]
    /\ work = [t \in Threads |-> NoItem]
    /\ pushed = [p \in Tickets |-> NoItem]
    /\ popped = [p \in Tickets |-> <<>>]

Goto(t, next) == pc' = [pc EXCEPT ![t] = next]
SetPosition(t, p) == position' = [position EXCEPT ![t] = p]

\* The call returns and its locals are gone.
Return(t) ==
    /\ Goto(t, "idle")
    /\ SetPosition(t, 0)
    /\ work' = [work EXCEPT ![t] = NoItem]

\* A lost attempt (cpu_relax): try again from p, or give up and return false.
Lose(t, next, p) ==
    \/ Goto(t, next) /\ SetPosition(t, p) /\ UNCHANGED work
    \/ Return(t)

-----------------------------------------------------------------------------
\* try_push(i): position = enqueue_.load()
PushBegin(t, i) ==
    /\ pc[t] = "idle"
    /\ Goto(t, "push_check")
    /\ SetPosition(t, enqueue_)
    /\ work' = [work EXCEPT ![t] = i]
    /\ UNCHANGED shared

\* Mutant of PushCheck: an occupied cell is not taken for a full ring.
PushCheckIgnoresFull(t) ==
    /\ pc[t] = "push_check"
    /\ Goto(t, "push_cas")
    /\ UNCHANGED <<shared, position, work>>

\* Load the cell's sequence and branch on its difference to the position:
\* claim the position, return false (full), or reload a stale position.
PushCheck(t) ==
    /\ pc[t] = "push_check"
    /\ LET s == sequence[Cell(position[t])]
       IN  \/ s = position[t] /\ Goto(t, "push_cas") /\ UNCHANGED <<position, work>>
           \/ s < position[t] /\ Return(t)
           \/ s > position[t] /\ Lose(t, "push_check", enqueue_)
    /\ UNCHANGED shared

\* compare_exchange_weak on enqueue_: it claims the position, or it fails
\* (perhaps spuriously) and leaves the value of enqueue_ in position.
PushClaim(t) ==
    /\ pc[t] = "push_cas"
    /\ enqueue_ = position[t]
    /\ enqueue_ < MaxTickets
    /\ enqueue_' = enqueue_ + 1
    /\ pushed' = [pushed EXCEPT ![enqueue_] = work[t]]
    /\ Goto(t, "push_write")
    /\ UNCHANGED <<dequeue_, sequence, item, position, work, popped>>

PushLose(t) ==
    /\ pc[t] = "push_cas"
    /\ Lose(t, "push_check", enqueue_)
    /\ UNCHANGED shared

\* cell.item = item
PushWrite(t) ==
    /\ pc[t] = "push_write"
    /\ item' = [item EXCEPT ![Cell(position[t])] = work[t]]
    /\ Goto(t, "push_publish")
    /\ UNCHANGED <<enqueue_, dequeue_, sequence, position, work, pushed, popped>>

\* cell.sequence.store(position + 1, release); return true
PushPublish(t) ==
    /\ pc[t] = "push_publish"
    /\ sequence' = [sequence EXCEPT ![Cell(position[t])] = position[t] + 1]
    /\ Return(t)
    /\ UNCHANGED <<enqueue_, dequeue_, item, pushed, popped>>

-----------------------------------------------------------------------------
\* try_pop(item): position = dequeue_.load()
PopBegin(t) ==
    /\ pc[t] = "idle"
    /\ Goto(t, "pop_check")
    /\ SetPosition(t, dequeue_)
    /\ UNCHANGED <<shared, work>>

\* Claim the position, return false (empty, or the push that owns the cell has
\* not published), or reload a stale position.
PopCheck(t) ==
    /\ pc[t] = "pop_check"
    /\ LET s == sequence[Cell(position[t])]
       IN  \/ s = position[t] + 1 /\ Goto(t, "pop_cas") /\ UNCHANGED <<position, work>>
           \/ s < position[t] + 1 /\ Return(t)
           \/ s > position[t] + 1 /\ Lose(t, "pop_check", dequeue_)
    /\ UNCHANGED shared

\* Mutant of PopClaim: the cell is given back before its record is read.
PopClaimFreesCell(t) ==
    /\ pc[t] = "pop_cas"
    /\ dequeue_ = position[t]
    /\ dequeue_' = dequeue_ + 1
    /\ sequence' = [sequence EXCEPT ![Cell(position[t])] =
                                        position[t] + Capacity]
    /\ Goto(t, "pop_read")
    /\ UNCHANGED <<enqueue_, item, position, work, pushed, popped>>

PopClaim(t) ==
    /\ pc[t] = "pop_cas"
    /\ dequeue_ = position[t]
    /\ dequeue_' = dequeue_ + 1
    /\ Goto(t, "pop_read")
    /\ UNCHANGED <<enqueue_, sequence, item, position, work, pushed, popped>>

PopLose(t) ==
    /\ pc[t] = "pop_cas"
    /\ Lose(t, "pop_check", dequeue_)
    /\ UNCHANGED shared

\* item = cell.item
PopRead(t) ==
    /\ pc[t] = "pop_read"
    /\ popped' = [popped EXCEPT ![position[t]] =
                                    Append(@, item[Cell(position[t])])]
    /\ Goto(t, "pop_release")
    /\ UNCHANGED <<enqueue_, dequeue_, sequence, item, position, work, pushed>>

\* Mutant of PopRelease: the cell is handed to the previous lap.
PopReleaseBackwards(t) ==
    /\ pc[t] = "pop_release"
    /\ sequence' = [sequence EXCEPT ![Cell(position[t])] =
                                        position[t] - Capacity]
    /\ Return(t)
    /\ UNCHANGED <<enqueue_, dequeue_, item, pushed, popped>>

\* cell.sequence.store(position + capacity_, release); return true
PopRelease(t) ==
    /\ pc[t] = "pop_release"
    /\ sequence' = [sequence EXCEPT ![Cell(position[t])] =
                                        position[t] + Capacity]
    /\ Return(t)
    /\ UNCHANGED <<enqueue_, dequeue_, item, pushed, popped>>

-----------------------------------------------------------------------------
Next == \E t \in Threads :
            \/ \E i \in Items : PushBegin(t, i)
            \/ PushCheck(t) \/ PushClaim(t) \/ PushLose(t)
            \/ PushWrite(t) \/ PushPublish(t)
            \/ PopBegin(t)
            \/ PopCheck(t) \/ PopClaim(t) \/ PopLose(t)
            \/ PopRead(t) \/ PopRelease(t)

Spec == Init /\ [][Next]_vars

-----------------------------------------------------------------------------
Pushing(t) == pc[t] \in {"push_write", "push_publish"}
Popping(t) == pc[t] \in {"pop_read", "pop_release"}

\* Type invariant of the ring and of the threads inside it.
TypeOK ==
    /\ enqueue_ \in 0 .. MaxTickets
    /\ dequeue_ \in Nat
    /\ sequence \in [Cells -> Nat]
    /\ item \in [Cells -> Items \cup {NoItem}]
    /\ pc \in [Threads -> Pcs]
    /\ position \in [Threads -> Nat]
    /\ work \in [Threads -> Items \cup {NoItem}]
    /\ pushed \in [Tickets -> Items \cup {NoItem}]
    /\ popped \in [Tickets -> Seq(Items \cup {NoItem})]

\* Two threads are never inside the same cell: the plain reads and writes of
\* cell.item in try_push and try_pop are free of data races.
CellExclusive ==
    \A t, u \in Threads :
        (t # u /\ (Pushing(t) \/ Popping(t)) /\ (Pushing(u) \/ Popping(u)))
            => Cell(position[t]) # Cell(position[u])

\* A pop hands out what was pushed under the same position and nothing else:
\* no accepted record is lost, overwritten, torn or handed out twice, and the
\* records leave in the order in which their positions were claimed.
Fifo == \A p \in Tickets :
            popped[p] = <<>> \/ (popped[p] = <<pushed[p]>> /\ pushed[p] # NoItem)

\* The ring never holds more than Capacity records, counting the claimed ones.
Bounded == dequeue_ <= enqueue_ /\ enqueue_ <= dequeue_ + Capacity

\* A cell either waits for the push of the position in its sequence, which the
\* consumers have not passed, or holds the record of the position before it,
\* whose next lap no producer has claimed.
Free(c) == /\ Cell(sequence[c]) = c
           /\ dequeue_ <= sequence[c]
           /\ sequence[c] < dequeue_ + Capacity

Published(c) == \E p \in Tickets :
    /\ sequence[c] = p + 1
    /\ Cell(p) = c
    /\ p < enqueue_
    /\ enqueue_ <= p + Capacity
    /\ item[c] = pushed[p]

\* A thread inside a cell owns the position that the cell's sequence names.
PushHolds(t) == Pushing(t) =>
    /\ position[t] < enqueue_
    /\ sequence[Cell(position[t])] = position[t]
    /\ pushed[position[t]] = work[t]
    /\ work[t] \in Items
    /\ pc[t] = "push_publish" => item[Cell(position[t])] = work[t]

PopHolds(t) == Popping(t) =>
    /\ position[t] < dequeue_
    /\ sequence[Cell(position[t])] = position[t] + 1
    /\ pc[t] = "pop_read" => popped[position[t]] = <<>>

\* Between the check and the compare-exchange the check can only go stale
\* together with the cursor, so a successful exchange still owns the cell.
CheckHolds(t) ==
    /\ pc[t] \in {"push_check", "push_cas"} =>
           work[t] \in Items /\ position[t] <= enqueue_
    /\ pc[t] \in {"pop_check", "pop_cas"} => position[t] <= dequeue_
    /\ (pc[t] = "push_cas" /\ position[t] = enqueue_) =>
           sequence[Cell(position[t])] = position[t]
    /\ (pc[t] = "pop_cas" /\ position[t] = dequeue_) =>
           sequence[Cell(position[t])] = position[t] + 1

Owners ==
    \A t, u \in Threads : t # u =>
        /\ (Pushing(t) /\ Pushing(u)) => position[t] # position[u]
        /\ (Popping(t) /\ Popping(u)) => position[t] # position[u]

History ==
    /\ \A p \in Tickets : p < enqueue_ => pushed[p] \in Items
    /\ \A p \in Tickets : p >= dequeue_ => popped[p] = <<>>

\* The inductive invariant behind CellExclusive, Fifo and Bounded.
RingInv ==
    /\ TypeOK
    /\ Bounded
    /\ \A c \in Cells : Free(c) \/ Published(c)
    /\ \A t \in Threads : PushHolds(t) /\ PopHolds(t) /\ CheckHolds(t)
    /\ Owners
    /\ History
    /\ Fifo
=============================================================================
