----------------------------- MODULE SyncQueue -----------------------------
(***************************************************************************)
(* The queue of internal/syncqueue/syncqueue.go: a slice under a mutex of  *)
(* its own (smu), and a condition variable with another mutex (cmu) that   *)
(* getters wait on.  Put holds smu and signals without holding cmu.        *)
(*                                                                         *)
(* Every critical section of smu is one step, since nothing else touches   *)
(* the slice.  A section of cmu is split where Put can interfere: cmu is   *)
(* held between a getter's look at the empty queue and its wait, which is  *)
(* the pc "empty", and is taken and released within one step otherwise.    *)
(* sync.Cond promises no order among waiters: Signal wakes any of them.    *)
(*                                                                         *)
(* context.AfterFunc starts a goroutine that broadcasts when the context   *)
(* is cancelled during the call, or at once when it was cancelled before.  *)
(***************************************************************************)
EXTENDS Naturals, Sequences, FiniteSets

CONSTANTS
    Items,        \* what may be put
    Getters,      \* goroutines that call Get, each with a context
    NoItem,
    MaxItems,     \* bound: items in the queue
    MaxBroadcasts \* bound: goroutines of AfterFunc that have yet to run

ASSUME ItemAssumption == NoItem \notin Items
ASSUME GetterAssumption == IsFiniteSet(Getters)
ASSUME QueueBounds == MaxItems \in Nat /\ MaxBroadcasts \in Nat

VARIABLES
    items,      \* the slice, its head first; the code has the head at the end
    pc,         \* where a getter is in Get
    got,        \* the item that Get returns
    cancelled,  \* the getter's context is cancelled
    broadcasts, \* how many goroutines of AfterFunc are about to broadcast
    deaf,       \* history: getters whose broadcast came before they waited
    missed      \* history: the signal of an item in the queue woke no taker

queueVars == <<items, pc, got, cancelled, broadcasts, deaf, missed>>

At(p) == {g \in Getters : pc[g] = p}

\* Nobody holds cmu.
Free == At("empty") = {}

Goto(g, p) == pc' = [pc EXCEPT ![g] = p]

QueueInit ==
    /\ items = <<>>
    /\ pc = [g \in Getters |-> "idle"]
    /\ got = [g \in Getters |-> NoItem]
    /\ cancelled = [g \in Getters |-> FALSE]
    /\ broadcasts = 0
    /\ deaf = {}
    /\ missed = FALSE

----------------------------------------------------------------------------
(* Put *)

\* Mutant: the getters are told only when the queue was empty.
PutWhenEmpty(v) ==
    /\ Len(items) < MaxItems
    /\ items' = Append(items, v)
    /\ \/ /\ items = <<>> /\ At("asleep") # {}
          /\ \E g \in At("asleep") : Goto(g, "woken")
       \/ (items # <<>> \/ At("asleep") = {}) /\ UNCHANGED pc
    /\ UNCHANGED <<got, cancelled, broadcasts, deaf, missed>>

\* Insert and signal.  The signal is lost on a getter that has found the queue
\* empty and does not wait yet, and on one whose context was cancelled and
\* announced before: it gives up without looking at the queue.
Put(v) ==
    /\ Len(items) < MaxItems
    /\ items' = Append(items, v)
    /\ \/ \E g \in At("asleep") :
             /\ Goto(g, "woken")
             /\ missed' = (missed \/ (cancelled[g] /\ broadcasts = 0))
       \/ /\ At("asleep") = {}
          /\ missed' = (missed \/ ~Free)
          /\ UNCHANGED pc
    /\ UNCHANGED <<got, cancelled, broadcasts, deaf>>

----------------------------------------------------------------------------
(* Get *)

\* Register the broadcast with a new context or with the one of the last call.
Call(g, fresh) ==
    /\ pc[g] = "idle"
    /\ Goto(g, "enter")
    /\ \/ /\ fresh \/ ~cancelled[g]
          /\ cancelled' = [cancelled EXCEPT ![g] = FALSE]
          /\ UNCHANGED broadcasts
       \/ /\ ~fresh /\ cancelled[g] /\ broadcasts < MaxBroadcasts
          /\ broadcasts' = broadcasts + 1
          /\ UNCHANGED cancelled
    /\ UNCHANGED <<items, got, deaf, missed>>

\* GetNoWait under cmu: the head of the queue, or nothing.
Take(g) ==
    /\ items # <<>>
    /\ items' = Tail(items)
    /\ got' = [got EXCEPT ![g] = Head(items)]
    /\ Goto(g, "item")
    /\ missed' = (missed /\ items' # <<>>)
FindEmpty(g) ==
    /\ items = <<>>
    /\ Goto(g, "empty")
    /\ UNCHANGED <<items, got, missed>>
GiveUp(g) ==
    /\ Goto(g, "aborted")
    /\ UNCHANGED <<items, got, missed>>

\* Mutants: the context is looked at after an item was taken, or not at all;
\* the zero value is returned instead of the item.
LookLate(g) ==
    /\ pc[g] \in {"enter", "woken"} /\ Free
    /\ \/ Take(g) /\ ~cancelled[g]
       \/ /\ items # <<>> /\ cancelled[g]
          /\ items' = Tail(items) /\ Goto(g, "aborted")
          /\ UNCHANGED <<got, missed>>
       \/ FindEmpty(g)
    /\ UNCHANGED <<cancelled, broadcasts, deaf>>
LookNoContext(g) ==
    /\ pc[g] \in {"enter", "woken"} /\ Free
    /\ Take(g) \/ FindEmpty(g)
    /\ UNCHANGED <<cancelled, broadcasts, deaf>>
LookZero(g) ==
    /\ pc[g] \in {"enter", "woken"} /\ Free
    /\ \/ /\ items # <<>>
          /\ items' = Tail(items) /\ Goto(g, "item")
          /\ UNCHANGED <<got, missed>>
       \/ FindEmpty(g)
    /\ UNCHANGED <<cancelled, broadcasts, deaf>>

\* A getter that is about to look at the queue.
OnTheWay(g) == pc[g] = "enter" \/ (pc[g] = "woken" /\ ~cancelled[g])

\* The getter has locked cmu, at the start or on its way out of Wait.  Only
\* in the second case does it look at the context.
Look(g) ==
    /\ Free
    /\ \/ /\ OnTheWay(g)
          /\ Take(g) \/ FindEmpty(g)
       \/ pc[g] = "woken" /\ cancelled[g] /\ GiveUp(g)
    /\ UNCHANGED <<cancelled, broadcasts, deaf>>

\* cond.Wait: join the waiters and release cmu.
Sleep(g) ==
    /\ pc[g] = "empty"
    /\ Goto(g, "asleep")
    /\ UNCHANGED <<items, got, cancelled, broadcasts, deaf, missed>>

\* Get returns, after it has released cmu and unregistered the broadcast.
Return(g) ==
    /\ pc[g] \in {"item", "aborted"}
    /\ Goto(g, "idle")
    /\ got' = [got EXCEPT ![g] = NoItem]
    /\ deaf' = deaf \ {g}
    /\ UNCHANGED <<items, cancelled, broadcasts, missed>>

----------------------------------------------------------------------------
(* The context and the goroutine of AfterFunc *)

\* The owner of the context cancels it.  The error is set and the goroutine
\* started in one critical section of the context.
Cancel(g) ==
    /\ ~cancelled[g]
    /\ cancelled' = [cancelled EXCEPT ![g] = TRUE]
    /\ IF pc[g] = "idle" THEN UNCHANGED broadcasts
       ELSE broadcasts < MaxBroadcasts /\ broadcasts' = broadcasts + 1
    /\ UNCHANGED <<items, pc, got, deaf, missed>>

Wake(S) == pc' = [g \in Getters |-> IF g \in S THEN "woken" ELSE pc[g]]

Broadcast ==
    /\ broadcasts > 0 /\ Free
    /\ broadcasts' = broadcasts - 1
    /\ Wake(At("asleep"))
    /\ deaf' = deaf \cup {g \in At("enter") : cancelled[g]}
    /\ UNCHANGED <<items, got, cancelled, missed>>

----------------------------------------------------------------------------
Getter(g) == Look(g) \/ Sleep(g)

QueueNext ==
    \/ \E v \in Items : Put(v)
    \/ \E g \in Getters :
          \/ \E fresh \in BOOLEAN : Call(g, fresh)
          \/ Getter(g) \/ Return(g) \/ Cancel(g)
    \/ Broadcast

QueueSpec == QueueInit /\ [][QueueNext]_queueVars

\* Goroutines run, and a mutex that is free again and again is had in the
\* end: sync.Mutex hands itself to a waiter it has kept for a millisecond.
QueueFairness ==
    /\ \A g \in Getters : SF_queueVars(Look(g)) /\ WF_queueVars(Sleep(g))
    /\ SF_queueVars(Broadcast)

LiveQueueSpec == QueueSpec /\ QueueFairness

----------------------------------------------------------------------------
(* Properties *)

QueuePCs == {"idle", "enter", "empty", "asleep", "woken", "item", "aborted"}

\* Every variable keeps to its type, and Get returns an item exactly when it
\* returns no error.
QueueTypeOK ==
    /\ items \in Seq(Items) /\ Len(items) <= MaxItems
    /\ pc \in [Getters -> QueuePCs]
    /\ got \in [Getters -> Items \cup {NoItem}]
    /\ \A g \in Getters : pc[g] = "item" <=> got[g] # NoItem
    /\ cancelled \in [Getters -> BOOLEAN]
    /\ broadcasts \in 0..MaxBroadcasts
    /\ deaf \subseteq Getters
    /\ missed \in BOOLEAN

\* While items are in the queue and a getter waits, another is on its way to
\* take one or everybody is about to be woken, also when the getter that was
\* woken for an item has given up; except after a signal was missed.
Stranded == items # <<>> /\ At("asleep") # {}
            /\ broadcasts = 0 /\ \A g \in Getters : ~OnTheWay(g)
NoneStranded == Stranded => missed

\* The argument behind it: there are never more items than getters on their
\* way, while one waits or is about to and no broadcast is due.
EnoughTakers ==
    At("asleep") \cup At("empty") # {} /\ broadcasts = 0 /\ ~missed =>
        Len(items) <= Cardinality({g \in Getters : OnTheWay(g)})

\* The queue implements the abstract one: items leave in the order they came,
\* each to one getter, and none is lost when a context is cancelled.
Outcome(g) ==
    CASE pc[g] = "idle" -> "none"
      [] pc[g] \in {"item", "aborted"} -> pc[g]
      [] OTHER -> "waiting"
Fifo == INSTANCE FifoQueue WITH outcome <- [g \in Getters |-> Outcome(g)]
ImplementsFifo == Fifo!Spec

\* A waiting getter and an item find each other, unless a signal was missed.
ItemReachesGetter ==
    items # <<>> /\ At("asleep") # {} ~> items = <<>> \/ At("asleep") = {} \/ missed

\* A getter whose context is cancelled while it waits returns with an error.
CancelledGetterReturns ==
    \A g \in Getters :
        pc[g] = "asleep" /\ cancelled[g] /\ g \notin deaf ~> pc[g] = "aborted"

\* Get returns in both cases.
GetterReturns == ItemReachesGetter /\ CancelledGetterReturns
=============================================================================
