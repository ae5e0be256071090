----------------------------- MODULE FifoQueue -----------------------------
(***************************************************************************)
(* What the package documentation of internal/syncqueue promises: "an      *)
(* unlimited FIFO queue which can be used to synchronize goroutines".  A   *)
(* getter waits until it receives the item at the head of the queue, or    *)
(* gives up because its context was cancelled.                             *)
(***************************************************************************)
EXTENDS Naturals, Sequences

CONSTANTS Items, Getters, NoItem

VARIABLES
    items,     \* the queue, its head first
    outcome,   \* of every getter's call: "none", "waiting", "item", "aborted"
    got,       \* the item a getter's call returns
    cancelled  \* the getter's context is cancelled

queueVars == <<items, outcome, got, cancelled>>

Init ==
    /\ items = <<>>
    /\ outcome = [g \in Getters |-> "none"]
    /\ got = [g \in Getters |-> NoItem]
    /\ cancelled = [g \in Getters |-> FALSE]

Put(v) ==
    /\ items' = Append(items, v)
    /\ UNCHANGED <<outcome, got, cancelled>>

\* A getter calls with the context it used before or with a new one.
Ask(g) ==
    /\ outcome[g] = "none"
    /\ outcome' = [outcome EXCEPT ![g] = "waiting"]
    /\ \/ UNCHANGED cancelled
       \/ cancelled' = [cancelled EXCEPT ![g] = FALSE]
    /\ UNCHANGED <<items, got>>

Deliver(g) ==
    /\ outcome[g] = "waiting" /\ items # <<>>
    /\ outcome' = [outcome EXCEPT ![g] = "item"]
    /\ got' = [got EXCEPT ![g] = Head(items)]
    /\ items' = Tail(items)
    /\ UNCHANGED cancelled

Abort(g) ==
    /\ outcome[g] = "waiting" /\ cancelled[g]
    /\ outcome' = [outcome EXCEPT ![g] = "aborted"]
    /\ UNCHANGED <<items, got, cancelled>>

Return(g) ==
    /\ outcome[g] \in {"item", "aborted"}
    /\ outcome' = [outcome EXCEPT ![g] = "none"]
    /\ got' = [got EXCEPT ![g] = NoItem]
    /\ UNCHANGED <<items, cancelled>>

Cancel(g) ==
    /\ cancelled' = [cancelled EXCEPT ![g] = TRUE]
    /\ UNCHANGED <<items, outcome, got>>

Next ==
    \/ \E v \in Items : Put(v)
    \/ \E g \in Getters : Ask(g) \/ Deliver(g) \/ Abort(g) \/ Return(g) \/ Cancel(g)

Spec == Init /\ [][Next]_queueVars
=============================================================================
