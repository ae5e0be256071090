-------------------------- MODULE SyncQueueProofs --------------------------
(* Proofs about SyncQueue, for any items, getters and bounds. *)
EXTENDS SyncQueue, FiniteSetTheorems, TLAPS

----------------------------------------------------------------------------
(* Sequences *)

\* Head and tail of a queue that is not empty,
LEMMA TailTyped ==
    ASSUME NEW S, NEW s \in Seq(S), s # <<>>
    PROVE  /\ Head(s) \in S /\ Tail(s) \in Seq(S)
           /\ Len(Tail(s)) = Len(s) - 1 /\ Len(s) > 0
  OBVIOUS

\* ... and a queue with one more item.
LEMMA AppendTyped ==
    ASSUME NEW S, NEW s \in Seq(S), NEW x \in S
    PROVE  /\ Append(s, x) \in Seq(S) /\ Len(Append(s, x)) = Len(s) + 1
  OBVIOUS

----------------------------------------------------------------------------
(* Type correctness *)

\* A getter moves: what its pc and those of the others are.
LEMMA Moved ==
    ASSUME pc \in [Getters -> QueuePCs], NEW g \in Getters, NEW p \in QueuePCs, Goto(g, p)
    PROVE  /\ pc' \in [Getters -> QueuePCs]
           /\ pc'[g] = p /\ \A h \in Getters \ {g} : pc'[h] = pc[h]
  BY DEF Goto

\* The places of a getter.
LEMMA QueuePCNames ==
    {"idle", "enter", "empty", "asleep", "woken", "item", "aborted"} \subseteq QueuePCs
  BY DEF QueuePCs

\* Every state of the queue is well typed, and Get returns an item exactly
\* when it returns no error.
THEOREM QueueTypeCorrect == QueueSpec => []QueueTypeOK
<1>1. QueueInit => QueueTypeOK
  <2>. SUFFICES ASSUME QueueInit PROVE QueueTypeOK
    OBVIOUS
  <2>1. items \in Seq(Items) /\ Len(items) <= MaxItems
    BY QueueBounds DEF QueueInit
  <2>2. \A g \in Getters : pc[g] = "item" <=> got[g] # NoItem
    BY DEF QueueInit
  <2>3. broadcasts \in 0..MaxBroadcasts
    BY QueueBounds DEF QueueInit
  <2>. QED
    BY <2>1, <2>2, <2>3 DEF QueueInit, QueueTypeOK, QueuePCs
<1>2. QueueTypeOK /\ [QueueNext]_queueVars => QueueTypeOK'
  <2>. SUFFICES ASSUME QueueTypeOK, [QueueNext]_queueVars PROVE QueueTypeOK'
    OBVIOUS
  <2>0. /\ pc \in [Getters -> QueuePCs] /\ got \in [Getters -> Items \cup {NoItem}]
        /\ items \in Seq(Items) /\ Len(items) <= MaxItems
        /\ \A g \in Getters : pc[g] = "item" <=> got[g] # NoItem
        /\ cancelled \in [Getters -> BOOLEAN] /\ missed \in BOOLEAN
        /\ broadcasts \in Nat /\ broadcasts <= MaxBroadcasts
    BY QueueBounds DEF QueueTypeOK
  <2>1. ASSUME NEW v \in Items, Put(v) PROVE QueueTypeOK'
    <3>1. items' \in Seq(Items) /\ Len(items') <= MaxItems
      <4>1. items' = Append(items, v) /\ Len(items) < MaxItems
        BY <2>1 DEF Put
      <4>. QED
        BY <2>0, <4>1, AppendTyped, QueueBounds
    <3>2. ASSUME NEW g \in At("asleep"), Goto(g, "woken"),
                 missed' = (missed \/ (cancelled[g] /\ broadcasts = 0))
          PROVE  QueueTypeOK'
      <4>1. g \in Getters /\ pc[g] = "asleep"
        BY DEF At
      <4>2. pc' \in [Getters -> QueuePCs] /\ pc'[g] = "woken"
            /\ \A h \in Getters \ {g} : pc'[h] = pc[h]
        BY <2>0, <3>2, <4>1, Moved, QueuePCNames
      <4>3. \A h \in Getters : pc'[h] = "item" <=> got[h] # NoItem
        BY <2>0, <4>1, <4>2
      <4>4. missed' \in BOOLEAN
        BY <3>2
      <4>. QED
        BY <2>1, <3>1, <4>2, <4>3, <4>4 DEF Put, QueueTypeOK
    <3>3. ASSUME UNCHANGED pc, missed' = (missed \/ ~Free) PROVE QueueTypeOK'
      BY <2>1, <3>1, <3>3 DEF Put, QueueTypeOK
    <3>4. \/ \E g \in At("asleep") :
                  Goto(g, "woken") /\ missed' = (missed \/ (cancelled[g] /\ broadcasts = 0))
          \/ UNCHANGED pc /\ missed' = (missed \/ ~Free)
      BY <2>1, Zenon DEF Put
    <3>. QED
      BY <3>2, <3>3, <3>4, Zenon
  <2>2. ASSUME NEW g \in Getters, NEW fresh \in BOOLEAN, Call(g, fresh) PROVE QueueTypeOK'
    <3>1. pc' \in [Getters -> QueuePCs] /\ pc'[g] = "enter" /\ pc[g] = "idle"
          /\ \A h \in Getters \ {g} : pc'[h] = pc[h]
      BY <2>0, <2>2, Moved, QueuePCNames DEF Call
    <3>2. \A h \in Getters : pc'[h] = "item" <=> got'[h] # NoItem
      BY <2>0, <2>2, <3>1 DEF Call
    <3>3. broadcasts' \in 0..MaxBroadcasts
      BY <2>0, <2>2, QueueBounds DEF Call
    <3>4. cancelled' \in [Getters -> BOOLEAN]
      BY <2>0, <2>2 DEF Call
    <3>. QED
      BY <2>2, <3>1, <3>2, <3>3, <3>4 DEF Call, QueueTypeOK
  <2>3. ASSUME NEW g \in Getters, Look(g) PROVE QueueTypeOK'
    <3>1. CASE Take(g)
      <4>1. /\ items' \in Seq(Items) /\ Len(items') <= MaxItems
            /\ Head(items) \in Items
        <5>1. items # <<>> /\ items' = Tail(items)
          BY <3>1 DEF Take
        <5>. QED
          BY <2>0, <5>1, TailTyped, QueueBounds
      <4>2. pc' \in [Getters -> QueuePCs] /\ pc'[g] = "item"
            /\ \A h \in Getters \ {g} : pc'[h] = pc[h]
        BY <2>0, <3>1, Moved, QueuePCNames DEF Take
      <4>3. /\ got' \in [Getters -> Items \cup {NoItem}]
            /\ \A h \in Getters : pc'[h] = "item" <=> got'[h] # NoItem
        BY <2>0, <3>1, <4>1, <4>2, ItemAssumption DEF Take
      <4>4. missed' \in BOOLEAN
        BY <3>1 DEF Take
      <4>. QED
        BY <2>3, <4>1, <4>2, <4>3, <4>4 DEF Look, QueueTypeOK
    <3>2. ASSUME NEW p \in {"empty", "aborted"}, Goto(g, p),
                 pc[g] # "item", UNCHANGED <<items, got, missed>>
          PROVE  QueueTypeOK'
      <4>1. pc' \in [Getters -> QueuePCs] /\ pc'[g] = p
            /\ \A h \in Getters \ {g} : pc'[h] = pc[h]
        BY <2>0, <3>2, Moved, QueuePCNames
      <4>2. \A h \in Getters : pc'[h] = "item" <=> got'[h] # NoItem
        BY <2>0, <3>2, <4>1
      <4>. QED
        BY <2>3, <3>2, <4>1, <4>2 DEF Look, QueueTypeOK
    <3>3. CASE FindEmpty(g) /\ OnTheWay(g)
      BY <3>2, <3>3 DEF FindEmpty, OnTheWay
    <3>4. CASE GiveUp(g) /\ pc[g] = "woken"
      BY <3>2, <3>4 DEF GiveUp
    <3>. QED
      BY <2>3, <3>1, <3>3, <3>4 DEF Look
  <2>4. ASSUME NEW g \in Getters, Sleep(g) PROVE QueueTypeOK'
    <3>1. pc' \in [Getters -> QueuePCs] /\ pc'[g] = "asleep" /\ pc[g] = "empty"
          /\ \A h \in Getters \ {g} : pc'[h] = pc[h]
      BY <2>0, <2>4, Moved, QueuePCNames DEF Sleep
    <3>2. \A h \in Getters : pc'[h] = "item" <=> got'[h] # NoItem
      BY <2>0, <2>4, <3>1 DEF Sleep
    <3>. QED
      BY <2>4, <3>1, <3>2 DEF Sleep, QueueTypeOK
  <2>5. ASSUME NEW g \in Getters, Return(g) PROVE QueueTypeOK'
    <3>1. pc' \in [Getters -> QueuePCs] /\ pc'[g] = "idle"
          /\ \A h \in Getters \ {g} : pc'[h] = pc[h]
      BY <2>0, <2>5, Moved, QueuePCNames DEF Return
    <3>2. /\ got' \in [Getters -> Items \cup {NoItem}]
          /\ \A h \in Getters : pc'[h] = "item" <=> got'[h] # NoItem
      BY <2>0, <2>5, <3>1 DEF Return
    <3>. QED
      BY <2>5, <3>1, <3>2 DEF Return, QueueTypeOK
  <2>6. ASSUME NEW g \in Getters, Cancel(g) PROVE QueueTypeOK'
    <3>1. broadcasts' \in 0..MaxBroadcasts
      BY <2>0, <2>6, QueueBounds DEF Cancel
    <3>. QED
      BY <2>6, <3>1 DEF Cancel, QueueTypeOK
  <2>7. CASE Broadcast
    <3>1. /\ pc' \in [Getters -> QueuePCs]
          /\ \A h \in Getters : pc'[h] = "item" <=> pc[h] = "item"
      BY <2>0, <2>7, QueuePCNames DEF Broadcast, Wake, At
    <3>2. broadcasts' \in 0..MaxBroadcasts
      BY <2>0, <2>7, QueueBounds DEF Broadcast
    <3>3. deaf' \subseteq Getters
      BY <2>7 DEF Broadcast, QueueTypeOK, At
    <3>. QED
      BY <2>7, <3>1, <3>2, <3>3 DEF Broadcast, QueueTypeOK
  <2>8. CASE UNCHANGED queueVars
    BY <2>8 DEF queueVars, QueueTypeOK
  <2>. QED
    BY <2>1, <2>2, <2>3, <2>4, <2>5, <2>6, <2>7, <2>8 DEF QueueNext, Getter
<1>. QED
  BY <1>1, <1>2, PTL DEF QueueSpec

----------------------------------------------------------------------------
(* No item is left behind while a getter waits *)

Takers == {g \in Getters : OnTheWay(g)}
Waiters == At("asleep") \cup At("empty")

\* There are finitely many takers, and one more or less counts as one.
LEMMA TakersCount ==
    /\ IsFiniteSet(Takers) /\ Cardinality(Takers) \in Nat
    /\ IsFiniteSet(Takers') /\ Cardinality(Takers') \in Nat
    /\ \A g : g \in Takers => Cardinality(Takers \ {g}) = Cardinality(Takers) - 1
    /\ \A g : g \notin Takers => Cardinality(Takers \cup {g}) = Cardinality(Takers) + 1
<1>1. Takers \subseteq Getters /\ Takers' \subseteq Getters
  BY DEF Takers
<1>2. IsFiniteSet(Takers) /\ IsFiniteSet(Takers')
  BY <1>1, GetterAssumption, FS_Subset
<1>3. Cardinality(Takers) \in Nat /\ Cardinality(Takers') \in Nat
  BY <1>2, FS_CardinalityType
<1>. QED
  BY <1>2, <1>3, FS_RemoveElement, FS_AddElement

\* Every step of the queue keeps the takers enough for its items.
LEMMA EnoughTakersStep ==
    ASSUME QueueTypeOK, EnoughTakers, [QueueNext]_queueVars
    PROVE  EnoughTakers'
<1>0. /\ pc \in [Getters -> QueuePCs] /\ items \in Seq(Items)
      /\ missed \in BOOLEAN /\ broadcasts \in Nat /\ Len(items) \in Nat
  BY QueueBounds DEF QueueTypeOK
<1>01. EnoughTakers <=>
          (Waiters # {} /\ broadcasts = 0 /\ ~missed => Len(items) <= Cardinality(Takers))
  BY DEF EnoughTakers, Takers, Waiters
<1>02. SUFFICES ASSUME Waiters' # {}, broadcasts' = 0, ~missed'
                PROVE  Len(items') <= Cardinality(Takers')
  BY DEF EnoughTakers, Takers, Waiters
<1>03. ASSUME Takers' = Takers, Waiters' = Waiters, UNCHANGED <<items, broadcasts, missed>>
       PROVE  Len(items') <= Cardinality(Takers')
  BY <1>01, <1>02, <1>03
<1>1. ASSUME NEW v \in Items, Put(v) PROVE Len(items') <= Cardinality(Takers')
  <2>1. Len(items') = Len(items) + 1 /\ broadcasts' = broadcasts /\ cancelled' = cancelled
    BY <1>0, <1>1, AppendTyped DEF Put
  <2>2. ASSUME NEW g \in At("asleep"), Goto(g, "woken"),
               missed' = (missed \/ (cancelled[g] /\ broadcasts = 0))
        PROVE  Len(items') <= Cardinality(Takers')
    <3>1. ~missed /\ ~cancelled[g]
      BY <1>02, <2>1, <2>2
    <3>2. g \in Getters /\ pc[g] = "asleep" /\ Waiters # {}
      BY DEF At, Waiters
    <3>3. pc'[g] = "woken" /\ \A h \in Getters \ {g} : pc'[h] = pc[h]
      BY <1>0, <2>2, <3>2, Moved, QueuePCNames
    <3>4. g \notin Takers /\ Takers' = Takers \cup {g}
      BY <2>1, <3>1, <3>2, <3>3 DEF Takers, OnTheWay
    <3>. QED
      BY <1>0, <1>01, <1>02, <2>1, <3>1, <3>2, <3>4, TakersCount
  <2>3. ASSUME At("asleep") = {}, UNCHANGED pc, missed' = (missed \/ ~Free) PROVE FALSE
    BY <1>02, <2>3 DEF Waiters, Free, At
  <2>4. \/ \E g \in At("asleep") :
                Goto(g, "woken") /\ missed' = (missed \/ (cancelled[g] /\ broadcasts = 0))
        \/ At("asleep") = {} /\ UNCHANGED pc /\ missed' = (missed \/ ~Free)
    BY <1>1, Zenon DEF Put
  <2>. QED
    BY <2>2, <2>3, <2>4, Zenon
<1>2. ASSUME NEW g \in Getters, NEW fresh \in BOOLEAN, Call(g, fresh)
      PROVE  Len(items') <= Cardinality(Takers')
  <2>1. /\ pc[g] = "idle" /\ pc'[g] = "enter"
        /\ \A h \in Getters \ {g} : pc'[h] = pc[h]
    BY <1>0, <1>2, Moved, QueuePCNames DEF Call
  <2>2. \A h \in Getters \ {g} : cancelled'[h] = cancelled[h]
    BY <1>2 DEF Call, QueueTypeOK
  <2>3. broadcasts = 0 /\ ~missed /\ items' = items
    BY <1>0, <1>02, <1>2 DEF Call
  <2>4. Waiters' = Waiters
    BY <2>1 DEF Waiters, At
  <2>5. g \notin Takers /\ Takers' = Takers \cup {g}
    BY <2>1, <2>2 DEF Takers, OnTheWay
  <2>. QED
    BY <1>0, <1>01, <1>02, <2>3, <2>4, <2>5, TakersCount
<1>3. ASSUME NEW g \in Getters, Look(g) PROVE Len(items') <= Cardinality(Takers')
  <2>0. UNCHANGED <<cancelled, broadcasts>>
    BY <1>3 DEF Look
  <2>1. CASE Take(g) /\ OnTheWay(g)
    <3>1. items # <<>> /\ items' = Tail(items) /\ missed' = (missed /\ items' # <<>>)
      BY <2>1 DEF Take
    <3>2. Len(items') = Len(items) - 1
      BY <1>0, <3>1, TailTyped
    <3>3. pc'[g] = "item" /\ pc[g] \in {"enter", "woken"}
          /\ \A h \in Getters \ {g} : pc'[h] = pc[h]
      BY <1>0, <2>1, Moved, QueuePCNames DEF Take, OnTheWay
    <3>4. Waiters' = Waiters
      BY <3>3 DEF Waiters, At
    <3>5. g \in Takers /\ Takers' = Takers \ {g}
      BY <2>0, <2>1, <3>3 DEF Takers, OnTheWay
    <3>6. CASE missed
      <4>1. Len(items') = 0
        BY <1>02, <3>1, <3>6
      <4>. QED
        BY <4>1, TakersCount
    <3>7. CASE ~missed
      BY <1>0, <1>01, <1>02, <2>0, <3>2, <3>4, <3>5, <3>7, TakersCount
    <3>. QED
      BY <3>6, <3>7
  <2>2. CASE FindEmpty(g)
    <3>1. Len(items') = 0
      BY <2>2 DEF FindEmpty
    <3>. QED
      BY <3>1, TakersCount
  <2>3. CASE GiveUp(g) /\ pc[g] = "woken" /\ cancelled[g]
    <3>1. pc'[g] = "aborted" /\ \A h \in Getters \ {g} : pc'[h] = pc[h]
      BY <1>0, <2>3, Moved, QueuePCNames DEF GiveUp
    <3>2. Takers' = Takers /\ Waiters' = Waiters
      BY <2>0, <2>3, <3>1 DEF Takers, OnTheWay, Waiters, At
    <3>. QED
      BY <1>03, <2>0, <2>3, <3>2 DEF GiveUp
  <2>. QED
    BY <1>3, <2>1, <2>2, <2>3 DEF Look
<1>4. ASSUME NEW g \in Getters, Sleep(g) PROVE Len(items') <= Cardinality(Takers')
  <2>1. pc[g] = "empty" /\ pc'[g] = "asleep" /\ \A h \in Getters \ {g} : pc'[h] = pc[h]
    BY <1>0, <1>4, Moved, QueuePCNames DEF Sleep
  <2>2. Takers' = Takers
    BY <1>4, <2>1 DEF Sleep, Takers, OnTheWay
  <2>3. Waiters # {}
    BY <2>1 DEF Waiters, At
  <2>. QED
    BY <1>01, <1>02, <1>4, <2>2, <2>3 DEF Sleep
<1>5. ASSUME NEW g \in Getters, Return(g) PROVE Len(items') <= Cardinality(Takers')
  <2>1. pc[g] \in {"item", "aborted"} /\ pc'[g] = "idle"
        /\ \A h \in Getters \ {g} : pc'[h] = pc[h]
    BY <1>0, <1>5, Moved, QueuePCNames DEF Return
  <2>2. Takers' = Takers /\ Waiters' = Waiters
    BY <1>5, <2>1 DEF Return, Takers, OnTheWay, Waiters, At
  <2>. QED
    BY <1>03, <1>5, <2>2 DEF Return
<1>6. ASSUME NEW g \in Getters, Cancel(g) PROVE Len(items') <= Cardinality(Takers')
  <2>1. pc[g] = "idle" /\ UNCHANGED <<items, pc, broadcasts, missed>>
    BY <1>0, <1>02, <1>6 DEF Cancel
  <2>2. \A h \in Getters \ {g} : cancelled'[h] = cancelled[h]
    BY <1>6 DEF Cancel, QueueTypeOK
  <2>3. Takers' = Takers /\ Waiters' = Waiters
    BY <2>1, <2>2 DEF Takers, OnTheWay, Waiters, At
  <2>. QED
    BY <1>03, <2>1, <2>3
<1>7. CASE Broadcast
  <2>1. At("empty") = {} /\ pc' = [g \in Getters |-> IF g \in At("asleep") THEN "woken" ELSE pc[g]]
    BY <1>7 DEF Broadcast, Wake, Free
  <2>2. Waiters' = {}
    BY <2>1 DEF Waiters, At
  <2>. QED
    BY <1>02, <2>2
<1>8. CASE UNCHANGED queueVars
  <2>1. Takers' = Takers /\ Waiters' = Waiters /\ UNCHANGED <<items, broadcasts, missed>>
    BY <1>8 DEF queueVars, Takers, OnTheWay, Waiters, At
  <2>. QED
    BY <1>03, <2>1
<1>. QED
  BY <1>1, <1>2, <1>3, <1>4, <1>5, <1>6, <1>7, <1>8 DEF QueueNext, Getter

\* An item is never left in the queue with a getter waiting and nobody about
\* to take it, for any number of getters, unless a signal was missed.
THEOREM ItemsAreTaken == QueueSpec => []NoneStranded
<1>1. QueueInit => EnoughTakers
  <2>1. QueueInit => At("asleep") \cup At("empty") = {}
    BY DEF QueueInit, At
  <2>. QED
    BY <2>1 DEF EnoughTakers
<1>2. QueueTypeOK /\ EnoughTakers /\ [QueueNext]_queueVars => EnoughTakers'
  BY EnoughTakersStep
<1>3. QueueTypeOK /\ EnoughTakers => NoneStranded
  <2>. SUFFICES ASSUME QueueTypeOK, EnoughTakers, Stranded, ~missed PROVE FALSE
    BY DEF NoneStranded
  <2>1. {g \in Getters : OnTheWay(g)} = {} /\ items # <<>>
        /\ At("asleep") \cup At("empty") # {} /\ broadcasts = 0
    BY DEF Stranded
  <2>2. Len(items) <= 0
    BY <2>1, FS_EmptySet DEF EnoughTakers
  <2>. QED
    BY <2>1, <2>2 DEF QueueTypeOK
<1>. QED
  BY <1>1, <1>2, <1>3, QueueTypeCorrect, PTL DEF QueueSpec

----------------------------------------------------------------------------
(* The queue implements the abstract one *)

\* What a getter is doing decides its outcome in the abstract queue.
LEMMA OutcomeNames ==
    ASSUME NEW g \in Getters
    PROVE  /\ pc[g] = "idle" => Outcome(g) = "none"
           /\ pc[g] \in {"item", "aborted"} => Outcome(g) = pc[g]
           /\ pc[g] \in {"enter", "empty", "asleep", "woken"} => Outcome(g) = "waiting"
           /\ pc'[g] = "idle" => Outcome(g)' = "none"
           /\ pc'[g] \in {"item", "aborted"} => Outcome(g)' = pc'[g]
           /\ pc'[g] \in {"enter", "empty", "asleep", "woken"} => Outcome(g)' = "waiting"
           /\ pc'[g] = pc[g] => Outcome(g)' = Outcome(g)
  BY DEF Outcome

\* The getters' outcomes as the abstract queue sees them.
O == [g \in Getters |-> Outcome(g)]

\* A step of one getter changes one outcome.
LEMMA OutcomeMoved ==
    ASSUME NEW g \in Getters, \A h \in Getters \ {g} : pc'[h] = pc[h]
    PROVE  O' = [O EXCEPT ![g] = Outcome(g)']
<1>1. \A h \in Getters \ {g} : Outcome(h)' = Outcome(h)
  BY OutcomeNames
<1>. QED
  BY <1>1 DEF O

\* Every step of the queue is a step of the abstract queue or none at all:
\* items leave in the order they came, each to one getter, and none is lost.
THEOREM QueueIsFifo == QueueSpec => ImplementsFifo
<1>1. QueueInit => Fifo!Init
  <2>1. QueueInit => O = [g \in Getters |-> "none"]
    BY OutcomeNames DEF QueueInit, O
  <2>. QED
    BY <2>1 DEF QueueInit, Fifo!Init, O
<1>2. QueueTypeOK /\ [QueueNext]_queueVars => [Fifo!Next]_(Fifo!queueVars)
  <2>. SUFFICES ASSUME QueueTypeOK, [QueueNext]_queueVars
                PROVE  Fifo!Next \/ UNCHANGED <<items, O, got, cancelled>>
    BY DEF Fifo!queueVars, O
  <2>0. pc \in [Getters -> QueuePCs] /\ cancelled \in [Getters -> BOOLEAN]
    BY DEF QueueTypeOK
  <2>01. \A g \in Getters : pc[g] \in QueuePCs
    BY <2>0
  <2>1. ASSUME NEW v \in Items, Put(v) PROVE Fifo!Next
    <3>1. \A g \in Getters : Outcome(g)' = Outcome(g)
      <4>1. ASSUME NEW g \in At("asleep"), Goto(g, "woken")
            PROVE  \A h \in Getters : Outcome(h)' = Outcome(h)
        <5>1. g \in Getters /\ pc[g] = "asleep"
          BY DEF At
        <5>2. pc'[g] = "woken" /\ \A h \in Getters \ {g} : pc'[h] = pc[h]
          BY <2>0, <4>1, <5>1, Moved, QueuePCNames
        <5>. QED
          BY <5>1, <5>2, OutcomeNames
      <4>2. ASSUME UNCHANGED pc PROVE \A h \in Getters : Outcome(h)' = Outcome(h)
        BY <4>2, OutcomeNames
      <4>3. (\E g \in At("asleep") : Goto(g, "woken")) \/ UNCHANGED pc
        BY <2>1, Zenon DEF Put
      <4>. QED
        BY <4>1, <4>2, <4>3, Zenon
    <3>2. O' = O
      BY <3>1 DEF O
    <3>3. Fifo!Put(v)
      BY <2>1, <3>2 DEF Put, Fifo!Put, O
    <3>. QED
      BY <3>3 DEF Fifo!Next
  <2>2. ASSUME NEW g \in Getters, NEW fresh \in BOOLEAN, Call(g, fresh) PROVE Fifo!Next
    <3>1. pc[g] = "idle" /\ pc'[g] = "enter" /\ \A h \in Getters \ {g} : pc'[h] = pc[h]
      BY <2>0, <2>2, Moved, QueuePCNames DEF Call
    <3>2. O[g] = "none" /\ O' = [O EXCEPT ![g] = "waiting"]
      BY <3>1, OutcomeMoved, OutcomeNames DEF O
    <3>3. Fifo!Ask(g)
      BY <2>2, <3>2 DEF Call, Fifo!Ask, O
    <3>. QED
      BY <3>3 DEF Fifo!Next
  <2>3. ASSUME NEW g \in Getters, Look(g)
        PROVE  Fifo!Next \/ UNCHANGED <<items, O, got, cancelled>>
    <3>0. pc[g] \in {"enter", "woken"} /\ cancelled' = cancelled /\ O[g] = "waiting"
      BY <2>3, OutcomeNames DEF Look, OnTheWay, O
    <3>1. CASE Take(g)
      <4>1. pc'[g] = "item" /\ \A h \in Getters \ {g} : pc'[h] = pc[h]
        BY <2>0, <3>1, Moved, QueuePCNames DEF Take
      <4>2. O' = [O EXCEPT ![g] = "item"]
        BY <4>1, OutcomeMoved, OutcomeNames
      <4>3. Fifo!Deliver(g)
        BY <3>0, <3>1, <4>2 DEF Take, Fifo!Deliver, O
      <4>. QED
        BY <4>3 DEF Fifo!Next
    <3>2. CASE FindEmpty(g)
      <4>1. pc'[g] = "empty" /\ \A h \in Getters \ {g} : pc'[h] = pc[h]
        BY <2>0, <3>2, Moved, QueuePCNames DEF FindEmpty
      <4>2. \A h \in Getters : Outcome(h)' = Outcome(h)
        BY <3>0, <4>1, OutcomeNames
      <4>. QED
        BY <3>0, <3>2, <4>2 DEF FindEmpty, O
    <3>3. CASE GiveUp(g) /\ cancelled[g]
      <4>1. pc'[g] = "aborted" /\ \A h \in Getters \ {g} : pc'[h] = pc[h]
        BY <2>0, <3>3, Moved, QueuePCNames DEF GiveUp
      <4>2. O' = [O EXCEPT ![g] = "aborted"]
        BY <4>1, OutcomeMoved, OutcomeNames
      <4>3. Fifo!Abort(g)
        BY <3>0, <3>3, <4>2 DEF GiveUp, Fifo!Abort, O
      <4>. QED
        BY <4>3 DEF Fifo!Next
    <3>. QED
      BY <2>3, <3>1, <3>2, <3>3 DEF Look
  <2>4. ASSUME NEW g \in Getters, Sleep(g) PROVE UNCHANGED <<items, O, got, cancelled>>
    <3>1. pc[g] = "empty" /\ pc'[g] = "asleep" /\ \A h \in Getters \ {g} : pc'[h] = pc[h]
      BY <2>0, <2>4, Moved, QueuePCNames DEF Sleep
    <3>2. \A h \in Getters : Outcome(h)' = Outcome(h)
      BY <3>1, OutcomeNames
    <3>. QED
      BY <2>4, <3>2 DEF Sleep, O
  <2>5. ASSUME NEW g \in Getters, Return(g) PROVE Fifo!Next
    <3>1. pc[g] \in {"item", "aborted"} /\ pc'[g] = "idle"
          /\ \A h \in Getters \ {g} : pc'[h] = pc[h]
      BY <2>0, <2>5, Moved, QueuePCNames DEF Return
    <3>2. O[g] \in {"item", "aborted"} /\ O' = [O EXCEPT ![g] = "none"]
      BY <3>1, OutcomeMoved, OutcomeNames DEF O
    <3>3. Fifo!Return(g)
      BY <2>5, <3>2 DEF Return, Fifo!Return, O
    <3>. QED
      BY <3>3 DEF Fifo!Next
  <2>6. ASSUME NEW g \in Getters, Cancel(g) PROVE Fifo!Next
    <3>1. O' = O
      BY <2>6, OutcomeNames DEF Cancel, O
    <3>2. Fifo!Cancel(g)
      BY <2>6, <3>1 DEF Cancel, Fifo!Cancel, O
    <3>. QED
      BY <3>2 DEF Fifo!Next
  <2>7. CASE Broadcast
    <3>1. \A h \in Getters :
              pc'[h] = pc[h] \/ (pc[h] = "asleep" /\ pc'[h] = "woken")
      BY <2>7 DEF Broadcast, Wake, At
    <3>2. \A h \in Getters : Outcome(h)' = Outcome(h)
      BY <3>1, OutcomeNames
    <3>. QED
      BY <2>7, <3>2 DEF Broadcast, O
  <2>8. CASE UNCHANGED queueVars
    <3>1. \A h \in Getters : Outcome(h)' = Outcome(h)
      BY <2>8, OutcomeNames DEF queueVars
    <3>. QED
      BY <2>8, <3>1 DEF queueVars, O
  <2>. QED
    BY <2>1, <2>2, <2>3, <2>4, <2>5, <2>6, <2>7, <2>8 DEF QueueNext, Getter
<1>. QED
  BY <1>1, <1>2, QueueTypeCorrect, PTL DEF QueueSpec, ImplementsFifo, Fifo!Spec
=============================================================================
