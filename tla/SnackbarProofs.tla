--------------------------- MODULE SnackbarProofs ---------------------------
(* Proofs about Snackbar, for any messages, starts, stoppers and bounds. *)
EXTENDS Snackbar, SyncQueueProofs, SequenceTheorems

----------------------------------------------------------------------------
(* The snackbar is a client of its queue *)

\* Whatever the snackbar does is a step of its queue or leaves the queue alone,
\* so that what is proved of the queue holds of the queue of the snackbar.
LEMMA QueueStep == [Next]_vars => [QueueNext]_queueVars
<1>. SUFFICES ASSUME [Next]_vars PROVE [QueueNext]_queueVars
  OBVIOUS
<1>1. ASSUME NEW v \in Items, Show(v) PROVE QueueNext
  BY <1>1 DEF Show, QueueNext
<1>2. ASSUME NEW g \in Getters, CancelContext(g) PROVE QueueNext \/ UNCHANGED queueVars
  BY <1>2, Zenon DEF CancelContext, QueueNext
<1>3. ASSUME NEW g \in Getters, Loop(g) PROVE QueueNext \/ UNCHANGED queueVars
  <2>1. CASE Get(g)
    BY <2>1 DEF Get, QueueNext
  <2>2. CASE InGet(g)
    BY <2>2 DEF InGet, QueueNext
  <2>3. CASE Display(g) \/ GetFails(g)
    BY <2>3 DEF Display, GetFails, QueueNext
  <2>4. CASE Timeout(g) \/ Hide(g) \/ Exit(g)
    BY <2>4 DEF Timeout, Hide, Exit
  <2>5. CASE HideAndCancel(g)
    BY <2>5, <1>2 DEF HideAndCancel
  <2>. QED
    BY <1>3, <2>1, <2>2, <2>3, <2>4, <2>5, Zenon DEF Loop
<1>4. ASSUME NEW g \in Getters, NEW s \in Stoppers, WatcherStops(g, s) \/ LoopStops(g, s)
      PROVE  QueueNext \/ UNCHANGED queueVars
  BY <1>2, <1>4 DEF WatcherStops, LoopStops
<1>5. ASSUME NEW g \in Getters, Start(g) \/ Dismiss(g) PROVE UNCHANGED queueVars
  BY <1>5 DEF Start, Dismiss
<1>6. ASSUME NEW s \in Stoppers, Stop(s) PROVE UNCHANGED queueVars
  BY <1>6 DEF Stop
<1>7. CASE Tap
  BY <1>7 DEF Tap
<1>8. CASE AfterFunc
  BY <1>8 DEF AfterFunc, QueueNext
<1>9. CASE UNCHANGED vars
  BY <1>9 DEF vars
<1>. QED
  BY <1>1, <1>3, <1>4, <1>5, <1>6, <1>7, <1>8, <1>9, Zenon DEF Next

\* Every behaviour of the snackbar is one of its queue, and so a behaviour of
\* the abstract queue: what Get hands to the loop comes in the order of Put,
\* each message once.
THEOREM SnackbarUsesFifo == Spec => QueueSpec /\ ImplementsFifo
<1>1. Init => QueueInit
  BY DEF Init
<1>2. Spec => QueueSpec
  BY <1>1, QueueStep, PTL DEF Spec, QueueSpec
<1>. QED
  BY <1>2, QueueIsFifo, PTL

\* A message in the queue does not wait for a loop that sleeps, except after
\* a signal was missed.
THEOREM SnackbarLoopWoken == Spec => []NoneStranded
  BY SnackbarUsesFifo, ItemsAreTaken, PTL

----------------------------------------------------------------------------
(* Steps of the queue as the loop sees them *)

\* Only Call and Return move a getter from or to idle.
LEMMA InGetStays ==
    ASSUME QueueTypeOK, NEW g \in Getters, Getter(g)
    PROVE  /\ pc[g] # "idle"
           /\ \A h \in Getters \ {g} : pc'[h] = pc[h]
           /\ pc[g] # "item"
  BY DEF QueueTypeOK, Getter, Look, Sleep, Take, FindEmpty, GiveUp, OnTheWay, Goto

\* A put and a broadcast do nothing to getters but wake them.
LEMMA WokenOnly ==
    ASSUME QueueTypeOK, Broadcast \/ \E v \in Items : Put(v)
    PROVE  \A h \in Getters : pc'[h] = pc[h] \/ (pc[h] = "asleep" /\ pc'[h] = "woken")
<1>. pc \in [Getters -> QueuePCs]
  BY DEF QueueTypeOK
<1>1. CASE Broadcast
  BY <1>1 DEF Broadcast, Wake, At
<1>2. ASSUME NEW v \in Items, Put(v)
      PROVE  \A h \in Getters : pc'[h] = pc[h] \/ (pc[h] = "asleep" /\ pc'[h] = "woken")
  <2>1. CASE UNCHANGED pc
    BY <2>1
  <2>2. ASSUME NEW g \in At("asleep"), Goto(g, "woken")
        PROVE  \A h \in Getters : pc'[h] = pc[h] \/ (pc[h] = "asleep" /\ pc'[h] = "woken")
    BY <2>2 DEF Goto, At
  <2>. QED
    BY <1>2, <2>1, <2>2, Zenon DEF Put
<1>. QED
  BY <1>1, <1>2, Zenon

\* A call of Get moves one getter,
LEMMA Called ==
    ASSUME QueueTypeOK, NEW g \in Getters, Call(g, FALSE)
    PROVE  pc[g] = "idle" /\ pc'[g] = "enter" /\ \A h \in Getters \ {g} : pc'[h] = pc[h]
  BY DEF QueueTypeOK, Call, Goto

\* ... and so does its return.
LEMMA Returned ==
    ASSUME QueueTypeOK, NEW g \in Getters, Return(g)
    PROVE  pc[g] # "idle" /\ pc'[g] = "idle" /\ \A h \in Getters \ {g} : pc'[h] = pc[h]
  BY DEF QueueTypeOK, Return, Goto

\* A context that is cancelled moves nobody.
LEMMA CancelKeepsPcs ==
    ASSUME NEW g \in Getters, CancelContext(g)
    PROVE  UNCHANGED <<items, pc, got>>
  BY DEF CancelContext, Cancel, queueVars

----------------------------------------------------------------------------
(* Type correctness *)

LoopStates == {"none", "get", "exit", "ended"} \cup PopupStates

\* What TypeOK says of the variables of the snackbar.
BarTypeOK ==
    /\ isRunning \in BOOLEAN
    /\ watch \in [Getters -> {"none", "listening", "gone"}]
    /\ loop \in [Getters -> LoopStates]
    /\ \A g \in Getters : pc[g] # "idle" => loop[g] = "get"
    /\ stopper \in [Stoppers -> {"idle", "send"}]
    /\ ui \in {"free", "blocked"}
    /\ sent \in Seq(Items) /\ shown \in Seq(Items)

\* The types are those of the queue and those of the bar.
LEMMA TypeParts == TypeOK <=> QueueTypeOK /\ BarTypeOK
  BY DEF TypeOK, BarTypeOK, LoopStates

\* A loop moves that is not in Get, or no longer.
LEMMA LoopMoved ==
    ASSUME BarTypeOK, NEW g \in Getters, NEW s \in LoopStates, LoopTo(g, s)
    PROVE  /\ loop' \in [Getters -> LoopStates]
           /\ loop'[g] = s /\ \A h \in Getters \ {g} : loop'[h] = loop[h]
  BY DEF BarTypeOK, LoopTo

\* The places of the loop.
LEMMA LoopNames ==
    {"none", "get", "exit", "ended", "show", "hide", "stop"} \subseteq LoopStates
  BY DEF LoopStates, PopupStates

\* Every step keeps the types of the bar.
LEMMA TypeStep == TypeOK /\ QueueTypeOK' /\ [Next]_vars => BarTypeOK'
<1>. SUFFICES ASSUME TypeOK, QueueTypeOK', [Next]_vars PROVE BarTypeOK'
  OBVIOUS
<1>. QueueTypeOK /\ BarTypeOK
  BY TypeParts
<1>1. ASSUME NEW v \in Items, Show(v) PROVE BarTypeOK'
  <2>1. \A h \in Getters : pc'[h] # "idle" => pc[h] # "idle"
    BY <1>1, WokenOnly DEF Show
  <2>2. sent' \in Seq(Items)
    BY <1>1, AppendTyped DEF Show, BarTypeOK
  <2>. QED
    BY <1>1, <2>1, <2>2 DEF Show, BarTypeOK
<1>2. ASSUME NEW g \in Getters, Start(g) PROVE BarTypeOK'
  <2>1. /\ loop' \in [Getters -> LoopStates]
        /\ loop'[g] = "get" /\ \A h \in Getters \ {g} : loop'[h] = loop[h]
    BY <1>2, LoopMoved, LoopNames DEF Start
  <2>. QED
    BY <1>2, <2>1 DEF Start, BarTypeOK, queueVars
<1>3. ASSUME NEW s \in Stoppers, Stop(s) PROVE BarTypeOK'
  BY <1>3 DEF Stop, BarTypeOK, queueVars
<1>4. ASSUME NEW g \in Getters, NEW s \in Stoppers, WatcherStops(g, s) PROVE BarTypeOK'
  BY <1>4, CancelKeepsPcs DEF WatcherStops, BarTypeOK
<1>5. ASSUME NEW g \in Getters, Get(g) PROVE BarTypeOK'
  BY <1>5, Called DEF Get, barVars, BarTypeOK
<1>6. ASSUME NEW g \in Getters, InGet(g) PROVE BarTypeOK'
  BY <1>6, InGetStays DEF InGet, barVars, BarTypeOK
<1>7. CASE AfterFunc
  BY <1>7, WokenOnly DEF AfterFunc, barVars, BarTypeOK
<1>8. ASSUME NEW g \in Getters, Display(g) \/ GetFails(g) PROVE BarTypeOK'
  <2>1. loop' \in [Getters -> LoopStates] /\ \A h \in Getters \ {g} : loop'[h] = loop[h]
    BY <1>8, LoopMoved, LoopNames DEF Display, GetFails
  <2>2. pc'[g] = "idle" /\ \A h \in Getters \ {g} : pc'[h] = pc[h]
    BY <1>8, Returned DEF Display, GetFails
  <2>3. shown' \in Seq(Items)
    <3>1. CASE Display(g)
      <4>1. got[g] \in Items
        BY <3>1 DEF Display, QueueTypeOK
      <4>. QED
        BY <3>1, <4>1, AppendTyped DEF Display, BarTypeOK
    <3>. QED
      BY <1>8, <3>1 DEF GetFails, BarTypeOK
  <2>. QED
    BY <1>8, <2>1, <2>2, <2>3 DEF Display, GetFails, BarTypeOK
<1>9. CASE Tap
  BY <1>9 DEF Tap, BarTypeOK, queueVars
<1>10. ASSUME NEW g \in Getters, UNCHANGED pc, loop[g] # "get",
              NEW s \in LoopStates, LoopTo(g, s)
       PROVE  /\ loop' \in [Getters -> LoopStates]
              /\ \A h \in Getters : pc'[h] # "idle" => loop'[h] = "get"
  <2>1. pc[g] = "idle"
    BY <1>10 DEF BarTypeOK
  <2>. QED
    BY <1>10, <2>1, LoopMoved DEF BarTypeOK
<1>11. ASSUME NEW g \in Getters, Timeout(g) \/ Hide(g) \/ Exit(g) PROVE BarTypeOK'
  <2>1. /\ loop' \in [Getters -> LoopStates]
        /\ \A h \in Getters : pc'[h] # "idle" => loop'[h] = "get"
    BY <1>10, <1>11, LoopNames DEF Timeout, Hide, Exit, queueVars
  <2>. QED
    BY <1>11, <2>1 DEF Timeout, Hide, Exit, BarTypeOK
<1>12. ASSUME NEW g \in Getters, HideAndCancel(g) PROVE BarTypeOK'
  <2>1. UNCHANGED pc
    BY <1>12, CancelKeepsPcs DEF HideAndCancel
  <2>2. /\ loop' \in [Getters -> LoopStates]
        /\ \A h \in Getters : pc'[h] # "idle" => loop'[h] = "get"
    BY <1>10, <1>12, <2>1, LoopNames DEF HideAndCancel
  <2>. QED
    BY <1>12, <2>2 DEF HideAndCancel, BarTypeOK
<1>13. ASSUME NEW g \in Getters, Dismiss(g) PROVE BarTypeOK'
  <2>1. /\ loop' \in [Getters -> LoopStates]
        /\ \A h \in Getters : pc'[h] # "idle" => loop'[h] = "get"
    BY <1>10, <1>13, LoopNames DEF Dismiss, queueVars
  <2>. QED
    BY <1>13, <2>1 DEF Dismiss, BarTypeOK
<1>14. ASSUME NEW g \in Getters, NEW s \in Stoppers, LoopStops(g, s) PROVE BarTypeOK'
  <2>1. /\ loop' \in [Getters -> LoopStates]
        /\ \A h \in Getters : pc'[h] # "idle" => loop'[h] = "get"
    BY <1>10, <1>14, LoopNames DEF LoopStops, queueVars
  <2>. QED
    BY <1>14, <2>1 DEF LoopStops, BarTypeOK
<1>15. CASE UNCHANGED vars
  BY <1>15 DEF vars, queueVars, barVars, BarTypeOK
<1>. QED
  BY <1>1, <1>2, <1>3, <1>4, <1>5, <1>6, <1>7, <1>8, <1>9, <1>11, <1>12, <1>13, <1>14,
     <1>15, Zenon DEF Next, Loop

----------------------------------------------------------------------------
(* One loop *)

\* A loop that goes on running leaves the running loops what they are.
LEMMA LoopKept ==
    ASSUME BarTypeOK, NEW g \in Active, NEW s \in LoopStates \ {"none", "ended"}, LoopTo(g, s)
    PROVE  Active' = Active
<1>1. g \in Getters /\ loop[g] \notin {"none", "ended"}
  BY DEF Active
<1>2. loop'[g] = s /\ \A h \in Getters \ {g} : loop'[h] = loop[h]
  BY <1>1, LoopMoved
<1>. QED
  BY <1>1, <1>2 DEF Active

\* The step of OneLoop: Start finds the flag down, so that no loop runs, and
\* Exit ends the only one.
LEMMA OneLoopStep == BarTypeOK /\ OneLoop /\ [Next]_vars => OneLoop'
<1>. SUFFICES ASSUME BarTypeOK, OneLoop, [Next]_vars PROVE OneLoop'
  OBVIOUS
<1>0. ASSUME Active' = Active, UNCHANGED isRunning PROVE OneLoop'
  BY <1>0 DEF OneLoop
<1>1. ASSUME UNCHANGED <<loop, isRunning>> PROVE OneLoop'
  BY <1>0, <1>1 DEF Active
<1>2. ASSUME NEW g \in Getters, Start(g) PROVE OneLoop'
  <2>1. Active = {}
    BY <1>2 DEF Start, OneLoop
  <2>2. loop'[g] = "get" /\ \A h \in Getters \ {g} : loop'[h] = loop[h]
    BY <1>2, LoopMoved, LoopNames DEF Start
  <2>3. Active' = {g}
    BY <2>1, <2>2 DEF Active
  <2>. QED
    BY <1>2, <2>3 DEF Start, OneLoop
<1>3. ASSUME NEW g \in Getters, Exit(g) PROVE OneLoop'
  <2>1. g \in Active
    BY <1>3 DEF Exit, Active
  <2>2. loop'[g] = "ended" /\ \A h \in Getters \ {g} : loop'[h] = loop[h]
    BY <1>3, LoopMoved, LoopNames DEF Exit
  <2>3. Active' = {}
    BY <2>1, <2>2 DEF Active, OneLoop
  <2>. QED
    BY <1>3, <2>3 DEF Exit, OneLoop
<1>4. ASSUME NEW g \in Getters, loop[g] \in {"get", "show", "hide", "stop"},
             NEW s \in {"exit", "get", "show", "hide", "stop"}, LoopTo(g, s),
             UNCHANGED isRunning
      PROVE  OneLoop'
  <2>1. g \in Active
    BY <1>4 DEF Active
  <2>2. s \in LoopStates \ {"none", "ended"}
    BY LoopNames
  <2>. QED
    BY <1>0, <1>4, <2>1, <2>2, LoopKept
<1>5. ASSUME NEW g \in Getters, Loop(g) PROVE OneLoop'
  <2>1. CASE Get(g) \/ InGet(g)
    BY <1>1, <2>1 DEF Get, InGet, barVars
  <2>2. CASE Display(g) \/ GetFails(g) \/ Timeout(g) \/ Hide(g) \/ HideAndCancel(g)
    BY <1>4, <2>2 DEF Display, GetFails, Timeout, Hide, HideAndCancel
  <2>. QED
    BY <1>3, <1>5, <2>1, <2>2, Zenon DEF Loop
<1>6. ASSUME NEW g \in Getters, NEW s \in Stoppers, LoopStops(g, s)
      PROVE  OneLoop'
  BY <1>4, <1>6 DEF LoopStops
<1>7. ASSUME NEW g \in Getters, Dismiss(g) PROVE OneLoop'
  BY <1>4, <1>7 DEF Dismiss
<1>8. ASSUME NEW g \in Getters, NEW s \in Stoppers, WatcherStops(g, s) PROVE OneLoop'
  BY <1>1, <1>8 DEF WatcherStops
<1>9. ASSUME NEW v \in Items, Show(v) PROVE OneLoop'
  BY <1>1, <1>9 DEF Show
<1>10. ASSUME NEW s \in Stoppers, Stop(s) PROVE OneLoop'
  BY <1>1, <1>10 DEF Stop
<1>11. CASE Tap \/ AfterFunc \/ UNCHANGED vars
  BY <1>1, <1>11 DEF Tap, AfterFunc, vars, barVars
<1>. QED
  BY <1>2, <1>5, <1>6, <1>7, <1>8, <1>9, <1>10, <1>11, Zenon DEF Next

----------------------------------------------------------------------------
(* The order of the messages *)

\* InHand as an operator of the pcs and of what was got.
Hand(p, q) == IF {g \in Getters : p[g] = "item"} = {} THEN <<>>
              ELSE <<q[CHOOSE g \in Getters : p[g] = "item"]>>

\* With no getter at an item nothing is in hand,
LEMMA NoneInHand ==
    ASSUME NEW p, NEW q, \A g \in Getters : p[g] # "item"
    PROVE  Hand(p, q) = <<>>
  BY DEF Hand

\* ... with one it is that item,
LEMMA OneInHand ==
    ASSUME NEW p, NEW q, NEW g \in Getters, p[g] = "item",
           \A h \in Getters : p[h] = "item" => h = g
    PROVE  Hand(p, q) = <<q[g]>>
<1>1. (CHOOSE h \in Getters : p[h] = "item") = g
  OBVIOUS
<1>. QED
  BY <1>1 DEF Hand

\* Only the loop is in Get, so that at most one getter holds a message.
LEMMA OneGets ==
    ASSUME BarTypeOK, OneLoop
    PROVE  \A g, h \in Getters : pc[g] # "idle" /\ pc[h] # "idle" => g = h
  BY DEF BarTypeOK, OneLoop, Active

\* The hand is kept by steps in which nobody gets a message or gives it away.
LEMMA HandKept ==
    ASSUME BarTypeOK, OneLoop, UNCHANGED got,
           \A h \in Getters : pc'[h] = "item" <=> pc[h] = "item"
    PROVE  Hand(pc', got') = Hand(pc, got)
<1>1. CASE \A g \in Getters : pc[g] # "item"
  BY <1>1, NoneInHand
<1>2. ASSUME NEW g \in Getters, pc[g] = "item" PROVE Hand(pc', got') = Hand(pc, got)
  <2>1. \A h \in Getters : pc[h] = "item" => h = g
    BY <1>2, OneGets
  <2>2. Hand(pc, got) = <<got[g]>>
    BY <1>2, <2>1, OneInHand
  <2>3. Hand(pc', got') = <<got'[g]>>
    BY <1>2, <2>1, OneInHand
  <2>. QED
    BY <2>2, <2>3
<1>. QED
  BY <1>1, <1>2

\* ... and one loop has one item at most.
LEMMA HandTyped ==
    ASSUME QueueTypeOK, BarTypeOK, OneLoop
    PROVE  Hand(pc, got) \in Seq(Items)
<1>1. ASSUME \A g \in Getters : pc[g] # "item" PROVE Hand(pc, got) \in Seq(Items)
  <2>1. Hand(pc, got) = <<>>
    BY <1>1, NoneInHand
  <2>. QED
    BY <2>1
<1>2. ASSUME NEW g \in Getters, pc[g] = "item" PROVE Hand(pc, got) \in Seq(Items)
  <2>1. Hand(pc, got) = <<got[g]>>
    BY <1>2, OneGets, OneInHand
  <2>2. got[g] \in Items
    BY <1>2 DEF QueueTypeOK
  <2>. QED
    BY <2>1, <2>2
<1>. QED
  BY <1>1, <1>2

\* A sequence that is not empty is its first element and the others.
LEMMA HeadFirst ==
    ASSUME NEW S, NEW s \in Seq(S), s # <<>>
    PROVE  s = <<Head(s)>> \o Tail(s)
<1>1. /\ Head(s) \in S /\ Tail(s) \in Seq(S)
      /\ Len(Tail(s)) = Len(s) - 1 /\ Len(s) \in Nat \ {0}
      /\ \A i \in 1 .. Len(Tail(s)) : Tail(s)[i] = s[i+1]
  BY HeadTailProperties, EmptySeq
<1>2. Head(s) = s[1] /\ <<Head(s)>> \in Seq(S)
      /\ Len(<<Head(s)>>) = 1 /\ <<Head(s)>>[1] = Head(s)
  BY <1>1
<1>. DEFINE t == <<Head(s)>> \o Tail(s)
<1>3. /\ t \in Seq(S) /\ Len(t) = 1 + Len(Tail(s))
      /\ \A i \in 1 .. 1 + Len(Tail(s)) :
            t[i] = IF i <= 1 THEN <<Head(s)>>[i] ELSE Tail(s)[i - 1]
  BY <1>1, <1>2, ConcatProperties
<1>4. ASSUME NEW i \in 1 .. Len(s) PROVE s[i] = t[i]
  <2>1. CASE i = 1
    BY <1>1, <1>2, <1>3, <2>1
  <2>2. CASE i # 1
    <3>1. i - 1 \in 1 .. Len(Tail(s)) /\ i \in 1 .. 1 + Len(Tail(s)) /\ ~(i <= 1)
      BY <1>1, <2>2
    <3>2. t[i] = Tail(s)[i - 1]
      BY <1>3, <3>1
    <3>3. Tail(s)[i - 1] = s[(i - 1) + 1] /\ (i - 1) + 1 = i
      BY <1>1, <3>1
    <3>. QED
      BY <3>2, <3>3
  <2>. QED
    BY <2>1, <2>2
<1>. HIDE DEF t
<1>5. s = t
  BY <1>1, <1>3, <1>4, SeqEqual
<1>. QED
  BY <1>5 DEF t

\* The step of InOrder.
LEMMA InOrderStep ==
    QueueTypeOK /\ BarTypeOK /\ OneLoop /\ InOrder /\ [Next]_vars => InOrder'
<1>. SUFFICES ASSUME QueueTypeOK, BarTypeOK, OneLoop, InOrder, [Next]_vars PROVE InOrder'
  OBVIOUS
<1>. DEFINE H == Hand(pc, got)
<1>a. sent = shown \o H \o items
  BY DEF InOrder, InHand, Hand, At
<1>b. ASSUME sent' = shown' \o Hand(pc', got') \o items' PROVE InOrder'
  BY <1>b DEF InOrder, InHand, Hand, At
<1>c. /\ H \in Seq(Items) /\ items \in Seq(Items) /\ shown \in Seq(Items)
      /\ shown \o H \in Seq(Items)
  <2>1. H \in Seq(Items) /\ items \in Seq(Items) /\ shown \in Seq(Items)
    BY HandTyped DEF QueueTypeOK, BarTypeOK
  <2>. QED
    BY <2>1, ConcatProperties
<1>. HIDE DEF H
<1>1. ASSUME UNCHANGED <<items, got, sent, shown>>,
             \A h \in Getters : pc'[h] = "item" <=> pc[h] = "item"
      PROVE  InOrder'
  BY <1>1, <1>a, <1>b, HandKept DEF H
<1>2. ASSUME NEW v \in Items, Show(v) PROVE InOrder'
  <2>1. \A h \in Getters : pc'[h] = "item" <=> pc[h] = "item"
    BY <1>2, WokenOnly DEF Show
  <2>2. /\ UNCHANGED <<got, shown>>
        /\ items' = Append(items, v) /\ sent' = Append(sent, v)
    BY <1>2 DEF Show, Put
  <2>3. Hand(pc', got') = H
    BY <2>1, <2>2, HandKept DEF H
  <2>4. PICK w \in Seq(Items) : w = <<v>>
    <3>1. <<v>> \in Seq(Items)
      BY <1>2
    <3>. QED
      BY <3>1, Zenon
  <2>5. sent' = sent \o w /\ items' = items \o w
    BY <1>c, <2>2, <2>4, AppendIsConcat DEF BarTypeOK
  <2>6. shown \o H \o items \o w = shown \o H \o (items \o w)
    BY <1>c, ConcatAssociative
  <2>. QED
    BY <1>a, <1>b, <2>2, <2>3, <2>5, <2>6
<1>3. ASSUME NEW g \in Getters, InGet(g) PROVE InOrder'
  <2>0. /\ pc[g] # "idle" /\ pc[g] # "item"
        /\ \A h \in Getters \ {g} : pc'[h] = pc[h]
        /\ UNCHANGED <<sent, shown>>
    BY <1>3, InGetStays DEF InGet, barVars
  <2>1. CASE Take(g)
    <3>1. /\ items # <<>> /\ items' = Tail(items)
          /\ got'[g] = Head(items) /\ pc'[g] = "item"
      BY <2>1 DEF Take, Goto, QueueTypeOK
    <3>2. H = <<>>
      BY <2>0, OneGets, NoneInHand DEF H
    <3>3. Hand(pc', got') = <<Head(items)>>
      <4>1. \A h \in Getters : pc'[h] = "item" => h = g
        BY <2>0, OneGets
      <4>. QED
        BY <3>1, <4>1, OneInHand
    <3>4. Head(items) \in Items /\ Tail(items) \in Seq(Items) /\ <<Head(items)>> \in Seq(Items)
      BY <1>c, <3>1, TailTyped
    <3>5. items = <<Head(items)>> \o Tail(items)
      BY <1>c, <3>1, HeadFirst
    <3>6. sent = shown \o (<<Head(items)>> \o Tail(items))
      BY <1>a, <1>c, <3>2, <3>5, ConcatEmptySeq
    <3>7. shown \o (<<Head(items)>> \o Tail(items)) = shown \o <<Head(items)>> \o Tail(items)
      BY <1>c, <3>4, ConcatAssociative
    <3>. QED
      BY <1>b, <2>0, <3>1, <3>3, <3>6, <3>7
  <2>2. ASSUME NEW p \in {"empty", "aborted", "asleep"}, Goto(g, p), UNCHANGED <<items, got>>
        PROVE  InOrder'
    BY <1>1, <2>0, <2>2 DEF Goto, QueueTypeOK
  <2>. QED
    BY <1>3, <2>1, <2>2 DEF InGet, Getter, Look, Sleep, FindEmpty, GiveUp
<1>4. ASSUME NEW g \in Getters, Display(g) PROVE InOrder'
  <2>1. /\ pc[g] = "item" /\ shown' = Append(shown, got[g])
        /\ UNCHANGED <<items, sent>> /\ got[g] \in Items
    BY <1>4 DEF Display, Return, QueueTypeOK
  <2>2. pc'[g] = "idle" /\ \A h \in Getters \ {g} : pc'[h] = pc[h]
    BY <1>4, Returned DEF Display
  <2>3. \A h \in Getters : pc[h] = "item" => h = g
    BY <2>1, OneGets
  <2>4. H = <<got[g]>>
    BY <2>1, <2>3, OneInHand DEF H
  <2>5. Hand(pc', got') = <<>>
    BY <2>2, <2>3, NoneInHand
  <2>6. shown' = shown \o H /\ shown' \o <<>> = shown'
    BY <1>c, <2>1, <2>4, AppendIsConcat, ConcatEmptySeq
  <2>. QED
    BY <1>a, <1>b, <2>1, <2>5, <2>6
<1>5. ASSUME NEW g \in Getters, GetFails(g) PROVE InOrder'
  <2>1. pc'[g] = "idle" /\ pc[g] = "aborted" /\ \A h \in Getters \ {g} : pc'[h] = pc[h]
    BY <1>5, Returned DEF GetFails
  <2>2. ASSUME NEW h \in Getters PROVE pc[h] # "item" /\ pc'[h] # "item"
    BY <2>1, OneGets
  <2>3. H = <<>> /\ Hand(pc', got') = <<>>
    BY <2>2, NoneInHand DEF H
  <2>. QED
    BY <1>5, <1>a, <1>b, <2>3 DEF GetFails, Return
<1>6. ASSUME NEW g \in Getters, Get(g) PROVE InOrder'
  BY <1>1, <1>6, Called DEF Get, Call, barVars
<1>7. ASSUME NEW g \in Getters, CancelContext(g), UNCHANGED <<sent, shown>> PROVE InOrder'
  BY <1>1, <1>7, CancelKeepsPcs
<1>8. ASSUME UNCHANGED <<queueVars, sent, shown>> PROVE InOrder'
  BY <1>1, <1>8 DEF queueVars
<1>9. ASSUME NEW g \in Getters, Loop(g) PROVE InOrder'
  <2>1. CASE Timeout(g) \/ Hide(g) \/ Exit(g)
    BY <1>8, <2>1 DEF Timeout, Hide, Exit
  <2>2. CASE HideAndCancel(g)
    BY <1>7, <2>2 DEF HideAndCancel
  <2>. QED
    BY <1>3, <1>4, <1>5, <1>6, <1>9, <2>1, <2>2, Zenon DEF Loop
<1>10. ASSUME NEW g \in Getters, NEW s \in Stoppers, WatcherStops(g, s) \/ LoopStops(g, s)
       PROVE  InOrder'
  BY <1>7, <1>8, <1>10 DEF WatcherStops, LoopStops
<1>11. ASSUME NEW g \in Getters, Start(g) \/ Dismiss(g) PROVE InOrder'
  BY <1>8, <1>11 DEF Start, Dismiss
<1>12. ASSUME NEW s \in Stoppers, Stop(s) PROVE InOrder'
  BY <1>8, <1>12 DEF Stop
<1>13. CASE Tap \/ UNCHANGED vars
  BY <1>8, <1>13 DEF Tap, vars, barVars
<1>14. CASE AfterFunc
  <2>1. \A h \in Getters : pc'[h] = "item" <=> pc[h] = "item"
    BY <1>14, WokenOnly DEF AfterFunc
  <2>. QED
    BY <1>1, <1>14, <2>1 DEF AfterFunc, Broadcast, barVars
<1>. QED
  BY <1>2, <1>9, <1>10, <1>11, <1>12, <1>13, <1>14, Zenon DEF Next

\* However Start, Stop, taps and messages interleave, one loop at most owns the
\* popup, and the messages displayed, the one in hand and those in the queue
\* are together the messages sent, in their order.
THEOREM MessagesInOrder == Spec => []DisplayInOrder
<1>1. Init => QueueInit /\ BarTypeOK /\ OneLoop
  <2>. SUFFICES ASSUME Init PROVE BarTypeOK /\ OneLoop
    BY DEF Init
  <2>1. \A g \in Getters : pc[g] = "idle" /\ loop[g] = "none"
    BY DEF Init, QueueInit
  <2>2. Active = {}
    BY <2>1 DEF Active
  <2>3. OneLoop
    BY <2>2 DEF Init, OneLoop
  <2>4. sent \in Seq(Items) /\ shown \in Seq(Items)
    BY DEF Init
  <2>5. BarTypeOK
    BY <2>1, <2>4 DEF Init, BarTypeOK, LoopStates
  <2>. QED
    BY <2>3, <2>5
<1>2. Init => InOrder
  <2>1. ASSUME Init PROVE InHand = <<>>
    BY <2>1 DEF Init, QueueInit, InHand, At
  <2>2. <<>> = <<>> \o <<>> \o <<>>
    BY ConcatEmptySeq, EmptySeq
  <2>. QED
    BY <2>1, <2>2 DEF Init, QueueInit, InOrder
<1>3. /\ QueueTypeOK /\ QueueTypeOK' /\ BarTypeOK /\ OneLoop /\ InOrder /\ [Next]_vars
      => BarTypeOK' /\ OneLoop' /\ InOrder'
  BY TypeParts, TypeStep, OneLoopStep, InOrderStep
<1>4. Spec => []QueueTypeOK
  BY SnackbarUsesFifo, QueueTypeCorrect, PTL
<1>5. QueueTypeOK /\ BarTypeOK /\ OneLoop /\ InOrder => DisplayInOrder
  BY TypeParts DEF DisplayInOrder
<1>. QED
  BY <1>1, <1>2, <1>3, <1>4, <1>5, PTL DEF Spec

=============================================================================
