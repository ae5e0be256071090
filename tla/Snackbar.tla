------------------------------ MODULE Snackbar ------------------------------
(***************************************************************************)
(* The snackbar of internal/widget/snackbar.go on top of its queue: a      *)
(* popup that shows one message after the other.  Every Start makes a      *)
(* context and two goroutines: a watcher that waits for a stop signal and  *)
(* cancels the context, and a loop that gets a message, shows it and waits *)
(* for the close button, a stop signal or the timeout.                     *)
(*                                                                         *)
(* A getter of the queue is the loop of one start.  The channels are       *)
(* unbuffered: a send and a receive are one step of both sides.            *)
(***************************************************************************)
EXTENDS SyncQueue

CONSTANTS
    Stoppers, \* goroutines that call Stop
    MaxSent   \* bound: messages sent in all

ASSUME SentBound == MaxSent \in Nat

VARIABLES
    isRunning,
    watch,   \* the watcher of a start: "none", "listening", "gone"
    loop,    \* the loop of a start
    stopper, \* a caller of Stop: "idle", or "send" when blocked in the send
    ui,      \* the UI goroutine: "free", or "blocked" in the close button
    sent,    \* history: the messages given to Show
    shown    \* history: the messages displayed

barVars == <<isRunning, watch, loop, stopper, ui, sent, shown>>
vars == <<queueVars, barVars>>

PopupStates == {"show", "hide", "stop"}
Active == {g \in Getters : loop[g] \notin {"none", "ended"}}

\* The popup is on the screen.
Visible == \E g \in Getters : loop[g] \in PopupStates

LoopTo(g, s) == loop' = [loop EXCEPT ![g] = s]

Init ==
    /\ QueueInit
    /\ isRunning = FALSE
    /\ watch = [g \in Getters |-> "none"]
    /\ loop = [g \in Getters |-> "none"]
    /\ stopper = [s \in Stoppers |-> "idle"]
    /\ ui = "free"
    /\ sent = <<>>
    /\ shown = <<>>

----------------------------------------------------------------------------
(* Show, Start and Stop *)

Show(v) ==
    /\ Len(sent) < MaxSent
    /\ Put(v)
    /\ sent' = Append(sent, v)
    /\ UNCHANGED <<isRunning, watch, loop, stopper, ui, shown>>

\* Compare and swap of the flag; a second Start does nothing.
Start(g) ==
    /\ loop[g] = "none" /\ ~isRunning
    /\ isRunning' = TRUE
    /\ watch' = [watch EXCEPT ![g] = "listening"]
    /\ LoopTo(g, "get")
    /\ UNCHANGED <<queueVars, stopper, ui, sent, shown>>

\* Stop of a snackbar that does not run returns at once.
Stop(s) ==
    /\ stopper[s] = "idle" /\ isRunning
    /\ stopper' = [stopper EXCEPT ![s] = "send"]
    /\ UNCHANGED <<queueVars, isRunning, watch, loop, ui, sent, shown>>

CancelContext(g) == IF cancelled[g] THEN UNCHANGED queueVars ELSE Cancel(g)

\* The watcher of any start, also of one whose loop has ended, receives the
\* stop signal and cancels the context of its own start.
WatcherStops(g, s) ==
    /\ watch[g] = "listening" /\ stopper[s] = "send"
    /\ watch' = [watch EXCEPT ![g] = "gone"]
    /\ stopper' = [stopper EXCEPT ![s] = "idle"]
    /\ CancelContext(g)
    /\ UNCHANGED <<isRunning, loop, ui, sent, shown>>

----------------------------------------------------------------------------
(* The loop *)

\* sb.q.Get(ctx)
Get(g) ==
    /\ loop[g] = "get"
    /\ Call(g, FALSE)
    /\ UNCHANGED barVars

InGet(g) == Getter(g) /\ UNCHANGED barVars
AfterFunc == Broadcast /\ UNCHANGED barVars

\* Get returned a message: display it and wait.
Display(g) ==
    /\ loop[g] = "get" /\ pc[g] = "item"
    /\ shown' = Append(shown, got[g])
    /\ Return(g)
    /\ LoopTo(g, "show")
    /\ UNCHANGED <<isRunning, watch, stopper, ui, sent>>

\* Get returned an error: the context was cancelled.
GetFails(g) ==
    /\ loop[g] = "get" /\ pc[g] = "aborted"
    /\ Return(g)
    /\ LoopTo(g, "exit")
    /\ UNCHANGED <<isRunning, watch, stopper, ui, sent, shown>>

\* The user taps the button of the popup, which sends on hideC.
Tap ==
    /\ Visible /\ ui = "free"
    /\ ui' = "blocked"
    /\ UNCHANGED <<queueVars, isRunning, watch, loop, stopper, sent, shown>>

\* The timer starts with the select, which takes a sender that is there or
\* comes before the timer fires.
NoSender == ui = "free" /\ \A s \in Stoppers : stopper[s] = "idle"

\* Mutant: the button hides the popup, and nobody receives what it sends.
DismissUnheard(g) ==
    /\ loop[g] = "show" /\ ui = "blocked"
    /\ LoopTo(g, "hide")
    /\ UNCHANGED <<queueVars, isRunning, watch, stopper, ui, sent, shown>>

\* The three cases of the select.
Dismiss(g) ==
    /\ loop[g] = "show" /\ ui = "blocked"
    /\ LoopTo(g, "hide")
    /\ ui' = "free"
    /\ UNCHANGED <<queueVars, isRunning, watch, stopper, sent, shown>>
LoopStops(g, s) ==
    /\ loop[g] = "show" /\ stopper[s] = "send"
    /\ LoopTo(g, "stop")
    /\ stopper' = [stopper EXCEPT ![s] = "idle"]
    /\ UNCHANGED <<queueVars, isRunning, watch, ui, sent, shown>>
Timeout(g) ==
    /\ loop[g] = "show" /\ NoSender
    /\ LoopTo(g, "hide")
    /\ UNCHANGED <<queueVars, isRunning, watch, stopper, ui, sent, shown>>

\* Mutant: the flag is reset before the loop has ended.
ExitEarly(g) ==
    /\ loop[g] = "stop"
    /\ isRunning' = FALSE
    /\ LoopTo(g, "exit")
    /\ UNCHANGED <<queueVars, watch, stopper, ui, sent, shown>>

\* The popup goes away, after which the loop continues or, after a stop
\* signal, cancels its context and ends.
Hide(g) ==
    /\ loop[g] = "hide"
    /\ LoopTo(g, "get")
    /\ UNCHANGED <<queueVars, isRunning, watch, stopper, ui, sent, shown>>
HideAndCancel(g) ==
    /\ loop[g] = "stop"
    /\ LoopTo(g, "exit")
    /\ CancelContext(g)
    /\ UNCHANGED <<isRunning, watch, stopper, ui, sent, shown>>

\* Mutant: the flag is not reset.
ExitStaysRunning(g) ==
    /\ loop[g] = "exit"
    /\ LoopTo(g, "ended")
    /\ UNCHANGED <<queueVars, isRunning, watch, stopper, ui, sent, shown>>

Exit(g) ==
    /\ loop[g] = "exit"
    /\ isRunning' = FALSE
    /\ LoopTo(g, "ended")
    /\ UNCHANGED <<queueVars, watch, stopper, ui, sent, shown>>

----------------------------------------------------------------------------
Loop(g) ==
    \/ Get(g) \/ InGet(g) \/ Display(g) \/ GetFails(g)
    \/ Timeout(g) \/ Hide(g) \/ HideAndCancel(g) \/ Exit(g)

Next ==
    \/ \E v \in Items : Show(v)
    \/ \E g \in Getters :
          \/ Start(g) \/ Loop(g) \/ Dismiss(g)
          \/ \E s \in Stoppers : WatcherStops(g, s) \/ LoopStops(g, s)
    \/ \E s \in Stoppers : Stop(s)
    \/ Tap
    \/ AfterFunc

Spec == Init /\ [][Next]_vars

\* Goroutines run, timers fire, a receiver and a sender of a channel meet.
\* Nobody has to send a message, to start or stop the snackbar or to tap.
Fairness ==
    /\ \A g \in Getters : WF_vars(Loop(g)) /\ SF_vars(InGet(g)) /\ WF_vars(Dismiss(g))
    /\ \A g \in Getters, s \in Stoppers :
          WF_vars(WatcherStops(g, s)) /\ WF_vars(LoopStops(g, s))
    /\ SF_vars(AfterFunc)

LiveSpec == Spec /\ Fairness

----------------------------------------------------------------------------
(* Properties *)

\* Every variable keeps to its type.
TypeOK ==
    /\ QueueTypeOK
    /\ isRunning \in BOOLEAN
    /\ watch \in [Getters -> {"none", "listening", "gone"}]
    /\ loop \in [Getters -> {"none", "get", "exit", "ended"} \cup PopupStates]
    /\ \A g \in Getters : pc[g] # "idle" => loop[g] = "get"
    /\ stopper \in [Stoppers -> {"idle", "send"}]
    /\ ui \in {"free", "blocked"}
    /\ sent \in Seq(Items) /\ shown \in Seq(Items)

\* However often it is started and stopped, one loop at most owns the popup,
\* and the flag says whether there is one.
OneLoop ==
    /\ \A g, h \in Active : g = h
    /\ isRunning <=> Active # {}

\* Messages are displayed in the order they were sent, each once, and none is
\* lost when the snackbar is stopped and started again.
InHand == IF At("item") = {} THEN <<>> ELSE <<got[CHOOSE g \in Getters : pc[g] = "item"]>>
InOrder == sent = shown \o InHand \o items

\* However Start, Stop, taps and messages interleave, there is one display loop
\* and it displays the messages in order; every variable keeps its type.
DisplayInOrder == TypeOK /\ OneLoop /\ InOrder

\* Messages are displayed while the snackbar runs, if no signal was missed.
MessagesShown == items # <<>> /\ isRunning ~> items = <<>> \/ ~isRunning \/ missed

\* A tap on the close button holds up the UI until the next message at most.
TapEnds == ui = "blocked" /\ items # <<>> ~> ui = "free" \/ ~isRunning \/ missed

=============================================================================
