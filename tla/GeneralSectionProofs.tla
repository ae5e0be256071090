------------------------ MODULE GeneralSectionProofs ------------------------
(***************************************************************************)
(* Proofs about GeneralSection, for every value of its constants: the type *)
(* invariant, and with it the four parts of StatusIsTrue, and              *)
(* RowShowsLatestRun.                                                      *)
(***************************************************************************)
EXTENDS GeneralSection, TLAPS

----------------------------------------------------------------------------
(* Records *)

\* The parts of a call are of the right types,
LEMMA CallFields ==
    ASSUME NEW x \in Calls
    PROVE  /\ x.pc \in PCs /\ x.section \in Sections \cup {NoSection}
           /\ x.force \in BOOLEAN /\ x.latest \in BOOLEAN /\ x.status \in Views
  BY DEF Calls

\* ... and so are those of a row.
LEMMA RowFields ==
    ASSUME NEW r \in Rows
    PROVE  /\ r.completed \in {"never", "fresh", "expired"}
           /\ r.error \in BOOLEAN /\ r.started \in BOOLEAN
           /\ View(r) \in Views
  BY DEF Rows, View, Views

\* The rows the actions write.
LEMMA RowEdits ==
    ASSUME NEW r \in Rows
    PROVE  /\ [r EXCEPT !.started = TRUE] \in Rows
           /\ [r EXCEPT !.started = TRUE].error = r.error
           /\ [r EXCEPT !.error = TRUE, !.started = FALSE] \in Rows
           /\ [r EXCEPT !.error = TRUE, !.started = FALSE].error = TRUE
           /\ ~[r EXCEPT !.error = TRUE, !.started = FALSE].started
           /\ [r EXCEPT !.completed = "expired"] \in Rows
           /\ [completed |-> "fresh", error |-> FALSE, started |-> FALSE] \in Rows
  BY DEF Rows

\* A missing row is a row, and a goroutine that has not begun is a call.
LEMMA DefaultsTyped ==
    /\ NoRow \in Rows /\ Idle \in Calls
    /\ Idle.pc = "idle" /\ Idle.section = NoSection /\ Idle.latest = FALSE
<1>1. NoRow \in Rows
  BY DEF NoRow, Rows
<1>2. "idle" \in PCs
  BY DEF PCs
<1>. QED
  BY <1>1, <1>2, RowFields DEF Idle, Calls

----------------------------------------------------------------------------
(* What a step does to the callers *)

\* Every caller has a record of the right kind, and a section when it works.
CallsOK ==
    /\ call \in [Callers -> Calls]
    /\ \A c \in Callers : call[c].pc # "idle" <=> call[c].section \in Sections

\* Only caller c moves, to control point p; its arguments stay.
Moves(c, p) ==
    /\ call'[c].pc = p /\ call'[c].section = call[c].section
    /\ call'[c].force = call[c].force /\ call'[c].latest = call[c].latest
    /\ \A d \in Callers \ {c} : call'[d] = call[d]

\* Goto moves one goroutine to another line,
LEMMA GotoMoves ==
    ASSUME CallsOK, NEW c \in Callers, call[c].pc # "idle", NEW p \in PCs \ {"idle"},
           Goto(c, p)
    PROVE  Moves(c, p) /\ CallsOK' /\ call'[c].status = call[c].status
  BY DEF CallsOK, Calls, Goto, Moves

\* ... Return makes it idle,
LEMMA ReturnMoves ==
    ASSUME CallsOK, NEW c \in Callers, Return(c)
    PROVE  /\ call'[c] = Idle /\ call'[c].pc = "idle" /\ CallsOK'
           /\ \A d \in Callers \ {c} : call'[d] = call[d]
  BY DefaultsTyped, NullAssumption DEF CallsOK, Return

\* ... and after a write of the row it holds what it wrote.
LEMMA WriteRowMoves ==
    ASSUME CallsOK, NEW c \in Callers, call[c].pc # "idle", NEW r \in Rows,
           NEW p \in PCs \ {"idle"}, WriteRow(c, r, p)
    PROVE  Moves(c, p) /\ CallsOK' /\ call'[c].status = View(r)
  BY RowFields DEF CallsOK, Calls, WriteRow, Moves

\* What writing the row of section s does to the rest.
LEMMA WriteRowKeeps ==
    ASSUME TypeOK, NEW c \in Callers, call[c].pc # "idle", NEW r \in Rows, NEW p,
           WriteRow(c, r, p), NEW s \in Sections
    PROVE  /\ call[c].section \in Sections
           /\ row' \in [Sections -> Rows]
           /\ orphaned' \in [Sections -> BOOLEAN] /\ displaced' \in [Sections -> BOOLEAN]
           /\ s = call[c].section =>
                 row'[s] = r /\ ~orphaned'[s] /\ displaced'[s] = Publishing(c, s)
           /\ s # call[c].section =>
                 /\ row'[s] = row[s] /\ orphaned'[s] = orphaned[s]
                 /\ displaced'[s] = displaced[s]
<1>1. call[c].section \in Sections /\ Publishing(c, call[c].section) \in BOOLEAN
  BY DEF TypeOK, Publishing
<1>. QED
  BY <1>1 DEF WriteRow, TypeOK

\* The leader and its waiters.
Crew(c) == {c} \cup {d \in Callers : call[d].pc = "wait" /\ call[d].section = call[c].section}

\* The end of a run moves its leader and those who wait for it, alike.
LEMMA EndFlightMoves ==
    ASSUME TypeOK, NEW c \in Callers, call[c].pc # "idle", NEW o \in {"ok", "fail"},
           EndFlight(c, o)
    PROVE  /\ \A d \in Callers : call'[d].section = call[d].section
           /\ \A d \in Callers : call'[d].status = call[d].status
           /\ \A d \in Crew(c) : call'[d].pc = o /\ call'[d].latest
           /\ \A d \in Callers \ Crew(c) : call'[d].pc = call[d].pc
           /\ \A d \in Callers \ Crew(c) : call'[d].latest <=>
                 call[d].latest /\ call[d].section # call[c].section
           /\ CallsOK'
           /\ flight' \in [Sections -> Callers \cup {NoCaller}]
           /\ latest' \in [Sections -> {"none", "ok", "fail"}]
           /\ mixed' \in [Sections -> BOOLEAN]
           /\ flight'[call[c].section] = NoCaller /\ latest'[call[c].section] = o
           /\ mixed'[call[c].section]
           /\ \A s \in Sections \ {call[c].section} :
                 flight'[s] = flight[s] /\ latest'[s] = latest[s] /\ mixed'[s] = mixed[s]
<1>1. \A d \in Callers : call[d] \in Calls
  BY DEF TypeOK
<1>2. /\ call' \in [Callers -> {call'[d] : d \in Callers}]
      /\ \A d \in Callers : call'[d] =
            IF d \in Crew(c)
            THEN [call[d] EXCEPT !.pc = o, !.latest = TRUE]
            ELSE [call[d] EXCEPT !.latest = @ /\ call[d].section # call[c].section]
  BY DEF EndFlight, Crew
<1>3. o \in PCs \ {"idle"} /\ call[c].section \in Sections
  BY DEF PCs, TypeOK
<1>4. ASSUME NEW d \in Callers
      PROVE  /\ call'[d] \in Calls
             /\ call'[d].section = call[d].section /\ call'[d].status = call[d].status
             /\ d \in Crew(c) => call'[d].pc = o
             /\ d \notin Crew(c) => call'[d].pc = call[d].pc
             /\ call'[d].latest <=>
                   d \in Crew(c) \/ (call[d].latest /\ call[d].section # call[c].section)
  <2>1. CASE d \in Crew(c)
    BY <1>1, <1>2, <1>3, <2>1 DEF Calls
  <2>2. CASE d \notin Crew(c)
    <3>1. call'[d] = [call[d] EXCEPT !.latest = @ /\ call[d].section # call[c].section]
      BY <1>2, <2>2
    <3>2. (call[d].latest /\ call[d].section # call[c].section) \in BOOLEAN
      OBVIOUS
    <3>. QED
      BY <1>1, <2>2, <3>1, <3>2 DEF Calls
  <2>. QED
    BY <2>1, <2>2
<1>5. \A d \in Callers : call'[d].pc # "idle" <=> call[d].pc # "idle"
  BY <1>3, <1>4 DEF Crew
<1>6. CallsOK'
  BY <1>2, <1>4, <1>5 DEF CallsOK, TypeOK
<1>7. /\ flight' = [flight EXCEPT ![call[c].section] = NoCaller]
      /\ latest' = [latest EXCEPT ![call[c].section] = o]
      /\ mixed' = [mixed EXCEPT ![call[c].section] = TRUE]
  BY DEF EndFlight
<1>8. Crew(c) \subseteq Callers
  BY DEF Crew
<1>. QED
  BY <1>3, <1>4, <1>6, <1>7, <1>8 DEF TypeOK

----------------------------------------------------------------------------
(* Type correctness *)

UsedOK == used \in [failures : 0..MaxFailures, events : 0..MaxEvents]

\* Failures and events stay within their bounds.
LEMMA CountsTyped ==
    ASSUME UsedOK, (CanFail /\ CountFailure) \/ CountEvent \/ UNCHANGED used
    PROVE  UsedOK'
  BY BoundAssumption DEF UsedOK, CanFail, CountFailure, CountEvent

\* What is published in the cache is a status.
LEMMA PublishTyped ==
    ASSUME TypeOK, NEW c \in Callers, call[c].pc # "idle", Publish(c)
    PROVE  cache' \in [Sections -> Views]
  BY CallFields DEF Publish, TypeOK

\* A run that fails keeps the types,
LEMMA FailFlightTyped ==
    ASSUME TypeOK, NEW c \in Callers, call[c].pc # "idle", FailFlight(c)
    PROVE  TypeOK'
<1>1. UsedOK'
  BY CountsTyped DEF FailFlight, TypeOK, UsedOK
<1>. QED
  BY <1>1, EndFlightMoves DEF FailFlight, TypeOK, CallsOK, UsedOK

\* ... and so does a record of its outcome.
LEMMA RecordTyped ==
    ASSUME TypeOK, NEW c \in Callers, call[c].pc # "idle", NEW r \in Rows,
           NEW p \in {"okset", "failset"}, Record(c, r, p)
    PROVE  TypeOK'
<1>0. call[c].section \in Sections /\ CallsOK /\ p \in PCs \ {"idle"}
      /\ call[c] \in Calls /\ row[call[c].section] \in Rows
  BY DEF TypeOK, CallsOK, PCs
<1>1. CASE WriteRow(c, r, p) /\ mixed' = [mixed EXCEPT ![call[c].section] = ~call[c].latest]
           /\ UNCHANGED used
  <2>1. CallsOK'
    BY <1>0, <1>1, WriteRowMoves
  <2>2. /\ row' \in [Sections -> Rows]
        /\ orphaned' \in [Sections -> BOOLEAN] /\ displaced' \in [Sections -> BOOLEAN]
    BY <1>0, <1>1, WriteRowKeeps
  <2>3. mixed' \in [Sections -> BOOLEAN]
    BY <1>1, <1>0 DEF TypeOK
  <2>. QED
    BY <1>1, <2>1, <2>2, <2>3 DEF Record, TypeOK, CallsOK
<1>2. CASE /\ CanFail /\ CountFailure /\ Return(c)
           /\ orphaned' = [orphaned EXCEPT ![call[c].section] = row[call[c].section].started]
           /\ UNCHANGED <<row, displaced, mixed>>
  <2>1. CallsOK'
    BY <1>0, <1>2, ReturnMoves
  <2>2. orphaned' \in [Sections -> BOOLEAN]
    BY <1>0, <1>2, RowFields DEF TypeOK
  <2>3. UsedOK'
    BY <1>2, CountsTyped DEF TypeOK, UsedOK
  <2>. QED
    BY <1>2, <2>1, <2>2, <2>3 DEF Record, TypeOK, CallsOK, UsedOK
<1>. QED
  BY <1>1, <1>2 DEF Record

\* Every step keeps the types,
LEMMA TypeStep == TypeOK /\ [Next]_vars => TypeOK'
<1>. SUFFICES ASSUME TypeOK, [Next]_vars PROVE TypeOK'
  OBVIOUS
<1>0. /\ CallsOK /\ UsedOK
      /\ \A s \in Sections : row[s] \in Rows
  BY DEF TypeOK, CallsOK, UsedOK
<1>00. {"check", "enter", "wait", "start", "startset", "update", "updating",
        "okset", "failset"} \subseteq PCs \ {"idle"}
  BY DEF PCs, LeaderPCs
<1>1. ASSUME NEW c \in Callers, Check(c) PROVE TypeOK'
  <2>1. CallsOK'
    BY <1>0, <1>00, <1>1, GotoMoves, ReturnMoves DEF Check
  <2>2. UsedOK'
    BY <1>0, <1>1, CountsTyped DEF Check
  <2>. QED
    BY <1>1, <2>1, <2>2 DEF Check, TypeOK, CallsOK, UsedOK
<1>2. ASSUME NEW c \in Callers, Enter(c) PROVE TypeOK'
  <2>1. CallsOK'
    BY <1>0, <1>00, <1>2, GotoMoves DEF Enter
  <2>. QED
    BY <1>2, <2>1 DEF Enter, TypeOK, CallsOK
<1>3. ASSUME NEW c \in Callers, RecordStart(c) PROVE TypeOK'
  <2>. DEFINE r == [row[call[c].section] EXCEPT !.started = TRUE]
  <2>1. CASE FailFlight(c)
    BY <1>3, <2>1, FailFlightTyped DEF RecordStart
  <2>2. CASE WriteRow(c, r, "startset")
             /\ UNCHANGED <<stored, esi, cache, flight, latest, mixed, skipped, used>>
    <3>1. call[c].pc # "idle" /\ r \in Rows
      BY <1>0, <1>3, RowEdits DEF RecordStart, CallsOK
    <3>. HIDE DEF r
    <3>2. CallsOK'
      BY <1>0, <1>00, <2>2, <3>1, WriteRowMoves
    <3>3. /\ row' \in [Sections -> Rows]
          /\ orphaned' \in [Sections -> BOOLEAN] /\ displaced' \in [Sections -> BOOLEAN]
      BY <1>0, <2>2, <3>1, WriteRowKeeps DEF CallsOK
    <3>. QED
      BY <2>2, <3>2, <3>3 DEF TypeOK, CallsOK
  <2>. QED
    BY <1>3, <2>1, <2>2 DEF RecordStart
<1>4. ASSUME NEW c \in Callers, PublishStart(c) PROVE TypeOK'
  <2>1. CallsOK' /\ cache' \in [Sections -> Views]
    BY <1>0, <1>00, <1>4, GotoMoves, PublishTyped DEF PublishStart
  <2>. QED
    BY <1>4, <2>1 DEF PublishStart, TypeOK, CallsOK
<1>5. ASSUME NEW c \in Callers, UpdateFirst(c) PROVE TypeOK'
  <2>1. CASE FailFlight(c)
    BY <1>5, <2>1, FailFlightTyped DEF UpdateFirst
  <2>2. CASE ~FailFlight(c)
    <3>1. CallsOK'
      BY <1>0, <1>00, <1>5, <2>2, GotoMoves DEF UpdateFirst
    <3>. QED
      BY <1>5, <2>2, <3>1 DEF UpdateFirst, TypeOK, CallsOK
  <2>. QED
    BY <2>1, <2>2
<1>6. ASSUME NEW c \in Callers, UpdateRest(c) PROVE TypeOK'
  <2>1. CASE FailFlight(c)
    BY <1>6, <2>1, FailFlightTyped DEF UpdateRest
  <2>2. CASE ~FailFlight(c)
    <3>1. EndFlight(c, "ok") /\ call[c].pc # "idle" /\ call[c].section \in Sections
      BY <1>0, <1>6, <2>2 DEF UpdateRest, CallsOK
    <3>2. /\ CallsOK'
          /\ flight' \in [Sections -> Callers \cup {NoCaller}]
          /\ latest' \in [Sections -> {"none", "ok", "fail"}]
          /\ mixed' \in [Sections -> BOOLEAN]
      BY <3>1, EndFlightMoves
    <3>3. stored' \in [Sections -> Contents \cup {NoContent, Torn}]
      BY <1>6, <2>2, <3>1 DEF UpdateRest, TypeOK
    <3>. QED
      BY <1>6, <2>2, <3>2, <3>3 DEF UpdateRest, TypeOK, CallsOK
  <2>. QED
    BY <2>1, <2>2
<1>7. ASSUME NEW c \in Callers, RecordError(c) PROVE TypeOK'
  <2>. DEFINE r == [row[call[c].section] EXCEPT !.error = TRUE, !.started = FALSE]
  <2>1. call[c].pc # "idle" /\ r \in Rows /\ Record(c, r, "failset")
    BY <1>0, <1>7, RowEdits DEF RecordError, CallsOK
  <2>. HIDE DEF r
  <2>. QED
    BY <2>1, RecordTyped
<1>8. ASSUME NEW c \in Callers, PublishError(c) PROVE TypeOK'
  <2>1. CallsOK' /\ cache' \in [Sections -> Views]
    BY <1>0, <1>8, ReturnMoves, PublishTyped DEF PublishError
  <2>. QED
    BY <1>8, <2>1 DEF PublishError, TypeOK, CallsOK
<1>9. ASSUME NEW c \in Callers, RecordCompletion(c) PROVE TypeOK'
  <2>. DEFINE r == [completed |-> "fresh", error |-> FALSE, started |-> FALSE]
  <2>1. call[c].pc # "idle" /\ r \in Rows /\ Record(c, r, "okset")
    BY <1>9 DEF RecordCompletion, Rows
  <2>. HIDE DEF r
  <2>. QED
    BY <2>1, RecordTyped
<1>10. ASSUME NEW c \in Callers, PublishCompletion(c) PROVE TypeOK'
  <2>1. CallsOK' /\ cache' \in [Sections -> Views]
    BY <1>0, <1>10, ReturnMoves, PublishTyped DEF PublishCompletion
  <2>. QED
    BY <1>10, <2>1 DEF PublishCompletion, TypeOK, CallsOK
<1>11. ASSUME NEW c \in Callers, NEW s \in Sections, NEW f \in BOOLEAN, Begin(c, s, f)
       PROVE  TypeOK'
  <2>. DEFINE x == [Idle EXCEPT !.pc = "check", !.section = s, !.force = f]
  <2>1. x \in Calls /\ x.pc # "idle" /\ x.section \in Sections
    BY <1>00, DefaultsTyped DEF Calls
  <2>2. call' = [call EXCEPT ![c] = x]
    BY <1>11 DEF Begin
  <2>. HIDE DEF x
  <2>3. CallsOK'
    BY <1>0, <2>1, <2>2 DEF CallsOK
  <2>. QED
    BY <1>11, <2>3 DEF Begin, TypeOK, CallsOK
<1>12. ASSUME NEW s \in Sections, Expire(s) PROVE TypeOK'
  <2>1. row' \in [Sections -> Rows]
    BY <1>0, <1>12, RowEdits DEF Expire, TypeOK
  <2>. QED
    BY <1>12, <2>1 DEF Expire, TypeOK
<1>13. ASSUME NEW s \in Sections, EsiChange(s) PROVE TypeOK'
  <2>1. UsedOK'
    BY <1>0, <1>13, CountsTyped DEF EsiChange
  <2>. QED
    BY <1>13, <2>1 DEF EsiChange, TypeOK, UsedOK
<1>14. CASE Restart
  <2>1. UsedOK'
    BY <1>0, <1>14, CountsTyped DEF Restart
  <2>2. cache' \in [Sections -> Views] /\ orphaned' \in [Sections -> BOOLEAN]
        /\ latest' \in [Sections -> {"none", "ok", "fail"}]
    BY <1>0, <1>14, RowFields DEF Restart
  <2>3. CallsOK'
    BY <1>14, DefaultsTyped, NullAssumption DEF Restart, CallsOK
  <2>. QED
    BY <1>14, <2>1, <2>2, <2>3 DEF Restart, TypeOK, CallsOK, UsedOK
<1>15. CASE ClearCache
  <2>1. UsedOK' /\ View(NoRow) \in Views
    BY <1>0, <1>15, CountsTyped, DefaultsTyped, RowFields DEF ClearCache
  <2>. QED
    BY <1>15, <2>1 DEF ClearCache, TypeOK, UsedOK
<1>16. CASE UNCHANGED vars
  BY <1>16 DEF vars, TypeOK
<1>. QED
  BY <1>1, <1>2, <1>3, <1>4, <1>5, <1>6, <1>7, <1>8, <1>9, <1>10, <1>11, <1>12,
     <1>13, <1>14, <1>15, <1>16 DEF Next, Step

\* ... and they hold when the program has started.
LEMMA TypeInit == Init => TypeOK
<1>. SUFFICES ASSUME Init PROVE TypeOK
  OBVIOUS
<1>1. View(NoRow) \in Views
  BY DefaultsTyped, RowFields
<1>. QED
  BY <1>1, DefaultsTyped, NullAssumption, BoundAssumption DEF Init, TypeOK

----------------------------------------------------------------------------
(* One run of a section at a time *)

\* The end of a run frees the section and sends the leader and its waiters on.
LEMMA EndFlightSingle ==
    ASSUME TypeOK, SingleRun, NEW c \in Callers, call[c].pc \in LeaderPCs,
           NEW o \in {"ok", "fail"}, EndFlight(c, o)
    PROVE  SingleRun'
<1>. DEFINE s == call[c].section
<1>1. s \in Sections /\ flight[s] = c /\ call[c].pc # "idle"
  BY DEF TypeOK, SingleRun, LeaderPCs
<1>2. /\ \A d \in Callers : call'[d].section = call[d].section
      /\ \A d \in Crew(c) : call'[d].pc = o
      /\ \A d \in Callers \ Crew(c) : call'[d].pc = call[d].pc
      /\ flight'[s] = NoCaller
      /\ \A t \in Sections \ {s} : flight'[t] = flight[t]
  BY <1>1, EndFlightMoves
<1>3. \A d \in Callers : call'[d].pc \in LeaderPCs \cup {"wait"} =>
         call'[d].pc = call[d].pc /\ d \notin Crew(c) /\ call[d].section # s
  <2>. SUFFICES ASSUME NEW d \in Callers, call'[d].pc \in LeaderPCs \cup {"wait"}
                PROVE  call'[d].pc = call[d].pc /\ d \notin Crew(c) /\ call[d].section # s
    OBVIOUS
  <2>1. d \notin Crew(c)
    BY <1>2 DEF LeaderPCs
  <2>2. call'[d].pc = call[d].pc /\ d # c
    BY <1>2, <2>1 DEF Crew
  <2>. QED
    BY <1>1, <2>1, <2>2 DEF Crew, SingleRun
<1>4. \A t \in Sections : flight'[t] # NoCaller =>
         t # s /\ flight'[t] = flight[t] /\ flight[t] \in Callers \ Crew(c)
  BY <1>1, <1>2 DEF Crew, SingleRun, LeaderPCs, TypeOK
<1>5. \A d \in Callers : call[d].pc # "idle" => call[d].section \in Sections
  BY DEF TypeOK
<1>6. ASSUME NEW t \in Sections, flight'[t] # NoCaller
      PROVE  call'[flight'[t]].pc \in LeaderPCs /\ call'[flight'[t]].section = t
  BY <1>2, <1>4, <1>6 DEF SingleRun
<1>7. ASSUME NEW d \in Callers, call'[d].pc \in LeaderPCs \cup {"wait"}
      PROVE  /\ call'[d].pc \in LeaderPCs => flight'[call'[d].section] = d
             /\ call'[d].pc = "wait" => flight'[call'[d].section] # NoCaller
  <2>1. /\ call'[d].pc = call[d].pc /\ call'[d].section = call[d].section
        /\ call[d].section \in Sections \ {s}
    BY <1>2, <1>3, <1>5, <1>7 DEF LeaderPCs
  <2>. QED
    BY <1>2, <2>1 DEF SingleRun
<1>. QED
  BY <1>6, <1>7 DEF SingleRun

\* Every step keeps one run of a section at a time,
LEMMA SingleRunStep == TypeOK /\ SingleRun /\ [Next]_vars => SingleRun'
<1>. SUFFICES ASSUME TypeOK, SingleRun, [Next]_vars PROVE SingleRun'
  OBVIOUS
<1>. USE DEF SingleRun
<1>0. /\ CallsOK /\ flight \in [Sections -> Callers \cup {NoCaller}]
      /\ \A c \in Callers : call[c].pc # "idle" => call[c].section \in Sections
      /\ \A s \in Sections : row[s] \in Rows
  BY DEF TypeOK, CallsOK
<1>00. {"enter", "wait", "start", "startset", "update", "updating",
        "okset", "failset"} \subseteq PCs \ {"idle"}
  BY DEF PCs, LeaderPCs
\* A caller outside a run moves outside a run.
<1>1. ASSUME NEW c \in Callers, UNCHANGED flight,
             call[c].pc \notin LeaderPCs, call'[c].pc \notin LeaderPCs \cup {"wait"},
             \A d \in Callers \ {c} : call'[d] = call[d]
      PROVE  SingleRun'
  BY <1>0, <1>1, NullAssumption
\* A leader goes on with its run.
<1>2. ASSUME NEW c \in Callers, NEW p \in LeaderPCs, Moves(c, p), UNCHANGED flight,
             call[c].pc \in LeaderPCs
      PROVE  SingleRun'
  BY <1>0, <1>2, NullAssumption DEF Moves, LeaderPCs
<1>3. ASSUME NEW c \in Callers, FailFlight(c), call[c].pc \in LeaderPCs PROVE SingleRun'
  BY <1>3, EndFlightSingle DEF FailFlight
<1>4. ASSUME NEW c \in Callers, Check(c) PROVE SingleRun'
  <2>1. CASE Return(c)
    BY <1>0, <1>1, <1>4, <2>1, ReturnMoves DEF Check, LeaderPCs
  <2>2. CASE Goto(c, "enter")
    BY <1>0, <1>00, <1>1, <1>4, <2>2, GotoMoves DEF Check, LeaderPCs, Moves
  <2>. QED
    BY <1>4, <2>1, <2>2 DEF Check
<1>5. ASSUME NEW c \in Callers, Enter(c) PROVE SingleRun'
  <2>. DEFINE s == call[c].section
  <2>1. call[c].pc = "enter" /\ s \in Sections /\ call[c].pc # "idle"
    BY <1>0, <1>5 DEF Enter
  <2>2. CASE flight[s] = NoCaller
    <3>1. Moves(c, "start") /\ flight' = [flight EXCEPT ![s] = c]
      BY <1>0, <1>00, <1>5, <2>1, <2>2, GotoMoves DEF Enter
    <3>2. \A d \in Callers : call'[d].pc \in LeaderPCs =>
             d = c \/ (call[d].pc \in LeaderPCs /\ call'[d] = call[d])
      BY <3>1 DEF Moves
    <3>3. \A d \in Callers : call[d].pc \in LeaderPCs => call[d].section # s
      BY <2>1, <2>2, NullAssumption
    <3>. QED
      BY <1>0, <2>1, <2>2, <3>1, <3>2, <3>3, NullAssumption DEF Moves, LeaderPCs
  <2>3. CASE flight[s] # NoCaller
    <3>1. Moves(c, "wait") /\ UNCHANGED flight
      BY <1>0, <1>00, <1>5, <2>1, <2>3, GotoMoves DEF Enter
    <3>. QED
      BY <1>0, <2>1, <2>3, <3>1 DEF Moves, LeaderPCs
  <2>. QED
    BY <2>2, <2>3
<1>6. ASSUME NEW c \in Callers, RecordStart(c) PROVE SingleRun'
  <2>. DEFINE r == [row[call[c].section] EXCEPT !.started = TRUE]
  <2>1. CASE WriteRow(c, r, "startset") /\ UNCHANGED flight
    <3>1. call[c].pc = "start" /\ r \in Rows
      BY <1>0, <1>6, RowEdits DEF RecordStart
    <3>. HIDE DEF r
    <3>2. Moves(c, "startset")
      BY <1>0, <1>00, <2>1, <3>1, WriteRowMoves
    <3>. QED
      BY <1>2, <2>1, <3>1, <3>2 DEF LeaderPCs
  <2>. QED
    BY <1>3, <1>6, <2>1 DEF RecordStart, LeaderPCs
<1>7. ASSUME NEW c \in Callers, PublishStart(c) PROVE SingleRun'
  BY <1>0, <1>00, <1>2, <1>7, GotoMoves DEF PublishStart, LeaderPCs
<1>8. ASSUME NEW c \in Callers, UpdateFirst(c) PROVE SingleRun'
  BY <1>0, <1>00, <1>2, <1>3, <1>8, GotoMoves DEF UpdateFirst, LeaderPCs
<1>9. ASSUME NEW c \in Callers, UpdateRest(c) PROVE SingleRun'
  BY <1>3, <1>9, EndFlightSingle DEF UpdateRest, LeaderPCs
\* The outcome is recorded outside the run.
<1>10. ASSUME NEW c \in Callers, NEW r \in Rows, NEW p \in {"okset", "failset"},
              call[c].pc \in {"ok", "fail"}, Record(c, r, p)
       PROVE  SingleRun'
  <2>1. UNCHANGED flight /\ call[c].pc \notin LeaderPCs /\ call[c].pc # "idle"
    BY <1>10 DEF Record, LeaderPCs
  <2>2. /\ call'[c].pc \in {"idle", p}
        /\ \A d \in Callers \ {c} : call'[d] = call[d]
    <3>1. CASE WriteRow(c, r, p)
      BY <1>0, <1>00, <1>10, <2>1, <3>1, WriteRowMoves DEF Moves
    <3>2. CASE Return(c)
      BY <1>0, <3>2, ReturnMoves
    <3>. QED
      BY <1>10, <3>1, <3>2 DEF Record
  <2>. QED
    BY <1>1, <1>10, <2>1, <2>2 DEF LeaderPCs
<1>11. ASSUME NEW c \in Callers, RecordError(c) PROVE SingleRun'
  <2>1. row[call[c].section] \in Rows
    BY <1>0, <1>11 DEF TypeOK, RecordError
  <2>2. [row[call[c].section] EXCEPT !.error = TRUE, !.started = FALSE] \in Rows
    BY <2>1, RowEdits
  <2>3. /\ call[c].pc = "fail"
        /\ Record(c, [row[call[c].section] EXCEPT !.error = TRUE, !.started = FALSE], "failset")
    BY <1>11 DEF RecordError
  <2>. QED
    BY <1>10, <2>2, <2>3
<1>12. ASSUME NEW c \in Callers, RecordCompletion(c) PROVE SingleRun'
  BY <1>10, <1>12 DEF RecordCompletion, Rows
<1>13. ASSUME NEW c \in Callers, PublishError(c) \/ PublishCompletion(c) PROVE SingleRun'
  BY <1>0, <1>1, <1>13, ReturnMoves DEF PublishError, PublishCompletion, LeaderPCs
<1>14. ASSUME NEW c \in Callers, NEW s \in Sections, NEW f \in BOOLEAN, Begin(c, s, f)
       PROVE  SingleRun'
  <2>1. /\ call'[c].pc = "check" /\ UNCHANGED flight
        /\ \A d \in Callers \ {c} : call'[d] = call[d]
    BY <1>0, <1>14 DEF Begin, CallsOK, Idle
  <2>. QED
    BY <1>1, <1>14, <2>1 DEF Begin, LeaderPCs
<1>15. CASE Restart
  BY <1>15, DefaultsTyped DEF Restart, LeaderPCs
<1>16. CASE UNCHANGED <<flight, call>>
  BY <1>16
<1>. QED
  BY <1>4, <1>5, <1>6, <1>7, <1>8, <1>9, <1>11, <1>12, <1>13, <1>14, <1>15, <1>16
     DEF Next, Step, Expire, EsiChange, ClearCache, vars

----------------------------------------------------------------------------
(* A start mark has an owner *)

\* A step that keeps the owners, and marks no section anew.
LEMMA OwnerFrame ==
    ASSUME RunningHasOwner,
           \A d \in Callers : call[d].pc \in OwnerPCs =>
              call'[d].pc \in OwnerPCs /\ call'[d].section = call[d].section,
           \A s \in Sections : row'[s].started /\ ~orphaned'[s] =>
              row[s].started /\ ~orphaned[s]
    PROVE  RunningHasOwner'
  BY DEF RunningHasOwner

\* The crew of a run that ends own the mark until they record the outcome.
LEMMA EndFlightOwners ==
    ASSUME TypeOK, RunningHasOwner, NEW c \in Callers, call[c].pc # "idle",
           NEW o \in {"ok", "fail"}, EndFlight(c, o), UNCHANGED <<row, orphaned>>
    PROVE  RunningHasOwner'
<1>1. /\ \A d \in Callers : call'[d].section = call[d].section
      /\ \A d \in Crew(c) : call'[d].pc = o
      /\ \A d \in Callers \ Crew(c) : call'[d].pc = call[d].pc
  BY EndFlightMoves
<1>2. ASSUME NEW d \in Callers, call[d].pc \in OwnerPCs
      PROVE  call'[d].pc \in OwnerPCs /\ call'[d].section = call[d].section
  <2>1. CASE d \in Crew(c)
    BY <1>1, <2>1 DEF OwnerPCs
  <2>2. CASE d \notin Crew(c)
    BY <1>1, <1>2, <2>2
  <2>. QED
    BY <2>1, <2>2
<1>. QED
  BY <1>2, OwnerFrame

\* ... and the owners of start marks.
LEMMA RunningHasOwnerStep == TypeOK /\ RunningHasOwner /\ [Next]_vars => RunningHasOwner'
<1>. SUFFICES ASSUME TypeOK, RunningHasOwner, [Next]_vars PROVE RunningHasOwner'
  OBVIOUS
<1>0. /\ CallsOK
      /\ \A c \in Callers : call[c].pc # "idle" => call[c].section \in Sections
      /\ \A s \in Sections : row[s] \in Rows
  BY DEF TypeOK, CallsOK
<1>00. {"enter", "wait", "start", "startset", "update", "updating",
        "okset", "failset"} \subseteq PCs \ {"idle"}
  BY DEF PCs, LeaderPCs
<1>1. ASSUME NEW c \in Callers, FailFlight(c), call[c].pc # "idle" PROVE RunningHasOwner'
  BY <1>1, EndFlightOwners DEF FailFlight
\* A caller that owns no mark moves.
<1>2. ASSUME NEW c \in Callers, call[c].pc \notin OwnerPCs,
             \A d \in Callers \ {c} : call'[d] = call[d], UNCHANGED <<row, orphaned>>
      PROVE  RunningHasOwner'
  BY <1>2, OwnerFrame
\* An owner stays one.
<1>3. ASSUME NEW c \in Callers, NEW p \in OwnerPCs, Moves(c, p), UNCHANGED <<row, orphaned>>
      PROVE  RunningHasOwner'
  BY <1>3, OwnerFrame DEF Moves
<1>4. ASSUME NEW c \in Callers, Check(c) PROVE RunningHasOwner'
  <2>1. \A d \in Callers \ {c} : call'[d] = call[d]
    BY <1>0, <1>00, <1>4, GotoMoves, ReturnMoves DEF Check, Moves
  <2>. QED
    BY <1>2, <1>4, <2>1 DEF Check, OwnerPCs
<1>5. ASSUME NEW c \in Callers, Enter(c) PROVE RunningHasOwner'
  <2>1. \A d \in Callers \ {c} : call'[d] = call[d]
    BY <1>0, <1>00, <1>5, GotoMoves DEF Enter, Moves
  <2>. QED
    BY <1>2, <1>5, <2>1 DEF Enter, OwnerPCs
\* Whoever sets the mark is its owner.
<1>6. ASSUME NEW c \in Callers, RecordStart(c) PROVE RunningHasOwner'
  <2>. DEFINE r == [row[call[c].section] EXCEPT !.started = TRUE]
  <2>1. CASE WriteRow(c, r, "startset")
    <3>1. call[c].pc = "start" /\ r \in Rows
      BY <1>0, <1>6, RowEdits DEF RecordStart
    <3>. HIDE DEF r
    <3>2. Moves(c, "startset")
      BY <1>0, <1>00, <2>1, <3>1, WriteRowMoves
    <3>3. \A s \in Sections : s # call[c].section =>
             row'[s] = row[s] /\ orphaned'[s] = orphaned[s]
      BY <2>1, <3>1, WriteRowKeeps
    <3>. QED
      BY <3>1, <3>2, <3>3 DEF RunningHasOwner, OwnerPCs, Moves
  <2>. QED
    BY <1>1, <1>6, <2>1 DEF RecordStart
<1>7. ASSUME NEW c \in Callers, PublishStart(c) PROVE RunningHasOwner'
  BY <1>0, <1>00, <1>3, <1>7, GotoMoves DEF PublishStart, OwnerPCs
<1>8. ASSUME NEW c \in Callers, UpdateFirst(c) PROVE RunningHasOwner'
  BY <1>0, <1>00, <1>1, <1>3, <1>8, GotoMoves DEF UpdateFirst, OwnerPCs
<1>9. ASSUME NEW c \in Callers, UpdateRest(c) PROVE RunningHasOwner'
  BY <1>1, <1>9, EndFlightOwners DEF UpdateRest
\* The mark is cleared with the outcome, or orphaned when that is lost.
<1>10. ASSUME NEW c \in Callers, NEW r \in Rows, NEW p \in {"okset", "failset"},
              call[c].pc # "idle", ~r.started, Record(c, r, p)
       PROVE  RunningHasOwner'
  <2>1. CASE WriteRow(c, r, p)
    <3>1. Moves(c, p)
      BY <1>0, <1>00, <1>10, <2>1, WriteRowMoves
    <3>2. \A s \in Sections : /\ s = call[c].section => row'[s] = r
                              /\ s # call[c].section =>
                                    row'[s] = row[s] /\ orphaned'[s] = orphaned[s]
      BY <1>10, <2>1, WriteRowKeeps
    <3>. QED
      BY <1>10, <3>1, <3>2 DEF RunningHasOwner, Moves
  <2>2. CASE Return(c) /\ UNCHANGED row
             /\ orphaned' = [orphaned EXCEPT ![call[c].section] = row[call[c].section].started]
    <3>1. /\ \A d \in Callers \ {c} : call'[d] = call[d]
          /\ call[c].section \in Sections
      BY <1>0, <1>10, <2>2, ReturnMoves
    <3>2. /\ orphaned'[call[c].section] = row[call[c].section].started
          /\ \A s \in Sections \ {call[c].section} : orphaned'[s] = orphaned[s]
      BY <2>2, <3>1 DEF TypeOK
    <3>. QED
      BY <2>2, <3>1, <3>2 DEF RunningHasOwner
  <2>. QED
    BY <1>10, <2>1, <2>2 DEF Record
<1>11. ASSUME NEW c \in Callers, RecordError(c) PROVE RunningHasOwner'
  <2>. DEFINE r == [row[call[c].section] EXCEPT !.error = TRUE, !.started = FALSE]
  <2>1. r \in Rows /\ ~r.started /\ call[c].pc # "idle" /\ Record(c, r, "failset")
    BY <1>0, <1>11, RowEdits DEF RecordError
  <2>. HIDE DEF r
  <2>. QED
    BY <1>10, <2>1
<1>12. ASSUME NEW c \in Callers, RecordCompletion(c) PROVE RunningHasOwner'
  <2>. DEFINE r == [completed |-> "fresh", error |-> FALSE, started |-> FALSE]
  <2>1. r \in Rows /\ ~r.started /\ call[c].pc # "idle" /\ Record(c, r, "okset")
    BY <1>12 DEF RecordCompletion, Rows
  <2>. HIDE DEF r
  <2>. QED
    BY <1>10, <2>1
<1>13. ASSUME NEW c \in Callers, PublishError(c) \/ PublishCompletion(c)
       PROVE  RunningHasOwner'
  BY <1>0, <1>2, <1>13, ReturnMoves DEF PublishError, PublishCompletion, OwnerPCs
<1>14. ASSUME NEW c \in Callers, NEW s \in Sections, NEW f \in BOOLEAN, Begin(c, s, f)
       PROVE  RunningHasOwner'
  <2>1. \A d \in Callers \ {c} : call'[d] = call[d]
    BY <1>0, <1>14 DEF Begin, CallsOK
  <2>. QED
    BY <1>2, <1>14, <2>1 DEF Begin, OwnerPCs
<1>15. ASSUME NEW s \in Sections, Expire(s) PROVE RunningHasOwner'
  <2>1. \A t \in Sections : row'[t].started = row[t].started
    BY <1>0, <1>15 DEF Expire, TypeOK, Rows
  <2>. QED
    BY <1>15, <2>1, OwnerFrame DEF Expire
<1>16. CASE Restart
  BY <1>16 DEF Restart, RunningHasOwner
<1>17. CASE UNCHANGED <<row, call, orphaned>>
  BY <1>17, OwnerFrame
<1>. QED
  BY <1>4, <1>5, <1>6, <1>7, <1>8, <1>9, <1>11, <1>12, <1>13, <1>14, <1>15, <1>16, <1>17
     DEF Next, Step, EsiChange, ClearCache, vars

----------------------------------------------------------------------------
(* The cache shows the row *)

Publishes(d, s) == call[d].pc \in PublishPCs /\ call[d].section = s

\* While the entry of a section is not displaced, all that is on its way to
\* the cache is the view of the row as it is now.
CacheOK(s) ==
    /\ \A d \in Callers : Publishes(d, s) => call[d].status = View(row[s])
    /\ (\A d \in Callers : ~Publishes(d, s)) => cache[s] = View(row[s])
CacheInv == \A s \in Sections : ~displaced[s] => CacheOK(s)

\* What goroutines are about to publish makes the cache coherent.
LEMMA CacheInvSuffices == CacheInv => CacheCoherent
  BY NullAssumption DEF CacheInv, CacheOK, CacheCoherent, Publishing, Publishes

\* A section nobody publishes now or then, whose row and entry stay.
LEMMA CacheKept ==
    ASSUME NEW s \in Sections, CacheOK(s), cache'[s] = cache[s],
           View(row'[s]) = View(row[s]),
           \A d \in Callers : \/ call'[d] = call[d]
                              \/ ~Publishes(d, s) /\ ~Publishes(d, s)'
                              \/ /\ call'[d].pc = call[d].pc
                                 /\ call'[d].section = call[d].section
                                 /\ call'[d].status = call[d].status
    PROVE  CacheOK(s)'
<1>1. \A d \in Callers : Publishes(d, s)' <=> Publishes(d, s)
  BY DEF Publishes
<1>2. \A d \in Callers : Publishes(d, s)' => call'[d].status = call[d].status
  BY DEF Publishes
<1>3. \A d \in Callers : Publishes(d, s)' => call'[d].status = View(row'[s])
  BY <1>1, <1>2 DEF CacheOK
<1>4. (\A d \in Callers : ~Publishes(d, s)') => cache'[s] = View(row'[s])
  BY <1>1 DEF CacheOK
<1>. QED
  BY <1>3, <1>4 DEF CacheOK, View

\* A step that neither writes a row nor publishes.
LEMMA CacheFrame ==
    ASSUME CacheInv, UNCHANGED <<cache, displaced>>,
           \A s \in Sections : View(row'[s]) = View(row[s]),
           \A d \in Callers : \/ call'[d] = call[d]
                              \/ /\ call[d].pc \notin PublishPCs
                                 /\ call'[d].pc \notin PublishPCs
                              \/ /\ call'[d].pc = call[d].pc
                                 /\ call'[d].section = call[d].section
                                 /\ call'[d].status = call[d].status
    PROVE  CacheInv'
<1>. SUFFICES ASSUME NEW s \in Sections, ~displaced'[s] PROVE CacheOK(s)'
  BY DEF CacheInv
<1>1. CacheOK(s)
  BY DEF CacheInv
<1>2. \A d \in Callers : \/ call'[d] = call[d]
                         \/ ~Publishes(d, s) /\ ~Publishes(d, s)'
                         \/ /\ call'[d].pc = call[d].pc
                            /\ call'[d].section = call[d].section
                            /\ call'[d].status = call[d].status
  BY DEF Publishes
<1>. QED
  BY <1>1, <1>2, CacheKept

\* Writing the row: the writer brings the view of what it wrote.
LEMMA CacheWrite ==
    ASSUME CacheInv, TypeOK, NEW c \in Callers, call[c].pc \notin PublishPCs \cup {"idle"},
           NEW r \in Rows, NEW p \in PublishPCs, WriteRow(c, r, p), UNCHANGED cache
    PROVE  CacheInv'
<1>. SUFFICES ASSUME NEW s \in Sections, ~displaced'[s] PROVE CacheOK(s)'
  BY DEF CacheInv
<1>1. CallsOK /\ p \in PCs \ {"idle"}
  BY DEF TypeOK, CallsOK, PublishPCs, PCs, LeaderPCs
<1>2. Moves(c, p) /\ call'[c].status = View(r)
  BY <1>1, WriteRowMoves
<1>3. CASE s = call[c].section
  <2>1. row'[s] = r /\ ~Publishing(c, s)
    BY <1>3, WriteRowKeeps
  <2>2. \A d \in Callers : Publishes(d, s)' => d = c
    BY <1>2, <2>1 DEF Publishes, Publishing, Moves
  <2>3. Publishes(c, s)'
    BY <1>2, <1>3 DEF Publishes, Moves
  <2>4. \A d \in Callers : Publishes(d, s)' => call'[d].status = View(row'[s])
    BY <1>2, <2>1, <2>2
  <2>. QED
    BY <2>3, <2>4 DEF CacheOK, View
<1>4. CASE s # call[c].section
  <2>1. row'[s] = row[s] /\ ~displaced[s]
    BY <1>4, WriteRowKeeps
  <2>2. CacheOK(s)
    BY <2>1 DEF CacheInv
  <2>3. ~Publishes(c, s) /\ ~Publishes(c, s)'
    BY <1>2, <1>4 DEF Publishes, Moves
  <2>4. \A d \in Callers : call'[d] = call[d] \/ (~Publishes(d, s) /\ ~Publishes(d, s)')
    BY <1>2, <2>3 DEF Moves
  <2>. QED
    BY <2>1, <2>2, <2>4, CacheKept
<1>. QED
  BY <1>3, <1>4

\* Publishing: what a publisher of a section brings is the view of its row.
LEMMA CachePublish ==
    ASSUME CacheInv, TypeOK, NEW c \in Callers, call[c].pc \in PublishPCs,
           Publish(c), UNCHANGED <<row, displaced>>, call'[c].pc \notin PublishPCs,
           \A d \in Callers \ {c} : call'[d] = call[d]
    PROVE  CacheInv'
<1>. SUFFICES ASSUME NEW s \in Sections, ~displaced'[s] PROVE CacheOK(s)'
  BY DEF CacheInv
<1>1. call[c].section \in Sections /\ CacheOK(s)
  BY DEF TypeOK, CacheInv, PublishPCs
<1>2. \A d \in Callers : Publishes(d, s)' => Publishes(d, s) /\ call'[d] = call[d]
  BY DEF Publishes
<1>3. \A d \in Callers : Publishes(d, s)' => call'[d].status = View(row'[s])
  BY <1>1, <1>2 DEF CacheOK
<1>4. CASE s = call[c].section
  <2>1. cache'[s] = call[c].status /\ Publishes(c, s)
    BY <1>1, <1>4 DEF Publish, Publishes, TypeOK
  <2>2. cache'[s] = View(row'[s])
    BY <1>1, <2>1 DEF CacheOK
  <2>. QED
    BY <1>3, <2>2 DEF CacheOK, View
<1>5. CASE s # call[c].section
  <2>1. cache'[s] = cache[s] /\ ~Publishes(c, s) /\ ~Publishes(c, s)'
    BY <1>1, <1>5 DEF Publish, Publishes, TypeOK
  <2>2. \A d \in Callers : call'[d] = call[d] \/ (~Publishes(d, s) /\ ~Publishes(d, s)')
    BY <2>1
  <2>. QED
    BY <1>1, <2>1, <2>2, CacheKept
<1>. QED
  BY <1>4, <1>5

\* Every step keeps what goroutines are about to publish.
LEMMA CacheInvStep == TypeOK /\ CacheInv /\ [Next]_vars => CacheInv'
<1>. SUFFICES ASSUME TypeOK, CacheInv, [Next]_vars PROVE CacheInv'
  OBVIOUS
<1>0. /\ CallsOK
      /\ \A c \in Callers : call[c].pc # "idle" => call[c].section \in Sections
      /\ \A s \in Sections : row[s] \in Rows
  BY DEF TypeOK, CallsOK
<1>00. {"enter", "wait", "start", "startset", "update", "updating",
        "okset", "failset"} \subseteq PCs \ {"idle"}
  BY DEF PCs, LeaderPCs
\* One caller moves between two control points that have nothing to publish.
<1>1. ASSUME NEW c \in Callers, call[c].pc \notin PublishPCs, call'[c].pc \notin PublishPCs,
             \A d \in Callers \ {c} : call'[d] = call[d],
             UNCHANGED <<row, cache, displaced>>
      PROVE  CacheInv'
  BY <1>1, CacheFrame
<1>2. ASSUME NEW c \in Callers, NEW o \in {"ok", "fail"}, EndFlight(c, o),
             call[c].pc \notin PublishPCs \cup {"idle"}, UNCHANGED <<row, cache, displaced>>
      PROVE  CacheInv'
  <2>1. /\ \A d \in Callers : call'[d].section = call[d].section
        /\ \A d \in Callers : call'[d].status = call[d].status
        /\ \A d \in Crew(c) : call'[d].pc = o
        /\ \A d \in Callers \ Crew(c) : call'[d].pc = call[d].pc
    BY <1>2, EndFlightMoves
  <2>2. \A d \in Crew(c) : call[d].pc \notin PublishPCs /\ o \notin PublishPCs
    BY <1>2 DEF Crew, PublishPCs
  <2>3. \A d \in Callers : \/ call[d].pc \notin PublishPCs /\ call'[d].pc \notin PublishPCs
                           \/ /\ call'[d].pc = call[d].pc
                              /\ call'[d].section = call[d].section
                              /\ call'[d].status = call[d].status
    BY <2>1, <2>2
  <2>. QED
    BY <1>2, <2>3, CacheFrame
<1>3. ASSUME NEW c \in Callers, FailFlight(c), call[c].pc \notin PublishPCs \cup {"idle"}
      PROVE  CacheInv'
  BY <1>2, <1>3 DEF FailFlight
<1>4. ASSUME NEW c \in Callers, Check(c) PROVE CacheInv'
  <2>1. /\ \A d \in Callers \ {c} : call'[d] = call[d]
        /\ call'[c].pc \in {"enter", "idle"}
    BY <1>0, <1>00, <1>4, GotoMoves, ReturnMoves DEF Check, Moves
  <2>. QED
    BY <1>1, <1>4, <2>1 DEF Check, PublishPCs
<1>5. ASSUME NEW c \in Callers, Enter(c) PROVE CacheInv'
  <2>1. /\ \A d \in Callers \ {c} : call'[d] = call[d]
        /\ call'[c].pc \in {"start", "wait"}
    BY <1>0, <1>00, <1>5, GotoMoves DEF Enter, Moves
  <2>. QED
    BY <1>1, <1>5, <2>1 DEF Enter, PublishPCs
<1>6. ASSUME NEW c \in Callers, RecordStart(c) PROVE CacheInv'
  <2>. DEFINE r == [row[call[c].section] EXCEPT !.started = TRUE]
  <2>1. CASE WriteRow(c, r, "startset") /\ UNCHANGED cache
    <3>1. call[c].pc = "start" /\ r \in Rows
      BY <1>0, <1>6, RowEdits DEF RecordStart
    <3>. HIDE DEF r
    <3>. QED
      BY <2>1, <3>1, CacheWrite DEF PublishPCs
  <2>. QED
    BY <1>3, <1>6, <2>1 DEF RecordStart, PublishPCs
<1>7. ASSUME NEW c \in Callers, PublishStart(c) PROVE CacheInv'
  <2>1. Moves(c, "update")
    BY <1>0, <1>00, <1>7, GotoMoves DEF PublishStart
  <2>. QED
    BY <1>7, <2>1, CachePublish DEF PublishStart, Moves, PublishPCs
<1>8. ASSUME NEW c \in Callers, UpdateFirst(c) PROVE CacheInv'
  <2>1. CASE Goto(c, "updating") /\ UNCHANGED <<row, cache, displaced>>
    <3>1. Moves(c, "updating")
      BY <1>0, <1>00, <1>8, <2>1, GotoMoves DEF UpdateFirst
    <3>. QED
      BY <1>1, <1>8, <2>1, <3>1 DEF UpdateFirst, Moves, PublishPCs
  <2>. QED
    BY <1>3, <1>8, <2>1 DEF UpdateFirst, PublishPCs
<1>9. ASSUME NEW c \in Callers, UpdateRest(c) PROVE CacheInv'
  BY <1>2, <1>3, <1>9 DEF UpdateRest, PublishPCs
<1>10. ASSUME NEW c \in Callers, NEW r \in Rows, NEW p \in {"okset", "failset"},
              call[c].pc \in {"ok", "fail"}, Record(c, r, p)
       PROVE  CacheInv'
  <2>1. CASE WriteRow(c, r, p)
    <3>1. call[c].pc \notin PublishPCs \cup {"idle"} /\ p \in PublishPCs /\ UNCHANGED cache
      BY <1>10 DEF PublishPCs, Record
    <3>. QED
      BY <1>10, <2>1, <3>1, CacheWrite
  <2>2. CASE Return(c) /\ UNCHANGED <<row, cache, displaced>>
    <3>1. /\ \A d \in Callers \ {c} : call'[d] = call[d]
          /\ call'[c].pc = "idle"
      BY <1>0, <2>2, ReturnMoves
    <3>. QED
      BY <1>1, <1>10, <2>2, <3>1 DEF PublishPCs
  <2>. QED
    BY <1>10, <2>1, <2>2 DEF Record
<1>11. ASSUME NEW c \in Callers, RecordError(c) PROVE CacheInv'
  <2>1. row[call[c].section] \in Rows
    BY <1>0, <1>11 DEF TypeOK, RecordError
  <2>2. [row[call[c].section] EXCEPT !.error = TRUE, !.started = FALSE] \in Rows
    BY <2>1, RowEdits
  <2>3. /\ call[c].pc = "fail"
        /\ Record(c, [row[call[c].section] EXCEPT !.error = TRUE, !.started = FALSE], "failset")
    BY <1>11 DEF RecordError
  <2>. QED
    BY <1>10, <2>2, <2>3
<1>12. ASSUME NEW c \in Callers, RecordCompletion(c) PROVE CacheInv'
  BY <1>10, <1>12 DEF RecordCompletion, Rows
<1>13. ASSUME NEW c \in Callers, PublishError(c) \/ PublishCompletion(c) PROVE CacheInv'
  <2>1. /\ \A d \in Callers \ {c} : call'[d] = call[d]
        /\ call'[c].pc = "idle"
    BY <1>0, <1>13, ReturnMoves DEF PublishError, PublishCompletion
  <2>. QED
    BY <1>13, <2>1, CachePublish DEF PublishError, PublishCompletion, PublishPCs
<1>14. ASSUME NEW c \in Callers, NEW s \in Sections, NEW f \in BOOLEAN, Begin(c, s, f)
       PROVE  CacheInv'
  <2>1. /\ \A d \in Callers \ {c} : call'[d] = call[d]
        /\ call'[c].pc = "check"
    BY <1>0, <1>14 DEF Begin, CallsOK, Idle
  <2>. QED
    BY <1>1, <1>14, <2>1 DEF Begin, PublishPCs
\* An expired row looks like a fresh one to the cache.
<1>15. ASSUME NEW s \in Sections, Expire(s) PROVE CacheInv'
  <2>1. \A t \in Sections : View(row'[t]) = View(row[t])
    <3>1. ASSUME NEW t \in Sections
          PROVE  /\ (row'[t].completed = "never") <=> (row[t].completed = "never")
                 /\ row'[t].error = row[t].error /\ row'[t].started = row[t].started
      BY <1>0, <1>15 DEF Expire, TypeOK, Rows
    <3>. QED
      BY <3>1 DEF View
  <2>. QED
    BY <1>15, <2>1, CacheFrame DEF Expire
<1>16. CASE Restart
  <2>1. ASSUME NEW s \in Sections PROVE CacheOK(s)'
    <3>1. \A d \in Callers : ~Publishes(d, s)'
      BY <1>16, DefaultsTyped DEF Restart, Publishes, PublishPCs
    <3>2. cache'[s] = View(row'[s])
      BY <1>16 DEF Restart
    <3>. QED
      BY <3>1, <3>2 DEF CacheOK, View
  <2>. QED
    BY <2>1 DEF CacheInv
<1>17. CASE ClearCache
  BY <1>17 DEF ClearCache, CacheInv
<1>18. CASE UNCHANGED <<row, call, cache, displaced>>
  BY <1>18, CacheFrame
<1>. QED
  BY <1>4, <1>5, <1>6, <1>7, <1>8, <1>9, <1>11, <1>12, <1>13, <1>14, <1>15, <1>16,
     <1>17, <1>18 DEF Next, Step, EsiChange, vars

\* What the status row, its start mark and the cache say of a general section
\* is what its one run is doing, for any number of goroutines and sections.
THEOREM StatusStaysTrue == Spec => []StatusIsTrue
<1>1. Init => TypeOK /\ SingleRun /\ RunningHasOwner /\ CacheInv
  <2>. SUFFICES ASSUME Init PROVE TypeOK /\ SingleRun /\ RunningHasOwner /\ CacheInv
    OBVIOUS
  <2>1. SingleRun /\ RunningHasOwner
    BY DefaultsTyped DEF Init, SingleRun, RunningHasOwner, NoRow, LeaderPCs
  <2>2. ASSUME NEW s \in Sections PROVE CacheOK(s)
    <3>1. \A d \in Callers : ~Publishes(d, s)
      BY DefaultsTyped DEF Init, Publishes, PublishPCs
    <3>2. cache[s] = View(row[s])
      BY DEF Init
    <3>. QED
      BY <3>1, <3>2 DEF CacheOK
  <2>. QED
    BY <2>1, <2>2, TypeInit DEF CacheInv
<1>2. TypeOK /\ SingleRun /\ RunningHasOwner /\ CacheInv => StatusIsTrue
  BY CacheInvSuffices DEF StatusIsTrue
<1>. QED
  BY <1>1, <1>2, TypeStep, SingleRunStep, RunningHasOwnerStep, CacheInvStep, PTL DEF Spec

----------------------------------------------------------------------------
(* The row says how the last run ended *)

\* Why: a caller that belongs to the last run and has its outcome to record
\* carries that of the section's latest run.
OutcomeInv ==
    /\ \A s \in Sections : ~mixed[s] => (row[s].error <=> latest[s] = "fail")
    /\ \A c \in Callers : call[c].latest /\ call[c].pc \in {"ok", "fail"} =>
          latest[call[c].section] = call[c].pc

\* A step that ends no run and records no outcome.
LEMMA OutcomeFrame ==
    ASSUME OutcomeInv, UNCHANGED <<latest, mixed>>,
           \A s \in Sections : row'[s].error = row[s].error,
           \A d \in Callers : call'[d] = call[d] \/ call'[d].pc \notin {"ok", "fail"}
    PROVE  OutcomeInv'
  BY DEF OutcomeInv

\* The crew of a run that ends get its outcome, nobody else's counts any more.
LEMMA OutcomeEndFlight ==
    ASSUME OutcomeInv, TypeOK, NEW c \in Callers, call[c].pc # "idle",
           NEW o \in {"ok", "fail"}, EndFlight(c, o), UNCHANGED row
    PROVE  OutcomeInv'
<1>1. /\ \A d \in Callers : call'[d].section = call[d].section
      /\ \A d \in Crew(c) : call'[d].pc = o
      /\ \A d \in Callers \ Crew(c) : call'[d].pc = call[d].pc
      /\ \A d \in Callers \ Crew(c) : call'[d].latest <=>
            call[d].latest /\ call[d].section # call[c].section
      /\ latest'[call[c].section] = o /\ mixed'[call[c].section]
      /\ \A s \in Sections \ {call[c].section} :
            latest'[s] = latest[s] /\ mixed'[s] = mixed[s]
  BY EndFlightMoves
<1>2. \A d \in Crew(c) : call[d].section = call[c].section
  BY DEF Crew
<1>3. ASSUME NEW d \in Callers, call'[d].latest, call'[d].pc \in {"ok", "fail"}
      PROVE  latest'[call'[d].section] = call'[d].pc
  <2>1. CASE d \in Crew(c)
    BY <1>1, <1>2, <2>1
  <2>2. CASE d \notin Crew(c)
    <3>1. call[d].latest /\ call[d].section \in Sections \ {call[c].section}
          /\ call[d].pc \in {"ok", "fail"}
      BY <1>1, <1>3, <2>2 DEF TypeOK
    <3>. QED
      BY <1>1, <2>2, <3>1 DEF OutcomeInv
  <2>. QED
    BY <2>1, <2>2
<1>4. \A s \in Sections : ~mixed'[s] => (row'[s].error <=> latest'[s] = "fail")
  BY <1>1 DEF OutcomeInv
<1>. QED
  BY <1>3, <1>4 DEF OutcomeInv

\* What a caller of the last run records is that outcome.
LEMMA OutcomeRecord ==
    ASSUME OutcomeInv, TypeOK, NEW c \in Callers, call[c].pc \in {"ok", "fail"},
           NEW r \in Rows, r.error <=> call[c].pc = "fail",
           NEW p \in {"okset", "failset"}, Record(c, r, p)
    PROVE  OutcomeInv'
<1>0. CallsOK /\ p \in PCs \ {"idle"} /\ call[c].section \in Sections /\ call[c].pc # "idle"
      /\ UNCHANGED latest
  BY DEF TypeOK, CallsOK, PCs, Record
<1>1. CASE WriteRow(c, r, p) /\ mixed' = [mixed EXCEPT ![call[c].section] = ~call[c].latest]
  <2>1. Moves(c, p)
    BY <1>0, <1>1, WriteRowMoves
  <2>2. \A s \in Sections : /\ s = call[c].section => row'[s] = r
                            /\ s # call[c].section => row'[s] = row[s]
    BY <1>0, <1>1, WriteRowKeeps
  <2>3. /\ ~mixed'[call[c].section] => call[c].latest
        /\ \A s \in Sections \ {call[c].section} : mixed'[s] = mixed[s]
    BY <1>0, <1>1 DEF TypeOK
  <2>4. ASSUME NEW s \in Sections, ~mixed'[s]
        PROVE  row'[s].error <=> latest'[s] = "fail"
    <3>1. CASE s = call[c].section
      BY <1>0, <2>2, <2>3, <2>4, <3>1 DEF OutcomeInv
    <3>2. CASE s # call[c].section
      BY <1>0, <2>2, <2>3, <2>4, <3>2 DEF OutcomeInv
    <3>. QED
      BY <3>1, <3>2
  <2>5. \A d \in Callers : call'[d] = call[d] \/ call'[d].pc \notin {"ok", "fail"}
    BY <2>1 DEF Moves
  <2>. QED
    BY <1>0, <2>4, <2>5 DEF OutcomeInv
<1>2. CASE Return(c) /\ UNCHANGED <<row, mixed>>
  <2>1. \A d \in Callers : call'[d] = call[d] \/ call'[d].pc \notin {"ok", "fail"}
    BY <1>0, <1>2, ReturnMoves
  <2>. QED
    BY <1>0, <1>2, <2>1, OutcomeFrame
<1>. QED
  BY <1>1, <1>2 DEF Record

\* Every step keeps what the callers know of the latest run.
LEMMA OutcomeStep == TypeOK /\ OutcomeInv /\ [Next]_vars => OutcomeInv'
<1>. SUFFICES ASSUME TypeOK, OutcomeInv, [Next]_vars PROVE OutcomeInv'
  OBVIOUS
<1>0. /\ CallsOK
      /\ \A s \in Sections : row[s] \in Rows
  BY DEF TypeOK, CallsOK
<1>00. {"enter", "wait", "start", "startset", "update", "updating",
        "okset", "failset"} \subseteq PCs \ {"idle"}
  BY DEF PCs, LeaderPCs
\* One caller moves to a control point without an outcome to record.
<1>1. ASSUME NEW c \in Callers, call'[c].pc \notin {"ok", "fail"},
             \A d \in Callers \ {c} : call'[d] = call[d],
             UNCHANGED <<row, latest, mixed>>
      PROVE  OutcomeInv'
  BY <1>1, OutcomeFrame
<1>2. ASSUME NEW c \in Callers, FailFlight(c), call[c].pc # "idle" PROVE OutcomeInv'
  BY <1>2, OutcomeEndFlight DEF FailFlight
<1>3. ASSUME NEW c \in Callers, Check(c) PROVE OutcomeInv'
  <2>1. /\ \A d \in Callers \ {c} : call'[d] = call[d]
        /\ call'[c].pc \in {"enter", "idle"}
    BY <1>0, <1>00, <1>3, GotoMoves, ReturnMoves DEF Check, Moves
  <2>. QED
    BY <1>1, <1>3, <2>1 DEF Check
<1>4. ASSUME NEW c \in Callers, Enter(c) PROVE OutcomeInv'
  <2>1. /\ \A d \in Callers \ {c} : call'[d] = call[d]
        /\ call'[c].pc \in {"start", "wait"}
    BY <1>0, <1>00, <1>4, GotoMoves DEF Enter, Moves
  <2>. QED
    BY <1>1, <1>4, <2>1 DEF Enter
\* The start mark leaves the error of the row alone.
<1>5. ASSUME NEW c \in Callers, RecordStart(c) PROVE OutcomeInv'
  <2>. DEFINE r == [row[call[c].section] EXCEPT !.started = TRUE]
  <2>1. CASE WriteRow(c, r, "startset") /\ UNCHANGED <<latest, mixed>>
    <3>1. call[c].pc = "start" /\ r \in Rows /\ r.error = row[call[c].section].error
      BY <1>0, <1>5, RowEdits DEF RecordStart, CallsOK
    <3>. HIDE DEF r
    <3>2. Moves(c, "startset")
      BY <1>0, <1>00, <2>1, <3>1, WriteRowMoves
    <3>3. \A s \in Sections : /\ s = call[c].section => row'[s] = r
                              /\ s # call[c].section => row'[s] = row[s]
      BY <1>0, <2>1, <3>1, WriteRowKeeps
    <3>4. \A s \in Sections : row'[s].error = row[s].error
      BY <3>1, <3>3
    <3>. QED
      BY <2>1, <3>2, <3>4, OutcomeFrame DEF Moves
  <2>. QED
    BY <1>2, <1>5, <2>1 DEF RecordStart
<1>6. ASSUME NEW c \in Callers, PublishStart(c) PROVE OutcomeInv'
  BY <1>0, <1>00, <1>1, <1>6, GotoMoves DEF PublishStart, Moves
<1>7. ASSUME NEW c \in Callers, UpdateFirst(c) PROVE OutcomeInv'
  BY <1>0, <1>00, <1>1, <1>2, <1>7, GotoMoves DEF UpdateFirst, Moves
<1>8. ASSUME NEW c \in Callers, UpdateRest(c) PROVE OutcomeInv'
  BY <1>2, <1>8, OutcomeEndFlight DEF UpdateRest
<1>9. ASSUME NEW c \in Callers, RecordError(c) PROVE OutcomeInv'
  <2>. DEFINE r == [row[call[c].section] EXCEPT !.error = TRUE, !.started = FALSE]
  <2>1. r \in Rows /\ r.error /\ call[c].pc = "fail" /\ Record(c, r, "failset")
    BY <1>0, <1>9, RowEdits DEF RecordError, CallsOK
  <2>. HIDE DEF r
  <2>. QED
    BY <2>1, OutcomeRecord
<1>10. ASSUME NEW c \in Callers, RecordCompletion(c) PROVE OutcomeInv'
  <2>. DEFINE r == [completed |-> "fresh", error |-> FALSE, started |-> FALSE]
  <2>1. r \in Rows /\ ~r.error /\ call[c].pc = "ok" /\ Record(c, r, "okset")
    BY <1>10 DEF RecordCompletion, Rows
  <2>. HIDE DEF r
  <2>. QED
    BY <2>1, OutcomeRecord
<1>11. ASSUME NEW c \in Callers, PublishError(c) \/ PublishCompletion(c) PROVE OutcomeInv'
  BY <1>0, <1>1, <1>11, ReturnMoves DEF PublishError, PublishCompletion
<1>12. ASSUME NEW c \in Callers, NEW s \in Sections, NEW f \in BOOLEAN, Begin(c, s, f)
       PROVE  OutcomeInv'
  <2>1. /\ \A d \in Callers \ {c} : call'[d] = call[d]
        /\ call'[c].pc = "check"
    BY <1>0, <1>12 DEF Begin, CallsOK, Idle
  <2>. QED
    BY <1>1, <1>12, <2>1 DEF Begin
<1>13. ASSUME NEW s \in Sections, Expire(s) PROVE OutcomeInv'
  <2>1. \A t \in Sections : row'[t].error = row[t].error
    BY <1>0, <1>13 DEF Expire, TypeOK, Rows
  <2>. QED
    BY <1>13, <2>1, OutcomeFrame DEF Expire
<1>14. CASE Restart
  <2>1. \A s \in Sections : row'[s].error <=> latest'[s] = "fail"
    BY <1>14 DEF Restart
  <2>2. \A c \in Callers : call'[c].pc = "idle"
    BY <1>14, DefaultsTyped DEF Restart
  <2>. QED
    BY <2>1, <2>2 DEF OutcomeInv
<1>15. CASE UNCHANGED <<row, call, latest, mixed>>
  BY <1>15, OutcomeFrame
<1>. QED
  BY <1>3, <1>4, <1>5, <1>6, <1>7, <1>8, <1>9, <1>10, <1>11, <1>12, <1>13, <1>14, <1>15
     DEF Next, Step, EsiChange, ClearCache, vars

\* The error in the row of a section is that of its last run, unless a
\* goroutine of an earlier run or a failing write came in between.
THEOREM RowTellsOutcome == Spec => []RowShowsLatestRun
<1>1. Init => OutcomeInv
  BY DefaultsTyped DEF Init, OutcomeInv, NoRow
<1>2. OutcomeInv => RowShowsLatestRun
  BY DEF OutcomeInv, RowShowsLatestRun
<1>. QED
  BY <1>1, <1>2, TypeInit, TypeStep, OutcomeStep, PTL DEF Spec
=============================================================================
