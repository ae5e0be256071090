------------------------ MODULE SectionUpdateProofs ------------------------
(* Proofs about SectionUpdate, for every value of its constants. *)
EXTENDS SectionUpdate, TLAPS

----------------------------------------------------------------------------
(* Records: what the fields of a call and of a row are, and that the edits   *)
(* the actions make keep them records of their kind.                         *)

\* The parts of a call are of the right types,
LEMMA CallFields ==
    ASSUME NEW x \in Calls
    PROVE  /\ x.pc \in PCs /\ x.key \in Keys \cup {NoKey} /\ x.force \in BOOLEAN
           /\ x.got \in Contents \cup {NoContent} /\ x.changed \in BOOLEAN
           /\ x.status \in Views
  BY DEF Calls

\* ... also after the changes that the steps make,
LEMMA CallEdits ==
    ASSUME NEW x \in Calls, NEW p \in PCs, NEW b \in BOOLEAN, NEW v \in Views,
           NEW d \in Contents
    PROVE  /\ [x EXCEPT !.pc = p] \in Calls
           /\ [x EXCEPT !.pc = p, !.changed = b] \in Calls
           /\ [x EXCEPT !.changed = b, !.pc = p] \in Calls
           /\ [x EXCEPT !.pc = p, !.status = v] \in Calls
           /\ [x EXCEPT !.pc = p, !.got = d] \in Calls
  BY DEF Calls

\* ... a fetched content among them.
LEMMA FetchEdit ==
    ASSUME NEW x \in Calls, NEW d \in Contents
    PROVE  /\ [x EXCEPT !.pc = "compare", !.got = d] \in Calls
           /\ [x EXCEPT !.pc = "compare", !.got = d].pc = "compare"
           /\ [x EXCEPT !.pc = "compare", !.got = d].key = x.key
<1>1. "compare" \in PCs
  BY DEF PCs, LeaderPCs
<1>. QED
  BY <1>1 DEF Calls

\* The parts of a row are of the right types,
LEMMA RowFields ==
    ASSUME NEW r \in Rows
    PROVE  /\ r.completed \in {"never", "fresh", "expired"}
           /\ r.hash \in Contents \cup {NoContent}
           /\ r.error \in BOOLEAN /\ r.started \in BOOLEAN
           /\ View(r) \in Views
  BY DEF Rows, View, Views

\* ... also after what a run writes into it.
LEMMA RowEdits ==
    ASSUME NEW r \in Rows, NEW d \in Contents
    PROVE  /\ [r EXCEPT !.started = TRUE] \in Rows
           /\ [r EXCEPT !.error = TRUE, !.started = FALSE] \in Rows
           /\ [r EXCEPT !.completed = "expired"] \in Rows
           /\ [completed |-> "fresh", hash |-> d,
               error |-> FALSE, started |-> FALSE] \in Rows
  BY DEF Rows

\* A missing row is a row, and a goroutine that has not begun is a call.
LEMMA DefaultsTyped == NoRow \in Rows /\ Idle \in Calls /\ Idle.pc = "idle"
<1>1. NoRow \in Rows
  BY DEF NoRow, Rows
<1>2. "idle" \in PCs
  BY DEF PCs
<1>. QED
  BY <1>1, <1>2, RowFields DEF Idle, Calls

\* The lines of a leader are apart from those of all other callers.
LEMMA PCNames ==
    /\ LeaderPCs \subseteq PCs
    /\ {"idle", "check", "enter", "wait", "ok", "fail", "failset"} \subseteq PCs
    /\ \A p \in LeaderPCs : p \notin {"idle", "check", "enter", "wait", "ok", "fail", "failset"}
  BY DEF PCs, LeaderPCs

----------------------------------------------------------------------------
(* Type correctness *)

\* A step that changes the record of one caller.
LEMMA OneCallTyped ==
    ASSUME CallsOK, NEW c \in Callers, NEW x \in Calls,
           x.pc # "idle" => x.key \in Keys,
           call' = [call EXCEPT ![c] = x]
    PROVE  CallsOK'
  BY DEF CallsOK

\* Goto keeps the types of the calls,
LEMMA GotoTyped ==
    ASSUME CallsOK, NEW c \in Callers, call[c].pc # "idle", NEW p \in PCs, Goto(c, p)
    PROVE  CallsOK'
<1>. DEFINE x == [call[c] EXCEPT !.pc = p]
<1>1. call[c] \in Calls /\ call[c].key \in Keys
  BY DEF CallsOK
<1>2. x \in Calls /\ x.key \in Keys
  BY <1>1, CallEdits, RowFields, DefaultsTyped DEF Calls
<1>3. call' = [call EXCEPT ![c] = x]
  BY DEF Goto
<1>. QED
  BY <1>2, <1>3, OneCallTyped

\* ... Return does,
LEMMA ReturnTyped ==
    ASSUME CallsOK, NEW c \in Callers, Return(c)
    PROVE  CallsOK'
  BY DefaultsTyped, OneCallTyped DEF Return

\* ... what is published in the cache is a status,
LEMMA PublishTyped ==
    ASSUME TypeOK, NEW c \in Callers, call[c].pc # "idle", Publish(c)
    PROVE  cache' \in [Keys -> Views]
  BY CallFields DEF Publish, TypeOK, CallsOK

\* ... a write of the row keeps the types,
LEMMA WriteRowTyped ==
    ASSUME TypeOK, NEW c \in Callers, call[c].pc # "idle", NEW r \in Rows,
           NEW p \in PCs, WriteRow(c, r, p)
    PROVE  /\ row' \in [Keys -> Rows] /\ CallsOK'
           /\ orphaned' \in [Keys -> BOOLEAN] /\ displaced' \in [Keys -> BOOLEAN]
<1>. DEFINE x == [call[c] EXCEPT !.pc = p, !.status = View(r)]
<1>1. call[c] \in Calls /\ call[c].key \in Keys
  BY DEF TypeOK, CallsOK
<1>2. x \in Calls /\ x.key \in Keys
  BY <1>1, RowFields DEF Calls
<1>3. call' = [call EXCEPT ![c] = x]
  BY DEF WriteRow
<1>4. CallsOK'
  BY <1>2, <1>3, OneCallTyped DEF TypeOK
<1>5. Publishing(c, call[c].key) \in BOOLEAN
  BY DEF Publishing
<1>. QED
  BY <1>1, <1>4, <1>5 DEF WriteRow, TypeOK

\* ... the end of a run does,
LEMMA EndFlightTyped ==
    ASSUME TypeOK, NEW c \in Callers, call[c].pc # "idle", NEW o \in {"ok", "fail"},
           NEW b \in BOOLEAN, EndFlight(c, o, b)
    PROVE  /\ CallsOK' /\ flight' \in [Keys -> Callers \cup {NoCaller}]
<1>1. call[c].key \in Keys
  BY DEF TypeOK, CallsOK
<1>2. ASSUME NEW d \in Callers
      PROVE  /\ [call[d] EXCEPT !.pc = o, !.changed = b] \in Calls
             /\ [call[d] EXCEPT !.pc = o, !.changed = b].key = call[d].key
             /\ call[d] \in Calls
  <2>1. call[d] \in Calls /\ o \in PCs
    BY PCNames DEF TypeOK, CallsOK
  <2>2. [call[d] EXCEPT !.pc = o, !.changed = b] \in Calls
    BY <2>1 DEF Calls
  <2>. QED
    BY <2>1, <2>2 DEF Calls
<1>3. call' \in [Callers -> Calls]
  BY <1>2 DEF EndFlight
<1>4. \A d \in Callers : call'[d].key = call[d].key
  BY <1>2 DEF EndFlight
<1>5. \A d \in Callers : call'[d].pc # "idle" => call[d].pc # "idle"
  BY DEF EndFlight
<1>6. CallsOK'
  BY <1>3, <1>4, <1>5 DEF CallsOK, TypeOK
<1>. QED
  BY <1>1, <1>6 DEF EndFlight, TypeOK

\* ... and so does a run that fails.
LEMMA FailFlightTyped ==
    ASSUME TypeOK, NEW c \in Callers, call[c].pc # "idle", FailFlight(c)
    PROVE  TypeOK'
<1>1. /\ CallsOK' /\ flight' \in [Keys -> Callers \cup {NoCaller}]
  BY EndFlightTyped DEF FailFlight
<1>. QED
  BY <1>1, BoundAssumption DEF FailFlight, TypeOK, DiffersOK, CanFail, CountFailure

\* Every state the section update can reach is well typed: what the row, the
\* cache and the goroutines hold are values the code can produce.
THEOREM TypeCorrect == Spec => []TypeOK
<1>1. Init => TypeOK
  <2>. SUFFICES ASSUME Init PROVE TypeOK
    OBVIOUS
  <2>1. CallsOK
    BY DefaultsTyped DEF Init, CallsOK
  <2>2. View(NoRow) \in Views
    BY DefaultsTyped, RowFields
  <2>. QED
    BY <2>1, <2>2, DefaultsTyped, BoundAssumption DEF Init, TypeOK, DiffersOK
<1>2. TypeOK /\ [Next]_vars => TypeOK'
  <2>. SUFFICES ASSUME TypeOK, [Next]_vars PROVE TypeOK'
    OBVIOUS
  <2>. USE BoundAssumption
  <2>0. \A c \in Callers : /\ call[c] \in Calls
                           /\ call[c].pc # "idle" => call[c].key \in Keys
    BY DEF TypeOK, CallsOK
  <2>01. \A k \in Keys : row[k] \in Rows
    BY DEF TypeOK
  <2>1. ASSUME NEW c \in Callers, Check(c) PROVE TypeOK'
    <3>1. CallsOK'
      BY <2>1, GotoTyped, ReturnTyped, PCNames DEF Check, TypeOK
    <3>. QED
      BY <2>1, <3>1 DEF Check, TypeOK, DiffersOK, CanFail, CountFailure
  <2>2. ASSUME NEW c \in Callers, Enter(c) PROVE TypeOK'
    <3>1. CallsOK'
      BY <2>2, GotoTyped, PCNames DEF Enter, TypeOK, LeaderPCs
    <3>. QED
      BY <2>2, <3>1 DEF Enter, TypeOK, DiffersOK
  <2>3. ASSUME NEW c \in Callers, RecordStart(c) PROVE TypeOK'
    <3>. DEFINE r == [row[call[c].key] EXCEPT !.started = TRUE]
    <3>1. CASE FailFlight(c)
      BY <2>3, <3>1, FailFlightTyped DEF RecordStart
    <3>2. CASE WriteRow(c, r, "startset") /\ ~FailFlight(c)
      <4>0. "startset" \in PCs /\ call[c].pc # "idle"
        BY <2>3, PCNames DEF RecordStart, LeaderPCs
      <4>01. r \in Rows
        <5>1. row[call[c].key] \in Rows
          BY <4>0, <2>0, <2>01
        <5>. QED
          BY <5>1 DEF Rows
      <4>1. r \in Rows /\ "startset" \in PCs /\ call[c].pc # "idle"
        BY <4>0, <4>01
      <4>2. /\ row' \in [Keys -> Rows] /\ CallsOK'
            /\ orphaned' \in [Keys -> BOOLEAN] /\ displaced' \in [Keys -> BOOLEAN]
        BY <3>2, <4>1, WriteRowTyped
      <4>. QED
        BY <2>3, <3>2, <4>2 DEF RecordStart, TypeOK, DiffersOK
    <3>. QED
      BY <2>3, <3>1, <3>2 DEF RecordStart
  <2>4. ASSUME NEW c \in Callers, PublishStart(c) PROVE TypeOK'
    <3>1. CallsOK' /\ cache' \in [Keys -> Views]
      BY <2>4, GotoTyped, PublishTyped, PCNames DEF PublishStart, TypeOK, LeaderPCs
    <3>. QED
      BY <2>4, <3>1 DEF PublishStart, TypeOK, DiffersOK
  <2>5. ASSUME NEW c \in Callers, Fetch(c) PROVE TypeOK'
    <3>. DEFINE x == [call[c] EXCEPT !.pc = "compare", !.got = esi[call[c].key]]
    <3>1. CASE FailFlight(c)
      BY <2>5, <3>1, FailFlightTyped DEF Fetch
    <3>2. CASE ~FailFlight(c)
      <4>1. call' = [call EXCEPT ![c] = x]
        BY <2>5, <3>2 DEF Fetch
      <4>0. call[c] \in Calls /\ call[c].key \in Keys /\ esi[call[c].key] \in Contents
        BY <2>5, <2>0 DEF Fetch, TypeOK
      <4>2. x \in Calls /\ x.key \in Keys
        BY <4>0, FetchEdit
      <4>3. CallsOK'
        BY <4>1, <4>2, OneCallTyped DEF TypeOK
      <4>. QED
        BY <2>5, <3>2, <4>3 DEF Fetch, TypeOK, DiffersOK
    <3>. QED
      BY <3>1, <3>2
  <2>6. ASSUME NEW c \in Callers, Compare(c) PROVE TypeOK'
    <3>. DEFINE p == IF call[c].force \/ HasChanged(c) THEN "apply" ELSE "record"
                x == [call[c] EXCEPT !.changed = HasChanged(c), !.pc = p]
    <3>1. CASE FailFlight(c)
      BY <2>6, <3>1, FailFlightTyped DEF Compare
    <3>2. CASE ~FailFlight(c)
      <4>1. call' = [call EXCEPT ![c] = x]
        BY <2>6, <3>2 DEF Compare
      <4>2. p \in PCs /\ HasChanged(c) \in BOOLEAN
        BY PCNames DEF LeaderPCs, HasChanged
      <4>3. x \in Calls /\ x.key \in Keys
        BY <2>6, <2>0, <4>2 DEF Compare, Calls
      <4>4. CallsOK'
        BY <4>1, <4>3, OneCallTyped DEF TypeOK
      <4>. QED
        BY <2>6, <3>2, <4>4 DEF Compare, TypeOK, DiffersOK
    <3>. QED
      BY <3>1, <3>2
  <2>7. ASSUME NEW c \in Callers, ApplyFirst(c) PROVE TypeOK'
    <3>1. CASE FailFlight(c)
      BY <2>7, <3>1, FailFlightTyped DEF ApplyFirst
    <3>2. CASE ~FailFlight(c)
      <4>1. CallsOK'
        BY <2>7, <3>2, GotoTyped, PCNames DEF ApplyFirst, TypeOK, LeaderPCs
      <4>2. DiffersOK'
        BY <2>7, <3>2 DEF ApplyFirst, TypeOK, DiffersOK
      <4>. QED
        BY <2>7, <3>2, <4>1, <4>2 DEF ApplyFirst, TypeOK
    <3>. QED
      BY <3>1, <3>2
  <2>8. ASSUME NEW c \in Callers, ApplyRest(c) PROVE TypeOK'
    <3>1. CASE FailFlight(c)
      BY <2>8, <3>1, FailFlightTyped DEF ApplyRest
    <3>2. CASE ~FailFlight(c)
      <4>1. CallsOK'
        BY <2>8, <3>2, GotoTyped, PCNames DEF ApplyRest, TypeOK, LeaderPCs
      <4>2. call[c].got \in Contents \cup {NoContent} /\ call[c].key \in Keys
        BY <2>8, <2>0, CallFields DEF ApplyRest
      <4>3. stored' \in [Keys -> Contents \cup {NoContent, Torn}] /\ DiffersOK'
        BY <2>8, <3>2, <4>2 DEF ApplyRest, TypeOK, DiffersOK
      <4>. QED
        BY <2>8, <3>2, <4>1, <4>3 DEF ApplyRest, TypeOK
    <3>. QED
      BY <3>1, <3>2
  <2>9. ASSUME NEW c \in Callers, RecordCompletion(c) PROVE TypeOK'
    <3>. DEFINE r == [completed |-> "fresh", hash |-> call[c].got,
                      error |-> FALSE, started |-> FALSE]
    <3>1. CASE FailFlight(c)
      BY <2>9, <3>1, FailFlightTyped DEF RecordCompletion
    <3>2. CASE ~FailFlight(c)
      <4>1. r \in Rows /\ "recordset" \in PCs /\ call[c].pc # "idle"
        BY <2>9, <2>0, CallFields, PCNames DEF RecordCompletion, LeaderPCs, Rows
      <4>2. WriteRow(c, r, "recordset")
        BY <2>9, <3>2 DEF RecordCompletion
      <4>3. /\ row' \in [Keys -> Rows] /\ CallsOK'
            /\ orphaned' \in [Keys -> BOOLEAN] /\ displaced' \in [Keys -> BOOLEAN]
        BY <4>1, <4>2, WriteRowTyped
      <4>4. interrupted' \in [Keys -> BOOLEAN]
        BY <2>9, <3>2, <2>0, CallFields DEF RecordCompletion, TypeOK, Applied
      <4>. QED
        BY <2>9, <3>2, <4>3, <4>4 DEF RecordCompletion, TypeOK, DiffersOK
    <3>. QED
      BY <3>1, <3>2
  <2>10. ASSUME NEW c \in Callers, PublishCompletion(c) PROVE TypeOK'
    <3>1. call[c].pc # "idle" /\ call[c].changed \in BOOLEAN
      BY <2>10, <2>0, CallFields DEF PublishCompletion
    <3>2. /\ CallsOK' /\ flight' \in [Keys -> Callers \cup {NoCaller}]
      BY <2>10, <3>1, EndFlightTyped DEF PublishCompletion
    <3>3. cache' \in [Keys -> Views]
      BY <2>10, <3>1, PublishTyped DEF PublishCompletion
    <3>4. used' \in [failures : 0..MaxFailures, restarts : 0..MaxRestarts,
                     changes : 0..MaxChanges, clears : 0..MaxClears,
                     edits : 0..MaxEdits]
      <4>1. UNCHANGED used \/ (CanFail /\ CountFailure)
        BY <2>10 DEF PublishCompletion
      <4>. QED
        BY <4>1 DEF TypeOK, CanFail, CountFailure
    <3>5. UNCHANGED <<row, stored, esi, interrupted, differs, shown, orphaned, displaced>>
      BY <2>10 DEF PublishCompletion
    <3>. QED
      BY <3>2, <3>3, <3>4, <3>5 DEF TypeOK, DiffersOK
  <2>11. ASSUME NEW c \in Callers, ReturnOk(c) PROVE TypeOK'
    <3>1. CallsOK'
      BY <2>11, ReturnTyped DEF ReturnOk, TypeOK
    <3>2. shown' \in [Keys -> Contents \cup {NoContent, Torn}]
      BY <2>11, <2>0 DEF ReturnOk, TypeOK
    <3>. QED
      BY <2>11, <3>1, <3>2 DEF ReturnOk, TypeOK, DiffersOK
  <2>12. ASSUME NEW c \in Callers, RecordError(c) PROVE TypeOK'
    <3>. DEFINE r == [row[call[c].key] EXCEPT !.error = TRUE, !.started = FALSE]
    <3>0. call[c].pc # "idle" /\ call[c].key \in Keys
      BY <2>12, <2>0 DEF RecordError
    <3>1. CASE WriteRow(c, r, "failset") /\ UNCHANGED used
      <4>1. r \in Rows /\ "failset" \in PCs
        BY <3>0, <2>01, PCNames DEF Rows
      <4>2. /\ row' \in [Keys -> Rows] /\ CallsOK'
            /\ orphaned' \in [Keys -> BOOLEAN] /\ displaced' \in [Keys -> BOOLEAN]
        BY <3>0, <3>1, <4>1, WriteRowTyped
      <4>. QED
        BY <2>12, <3>1, <4>2 DEF RecordError, TypeOK, DiffersOK
    <3>2. CASE ~(WriteRow(c, r, "failset") /\ UNCHANGED used)
      <4>1. CallsOK'
        BY <2>12, <3>2, ReturnTyped DEF RecordError, TypeOK
      <4>2. row[call[c].key].started \in BOOLEAN
        BY <3>0, <2>01, RowFields
      <4>. QED
        BY <2>12, <3>2, <4>1, <4>2 DEF RecordError, TypeOK, DiffersOK, CanFail, CountFailure
    <3>. QED
      BY <3>1, <3>2
  <2>13. ASSUME NEW c \in Callers, PublishError(c) PROVE TypeOK'
    <3>1. CallsOK' /\ cache' \in [Keys -> Views]
      BY <2>13, ReturnTyped, PublishTyped DEF PublishError, TypeOK
    <3>. QED
      BY <2>13, <3>1 DEF PublishError, TypeOK, DiffersOK
  <2>14. ASSUME NEW c \in Callers, NEW k \in Keys, NEW f \in BOOLEAN, Begin(c, k, f)
         PROVE  TypeOK'
    <3>. DEFINE x == [Idle EXCEPT !.pc = IF f THEN "enter" ELSE "check",
                                  !.key = k, !.force = f]
    <3>1. x \in Calls /\ x.key = k
      BY PCNames, DefaultsTyped DEF Calls
    <3>2. call' = [call EXCEPT ![c] = x] /\ CallsOK
      BY <2>14 DEF Begin, TypeOK
    <3>. HIDE DEF x
    <3>3. CallsOK'
      BY <3>1, <3>2, OneCallTyped
    <3>. QED
      BY <2>14, <3>3 DEF Begin, TypeOK, DiffersOK
  <2>15. ASSUME NEW k \in Keys, Expire(k) PROVE TypeOK'
    <3>0. [row[k] EXCEPT !.completed = "expired"] \in Rows
      BY <2>01 DEF Rows
    <3>1. row' \in [Keys -> Rows]
      BY <2>15, <3>0 DEF Expire, TypeOK
    <3>2. CallsOK'
      BY <2>15 DEF Expire, TypeOK, CallsOK
    <3>. QED
      BY <2>15, <3>1, <3>2 DEF Expire, TypeOK, DiffersOK
  <2>16. ASSUME NEW k \in Keys, EsiChange(k) PROVE TypeOK'
    <3>1. CallsOK'
      BY <2>16 DEF EsiChange, TypeOK, CallsOK
    <3>. QED
      BY <2>16, <3>1 DEF EsiChange, TypeOK, DiffersOK
  <2>20. ASSUME NEW k \in Keys, Edit(k) PROVE TypeOK'
    <3>1. CallsOK' /\ DiffersOK'
      BY <2>20 DEF Edit, TypeOK, CallsOK, DiffersOK
    <3>. QED
      BY <2>20, <3>1 DEF Edit, TypeOK
  <2>17. CASE Restart
    <3>1. CallsOK'
      BY <2>17, DefaultsTyped DEF Restart, CallsOK
    <3>2. cache' \in [Keys -> Views] /\ orphaned' \in [Keys -> BOOLEAN]
      BY <2>17, <2>01, RowFields DEF Restart
    <3>. QED
      BY <2>17, <3>1, <3>2 DEF Restart, TypeOK, DiffersOK
  <2>18. CASE ClearCache
    <3>1. CallsOK' /\ View(NoRow) \in Views
      BY <2>18, DefaultsTyped, RowFields DEF ClearCache, TypeOK, CallsOK
    <3>. QED
      BY <2>18, <3>1 DEF ClearCache, TypeOK, DiffersOK
  <2>19. CASE UNCHANGED vars
    BY <2>19 DEF vars, TypeOK, CallsOK, DiffersOK
  <2>. QED
    BY <2>1, <2>2, <2>3, <2>4, <2>5, <2>6, <2>7, <2>8, <2>9, <2>10, <2>11, <2>12,
       <2>13, <2>14, <2>15, <2>16, <2>17, <2>18, <2>19, <2>20 DEF Next, Step, Run
<1>. QED
  BY <1>1, <1>2, PTL DEF Spec

----------------------------------------------------------------------------
(* What a step does to the callers *)

\* Only caller c moves, to control point p; its arguments stay.
Moves(c, p) ==
    /\ call'[c].pc = p /\ call'[c].key = call[c].key /\ call'[c].force = call[c].force
    /\ \A d \in Callers \ {c} : call'[d] = call[d]

\* Goto moves one goroutine and leaves what it has in hand,
LEMMA GotoMoves ==
    ASSUME CallsOK, NEW c \in Callers, NEW p, Goto(c, p)
    PROVE  Moves(c, p) /\ call'[c].got = call[c].got /\ call'[c].changed = call[c].changed
           /\ call'[c].status = call[c].status
  BY DEF CallsOK, Calls, Goto, Moves

\* ... Return makes it idle,
LEMMA ReturnMoves ==
    ASSUME CallsOK, NEW c \in Callers, Return(c)
    PROVE  call'[c] = Idle /\ \A d \in Callers \ {c} : call'[d] = call[d]
  BY DEF CallsOK, Return

\* ... and after a write of the row it holds what it wrote.
LEMMA WriteRowMoves ==
    ASSUME CallsOK, NEW c \in Callers, NEW r, NEW p, WriteRow(c, r, p)
    PROVE  Moves(c, p) /\ call'[c].got = call[c].got /\ call'[c].changed = call[c].changed
           /\ call'[c].status = View(r)
  BY DEF CallsOK, Calls, WriteRow, Moves

\* The leader and its waiters.
Crew(c) == {c} \cup {d \in Callers : call[d].pc = "wait" /\ call[d].key = call[c].key}

\* The end of a run moves its leader and those who wait for it, alike,
LEMMA EndFlightMoves ==
    ASSUME CallsOK, NEW c \in Callers, NEW o, NEW b, EndFlight(c, o, b)
    PROVE  /\ \A d \in Crew(c) : /\ call'[d].pc = o /\ call'[d].changed = b
                                 /\ call'[d].key = call[d].key
                                 /\ call'[d].force = call[d].force
                                 /\ call'[d].status = call[d].status
           /\ \A d \in Callers \ Crew(c) : call'[d] = call[d]
<1>1. \A d \in Callers : call[d] \in Calls
  BY DEF CallsOK
<1>2. \A d \in Callers : call'[d] = IF d \in Crew(c)
                                    THEN [call[d] EXCEPT !.pc = o, !.changed = b]
                                    ELSE call[d]
  BY DEF EndFlight, Crew
<1>3. Crew(c) \subseteq Callers
  BY DEF Crew
<1>. QED
  BY <1>1, <1>2, <1>3 DEF Calls

\* ... and whoever moves has its outcome.
LEMMA EndFlightOutcome ==
    ASSUME CallsOK, NEW c \in Callers, NEW o, NEW b, EndFlight(c, o, b), NEW d \in Callers
    PROVE  call'[d] = call[d] \/ call'[d].pc = o
<1>1. CASE d \in Crew(c)
  BY <1>1, EndFlightMoves
<1>2. CASE d \notin Crew(c)
  BY <1>2, EndFlightMoves
<1>. QED
  BY <1>1, <1>2

\* A leader goes to its next control point and keeps the key, or its run ends.
LEMMA RunMoves ==
    ASSUME TypeOK, NEW c \in Callers, Run(c)
    PROVE  /\ call[c].pc \in LeaderPCs
           /\ \/ (\E p \in LeaderPCs : Moves(c, p)) /\ UNCHANGED flight
              \/ EndFlight(c, "ok", call[c].changed)
              \/ EndFlight(c, "fail", FALSE)
<1>. USE DEF TypeOK, FailFlight
<1>1. CASE RecordStart(c)
  BY <1>1, WriteRowMoves DEF RecordStart, LeaderPCs
<1>2. CASE PublishStart(c)
  BY <1>2, GotoMoves DEF PublishStart, LeaderPCs
<1>3. CASE Fetch(c)
  <2>1. CASE call' = [call EXCEPT ![c].pc = "compare", ![c].got = esi[call[c].key]]
    <3>1. Moves(c, "compare")
      BY <2>1 DEF Moves, CallsOK, Calls
    <3>. QED
      BY <1>3, <2>1, <3>1 DEF Fetch, LeaderPCs
  <2>. QED
    BY <1>3, <2>1 DEF Fetch, LeaderPCs
<1>4. CASE Compare(c)
  <2>1. ASSUME call' = [call EXCEPT ![c].changed = HasChanged(c),
                          ![c].pc = IF call[c].force \/ HasChanged(c)
                                    THEN "apply" ELSE "record"]
        PROVE  Moves(c, "apply") \/ Moves(c, "record")
    BY <2>1 DEF Moves, CallsOK, Calls
  <2>. QED
    BY <1>4, <2>1 DEF Compare, LeaderPCs
<1>5. CASE ApplyFirst(c)
  BY <1>5, GotoMoves DEF ApplyFirst, LeaderPCs
<1>6. CASE ApplyRest(c)
  BY <1>6, GotoMoves DEF ApplyRest, LeaderPCs
<1>7. CASE RecordCompletion(c)
  BY <1>7, WriteRowMoves DEF RecordCompletion, LeaderPCs
<1>8. CASE PublishCompletion(c)
  BY <1>8 DEF PublishCompletion, LeaderPCs
<1>. QED
  BY <1>1, <1>2, <1>3, <1>4, <1>5, <1>6, <1>7, <1>8 DEF Run

----------------------------------------------------------------------------
(* One run of a section at a time *)

\* Every step keeps one run of a section at a time.
LEMMA SingleRunStep == TypeOK /\ SingleRun /\ [Next]_vars => SingleRun'
<1>. SUFFICES ASSUME TypeOK, SingleRun, [Next]_vars PROVE SingleRun'
  OBVIOUS
<1>. USE DEF SingleRun, LeaderRuns, OnlyLeaderRuns, WaiterHasLeader
<1>0. /\ CallsOK /\ flight \in [Keys -> Callers \cup {NoCaller}]
      /\ \A c \in Callers : call[c].pc # "idle" => call[c].key \in Keys
  BY DEF TypeOK, CallsOK
\* A caller outside a run moves outside a run.
<1>1. ASSUME NEW c \in Callers, UNCHANGED flight,
             call[c].pc \notin LeaderPCs, call'[c].pc \notin LeaderPCs \cup {"wait"},
             \A d \in Callers \ {c} : call'[d] = call[d]
      PROVE  SingleRun'
  BY <1>0, <1>1, NullAssumption
<1>2. Idle.pc \notin LeaderPCs \cup {"wait"}
  BY DEF Idle, LeaderPCs
<1>3. ASSUME NEW c \in Callers, Check(c) PROVE SingleRun'
  <2>1. CASE Return(c)
    BY <1>0, <1>1, <1>2, <1>3, <2>1, ReturnMoves DEF Check, LeaderPCs
  <2>2. CASE Goto(c, "enter")
    BY <1>0, <1>1, <1>3, <2>2, GotoMoves DEF Check, LeaderPCs, Moves
  <2>. QED
    BY <1>3, <2>1, <2>2 DEF Check
<1>4. ASSUME NEW c \in Callers, Enter(c) PROVE SingleRun'
  <2>. DEFINE k == call[c].key
  <2>1. call[c].pc = "enter" /\ k \in Keys
    BY <1>0, <1>4 DEF Enter
  <2>2. CASE flight[k] = NoCaller
    <3>1. Moves(c, "start") /\ flight' = [flight EXCEPT ![k] = c]
      BY <1>0, <1>4, <2>2, GotoMoves DEF Enter
    <3>2. \A d \in Callers : call'[d].pc \in LeaderPCs =>
             d = c \/ (call[d].pc \in LeaderPCs /\ call'[d] = call[d])
      BY <3>1 DEF Moves
    <3>3. \A d \in Callers : call[d].pc \in LeaderPCs => call[d].key # k
      BY <2>1, <2>2, NullAssumption
    <3>. QED
      BY <1>0, <2>1, <2>2, <3>1, <3>2, <3>3, NullAssumption DEF Moves, LeaderPCs
  <2>3. CASE flight[k] # NoCaller
    <3>1. Moves(c, "wait") /\ UNCHANGED flight
      BY <1>0, <1>4, <2>3, GotoMoves DEF Enter
    <3>. QED
      BY <1>0, <2>1, <2>3, <3>1 DEF Moves, LeaderPCs
  <2>. QED
    BY <2>2, <2>3
<1>5. ASSUME NEW c \in Callers, Run(c) PROVE SingleRun'
  <2>. DEFINE k == call[c].key
  <2>1. call[c].pc \in LeaderPCs /\ k \in Keys /\ flight[k] = c
    BY <1>0, <1>5, RunMoves DEF LeaderPCs
  <2>2. ASSUME NEW p \in LeaderPCs, Moves(c, p), UNCHANGED flight PROVE SingleRun'
    BY <1>0, <2>1, <2>2, NullAssumption DEF Moves, LeaderPCs
  <2>3. ASSUME NEW o \in {"ok", "fail"}, NEW b, EndFlight(c, o, b) PROVE SingleRun'
    <3>1. /\ \A d \in Crew(c) : call'[d].pc = o
          /\ \A d \in Callers \ Crew(c) : call'[d] = call[d]
      BY <1>0, <2>3, EndFlightMoves
    <3>2. flight' = [flight EXCEPT ![k] = NoCaller]
      BY <2>3 DEF EndFlight
    <3>3. \A d \in Callers : call'[d].pc \in LeaderPCs \cup {"wait"} =>
             call'[d] = call[d] /\ call[d].key # k
      BY <2>1, <3>1 DEF Crew, LeaderPCs
    <3>4. \A j \in Keys : flight'[j] # NoCaller => j # k /\ flight'[j] = flight[j]
      BY <1>0, <2>1, <3>2
    <3>5. \A j \in Keys : flight'[j] # NoCaller => flight[j] \in Callers \ Crew(c)
      BY <1>0, <2>1, <3>4 DEF Crew, LeaderPCs
    <3>. QED
      BY <1>0, <2>1, <3>1, <3>2, <3>3, <3>4, <3>5
  <2>. QED
    BY <1>5, <2>2, <2>3, RunMoves
<1>6. ASSUME NEW c \in Callers, ReturnOk(c) PROVE SingleRun'
  BY <1>0, <1>1, <1>2, <1>6, ReturnMoves DEF ReturnOk, LeaderPCs
<1>7. ASSUME NEW c \in Callers, RecordError(c) PROVE SingleRun'
  <2>1. CASE Return(c)
    BY <1>0, <1>1, <1>2, <1>7, <2>1, ReturnMoves DEF RecordError, LeaderPCs
  <2>2. ASSUME NEW r, WriteRow(c, r, "failset") PROVE SingleRun'
    BY <1>0, <1>1, <1>7, <2>2, WriteRowMoves DEF RecordError, LeaderPCs, Moves
  <2>. QED
    BY <1>7, <2>1, <2>2 DEF RecordError
<1>8. ASSUME NEW c \in Callers, PublishError(c) PROVE SingleRun'
  BY <1>0, <1>1, <1>2, <1>8, ReturnMoves DEF PublishError, LeaderPCs
<1>9. ASSUME NEW c \in Callers, NEW k \in Keys, NEW f \in BOOLEAN, Begin(c, k, f)
      PROVE  SingleRun'
  <2>1. /\ call'[c].pc \in {"enter", "check"} /\ UNCHANGED flight
        /\ \A d \in Callers \ {c} : call'[d] = call[d]
    BY <1>0, <1>9 DEF Begin, CallsOK, Idle
  <2>. QED
    BY <1>1, <1>9, <2>1 DEF Begin, LeaderPCs
<1>10. CASE Restart
  BY <1>2, <1>10 DEF Restart
<1>11. ASSUME UNCHANGED <<flight, call>> PROVE SingleRun'
  BY <1>11
<1>. QED
  BY <1>3, <1>4, <1>5, <1>6, <1>7, <1>8, <1>9, <1>10, <1>11
     DEF Next, Step, Expire, EsiChange, Edit, ClearCache, vars

\* Two goroutines never run the update of one section at the same time, and
\* whoever waits has a leader to wait for, for any number of goroutines,
\* sections and failures.
THEOREM OneRunAtATime == Spec => []SingleRun
<1>1. Init => SingleRun
  BY DEF Init, SingleRun, LeaderRuns, OnlyLeaderRuns, WaiterHasLeader, Idle, LeaderPCs
<1>. QED
  BY <1>1, TypeCorrect, SingleRunStep, PTL DEF Spec

----------------------------------------------------------------------------
(* The recorded hash describes the stored data *)

\* Why the hash is right when it is recorded: a run on its way to the record
\* either has just stored what it fetched, as far as it was to, or fetched what
\* the hash says.
StoreInv ==
    /\ HashDescribesStore
    /\ \A c \in Callers :
          /\ call[c].pc \in {"apply", "applying"} => Applied(c)
          /\ call[c].pc = "applying" => interrupted[call[c].key]
          /\ call[c].pc = "record" =>
                IF Applied(c) THEN \/ stored[call[c].key] = call[c].got
                                   \/ differs[call[c].key] # "no"
                              ELSE row[call[c].key].hash = call[c].got

\* A step that keeps hashes and data, and brings no caller near the record.
LEMMA StoreFrame ==
    ASSUME StoreInv, UNCHANGED <<stored, interrupted, differs>>, CallsOK,
           \A k \in Keys : row'[k].hash = row[k].hash,
           \A d \in Callers : \/ call'[d] = call[d]
                              \/ call'[d].pc \notin {"apply", "applying", "record"}
    PROVE  StoreInv'
  BY DEF StoreInv, HashDescribesStore, Applied, CallsOK

\* A write changes one row.
LEMMA WriteRowKeeps ==
    ASSUME TypeOK, NEW c \in Callers, call[c].pc # "idle", NEW r, NEW p,
           WriteRow(c, r, p)
    PROVE  /\ row'[call[c].key] = r
           /\ \A k \in Keys : k # call[c].key => row'[k] = row[k]
  BY DEF WriteRow, TypeOK, CallsOK

\* Every step keeps what is known of the hash and the stored data,
LEMMA StoreInvStep == TypeOK /\ SingleRun /\ StoreInv /\ [Next]_vars => StoreInv'
<1>. SUFFICES ASSUME TypeOK, SingleRun, StoreInv, [Next]_vars PROVE StoreInv'
  OBVIOUS
<1>0. /\ CallsOK
      /\ \A c \in Callers : call[c].pc # "idle" => call[c].key \in Keys
  BY DEF TypeOK, CallsOK
<1>01. \A c, d \in Callers :
          call[c].pc \in LeaderPCs /\ call[d].pc \in LeaderPCs /\ call[c].key = call[d].key
          => c = d
  BY DEF SingleRun, OnlyLeaderRuns
<1>02. \A k \in Keys : row[k] \in Rows
  BY DEF TypeOK
<1>1. ASSUME NEW c \in Callers, FailFlight(c) PROVE StoreInv'
  <2>1. \A d \in Callers : call'[d] = call[d] \/ call'[d].pc = "fail"
    BY <1>0, <1>1, EndFlightOutcome DEF FailFlight
  <2>. QED
    BY <1>0, <1>1, <2>1, StoreFrame DEF FailFlight
<1>2. ASSUME NEW c \in Callers, Check(c) PROVE StoreInv'
  <2>1. \A d \in Callers : call'[d] = call[d] \/ call'[d].pc \in {"idle", "enter"}
    BY <1>0, <1>2, GotoMoves, ReturnMoves DEF Check, Moves, Idle
  <2>. QED
    BY <1>0, <1>2, <2>1, StoreFrame DEF Check
<1>3. ASSUME NEW c \in Callers, Enter(c) PROVE StoreInv'
  <2>1. \A d \in Callers : call'[d] = call[d] \/ call'[d].pc \in {"start", "wait"}
    BY <1>0, <1>3, GotoMoves DEF Enter, Moves
  <2>. QED
    BY <1>0, <1>3, <2>1, StoreFrame DEF Enter
<1>4. ASSUME NEW c \in Callers, RecordStart(c) PROVE StoreInv'
  <2>. DEFINE r == [row[call[c].key] EXCEPT !.started = TRUE]
  <2>1. CASE WriteRow(c, r, "startset") /\ ~FailFlight(c)
    <3>1. \A d \in Callers : call'[d] = call[d] \/ call'[d].pc = "startset"
      BY <1>0, <2>1, WriteRowMoves DEF Moves
    <3>2. row[call[c].key] \in Rows /\ call[c].pc # "idle"
      BY <1>0, <1>02, <1>4 DEF RecordStart
    <3>3. r.hash = row[call[c].key].hash
      BY <3>2 DEF Rows
    <3>5. row'[call[c].key] = r /\ \A k \in Keys : k # call[c].key => row'[k] = row[k]
      BY <2>1, <3>2, WriteRowKeeps
    <3>4. \A k \in Keys : row'[k].hash = row[k].hash
      BY <3>3, <3>5
    <3>. QED
      BY <1>0, <1>4, <2>1, <3>1, <3>4, StoreFrame DEF RecordStart
  <2>. QED
    BY <1>1, <1>4, <2>1 DEF RecordStart
<1>5. ASSUME NEW c \in Callers, PublishStart(c) PROVE StoreInv'
  <2>1. \A d \in Callers : call'[d] = call[d] \/ call'[d].pc = "fetch"
    BY <1>0, <1>5, GotoMoves DEF PublishStart, Moves
  <2>. QED
    BY <1>0, <1>5, <2>1, StoreFrame DEF PublishStart
<1>6. ASSUME NEW c \in Callers, Fetch(c) PROVE StoreInv'
  <2>1. CASE call' = [call EXCEPT ![c].pc = "compare", ![c].got = esi[call[c].key]]
             /\ ~FailFlight(c)
    <3>1. \A d \in Callers : call'[d] = call[d] \/ call'[d].pc = "compare"
      <4>1. call \in [Callers -> Calls]
        BY <1>0 DEF CallsOK
      <4>2. call[c] \in Calls
        BY <4>1
      <4>3. call'[c] = [call[c] EXCEPT !.pc = "compare", !.got = esi[call[c].key]]
        BY <2>1, <4>1
      <4>5. esi[call[c].key] \in Contents
        BY <1>0, <1>6 DEF Fetch, CallsOK, TypeOK
      <4>4. call'[c].pc = "compare"
        BY <4>2, <4>3, <4>5, FetchEdit
      <4>. QED
        BY <2>1, <4>1, <4>4
    <3>. QED
      BY <1>0, <1>6, <2>1, <3>1, StoreFrame DEF Fetch
  <2>. QED
    BY <1>1, <1>6, <2>1 DEF Fetch
<1>7. ASSUME NEW c \in Callers, Compare(c) PROVE StoreInv'
  <2>1. CASE ~FailFlight(c)
    <3>1. /\ \A d \in Callers \ {c} : call'[d] = call[d]
          /\ call[c] \in Calls
          /\ call'[c] = [call[c] EXCEPT !.changed = HasChanged(c),
                           !.pc = IF call[c].force \/ HasChanged(c)
                                  THEN "apply" ELSE "record"]
          /\ UNCHANGED <<stored, interrupted, differs, row>>
      BY <1>0, <1>7, <2>1 DEF Compare, CallsOK
    <3>2. /\ call'[c].pc = IF Applied(c)' THEN "apply" ELSE "record"
          /\ call'[c].key = call[c].key /\ call'[c].got = call[c].got
          /\ ~Applied(c)' => row[call[c].key].hash = call[c].got
      <4>1. /\ call'[c].pc = IF call[c].force \/ HasChanged(c) THEN "apply" ELSE "record"
            /\ call'[c].changed = HasChanged(c) /\ call'[c].key = call[c].key
            /\ call'[c].got = call[c].got /\ call'[c].force = call[c].force
        BY <3>1 DEF Calls
      <4>. QED
        BY <4>1 DEF Applied, HasChanged
    <3>3. /\ call'[c].pc \in {"apply", "applying"} => Applied(c)'
          /\ call'[c].pc # "applying"
          /\ call'[c].pc = "record" => ~Applied(c)' /\ row'[call'[c].key].hash = call'[c].got
      BY <3>1, <3>2
    <3>4. ASSUME NEW d \in Callers \ {c}
          PROVE  /\ call'[d].pc \in {"apply", "applying"} => Applied(d)'
                 /\ call'[d].pc = "applying" => interrupted'[call'[d].key]
                 /\ call'[d].pc = "record" =>
                       IF Applied(d)' THEN \/ stored'[call'[d].key] = call'[d].got
                                           \/ differs'[call'[d].key] # "no"
                                      ELSE row'[call'[d].key].hash = call'[d].got
      BY <3>1 DEF StoreInv, Applied
    <3>5. HashDescribesStore'
      BY <3>1 DEF StoreInv, HashDescribesStore
    <3>. QED
      BY <3>3, <3>4, <3>5 DEF StoreInv
  <2>. QED
    BY <1>1, <2>1
<1>8. ASSUME NEW c \in Callers, ApplyFirst(c) PROVE StoreInv'
  <2>. DEFINE k == call[c].key
  <2>1. CASE ~FailFlight(c)
    <3>1. /\ call[c].pc = "apply" /\ k \in Keys /\ call[c].pc \in LeaderPCs
          /\ Moves(c, "applying") /\ call'[c].changed = call[c].changed
          /\ stored' = [stored EXCEPT ![k] = Torn]
          /\ interrupted' = [interrupted EXCEPT ![k] = TRUE] /\ UNCHANGED row
          /\ differs' = [differs EXCEPT ![k] = "no"]
      BY <1>0, <1>8, <2>1, GotoMoves DEF ApplyFirst, LeaderPCs
    <3>2. \A d \in Callers \ {c} : call[d].pc \in LeaderPCs => call[d].key # k
      BY <1>01, <3>1
    <3>3. \A j \in Keys \ {k} : /\ stored'[j] = stored[j] /\ differs'[j] = differs[j]
                               /\ interrupted'[j] = interrupted[j]
      BY <3>1 DEF TypeOK, DiffersOK
    <3>4. interrupted'[k]
      BY <3>1 DEF TypeOK
    <3>5. HashDescribesStore'
      BY <3>1, <3>3, <3>4 DEF StoreInv, HashDescribesStore
    <3>6. Applied(c)' /\ call'[c].pc = "applying" /\ call'[c].key = k
      BY <3>1 DEF StoreInv, Applied, Moves
    <3>7. ASSUME NEW d \in Callers \ {c}
          PROVE  /\ call'[d].pc \in {"apply", "applying"} => Applied(d)'
                 /\ call'[d].pc = "applying" => interrupted'[call'[d].key]
                 /\ call'[d].pc = "record" =>
                       IF Applied(d)' THEN \/ stored'[call'[d].key] = call'[d].got
                                           \/ differs'[call'[d].key] # "no"
                                      ELSE row'[call'[d].key].hash = call'[d].got
      BY <1>0, <3>1, <3>2, <3>3 DEF StoreInv, Applied, Moves, LeaderPCs
    <3>. QED
      BY <3>4, <3>5, <3>6, <3>7 DEF StoreInv
  <2>. QED
    BY <1>1, <2>1
<1>9. ASSUME NEW c \in Callers, ApplyRest(c) PROVE StoreInv'
  <2>. DEFINE k == call[c].key
  <2>1. CASE ~FailFlight(c)
    <3>1. /\ call[c].pc = "applying" /\ k \in Keys /\ call[c].pc \in LeaderPCs
          /\ Moves(c, "record") /\ call'[c].changed = call[c].changed
          /\ call'[c].got = call[c].got
          /\ \/ /\ stored' = [stored EXCEPT ![k] = call[c].got]
                /\ differs' = [differs EXCEPT ![k] = "no"]
             \/ UNCHANGED stored /\ differs' = [differs EXCEPT ![k] = "skipped"]
             \/ UNCHANGED <<stored, differs>> /\ differs[k] = "edited"
          /\ UNCHANGED <<interrupted, row>>
      BY <1>0, <1>9, <2>1, GotoMoves DEF ApplyRest, LeaderPCs
    <3>2. \A d \in Callers \ {c} : call[d].pc \in LeaderPCs => call[d].key # k
      BY <1>01, <3>1
    <3>3. \A j \in Keys \ {k} : stored'[j] = stored[j] /\ differs'[j] = differs[j]
      BY <3>1 DEF TypeOK, DiffersOK
    <3>4. interrupted[k] /\ Applied(c)
      BY <3>1 DEF StoreInv
    <3>5. HashDescribesStore'
      BY <3>1, <3>3, <3>4 DEF StoreInv, HashDescribesStore
    <3>6. /\ Applied(c)' /\ call'[c].pc = "record"
          /\ \/ stored'[call'[c].key] = call'[c].got
             \/ differs'[call'[c].key] # "no"
      <4>1. stored'[k] = call[c].got \/ differs'[k] # "no"
        BY <3>1 DEF TypeOK, DiffersOK
      <4>. QED
        BY <3>1, <3>4, <4>1 DEF Applied, Moves
    <3>7. ASSUME NEW d \in Callers \ {c}
          PROVE  /\ call'[d].pc \in {"apply", "applying"} => Applied(d)'
                 /\ call'[d].pc = "applying" => interrupted'[call'[d].key]
                 /\ call'[d].pc = "record" =>
                       IF Applied(d)' THEN \/ stored'[call'[d].key] = call'[d].got
                                           \/ differs'[call'[d].key] # "no"
                                      ELSE row'[call'[d].key].hash = call'[d].got
      BY <1>0, <3>1, <3>2, <3>3 DEF StoreInv, Applied, Moves, LeaderPCs
    <3>. QED
      BY <3>5, <3>6, <3>7 DEF StoreInv
  <2>. QED
    BY <1>1, <2>1
<1>10. ASSUME NEW c \in Callers, RecordCompletion(c) PROVE StoreInv'
  <2>. DEFINE k == call[c].key
              r == [completed |-> "fresh", hash |-> call[c].got,
                    error |-> FALSE, started |-> FALSE]
  <2>1. CASE ~FailFlight(c)
    <3>1. /\ call[c].pc = "record" /\ k \in Keys /\ call[c].pc \in LeaderPCs
          /\ WriteRow(c, r, "recordset")
          /\ interrupted' = [interrupted EXCEPT ![k] = @ /\ ~Applied(c)]
          /\ UNCHANGED <<stored, differs>>
      BY <1>0, <1>10, <2>1 DEF RecordCompletion, LeaderPCs
    <3>2. Moves(c, "recordset")
      BY <1>0, <3>1, WriteRowMoves
    <3>3. row'[k].hash = call[c].got /\ \A j \in Keys \ {k} : row'[j] = row[j]
      BY <3>1, WriteRowKeeps
    <3>4. \A j \in Keys \ {k} : interrupted'[j] = interrupted[j]
      BY <3>1 DEF TypeOK
    <3>5. ~interrupted'[k] /\ differs[k] = "no" => stored[k] = call[c].got
      BY <3>1 DEF TypeOK, StoreInv, HashDescribesStore
    <3>6. HashDescribesStore'
      BY <3>1, <3>3, <3>4, <3>5 DEF StoreInv, HashDescribesStore
    <3>7. \A d \in Callers \ {c} : call[d].pc \in LeaderPCs => call[d].key # k
      BY <1>01, <3>1
    <3>8. ASSUME NEW d \in Callers \ {c}
          PROVE  /\ call'[d].pc \in {"apply", "applying"} => Applied(d)'
                 /\ call'[d].pc = "applying" => interrupted'[call'[d].key]
                 /\ call'[d].pc = "record" =>
                       IF Applied(d)' THEN \/ stored'[call'[d].key] = call'[d].got
                                           \/ differs'[call'[d].key] # "no"
                                      ELSE row'[call'[d].key].hash = call'[d].got
      BY <1>0, <3>1, <3>2, <3>3, <3>4, <3>7 DEF StoreInv, Applied, Moves, LeaderPCs
    <3>. QED
      BY <3>2, <3>6, <3>8 DEF StoreInv, Moves
  <2>. QED
    BY <1>1, <2>1
<1>11. ASSUME NEW c \in Callers, PublishCompletion(c) PROVE StoreInv'
  <2>1. EndFlight(c, "ok", call[c].changed) \/ EndFlight(c, "fail", FALSE)
    BY <1>11 DEF PublishCompletion
  <2>2. \A d \in Callers : call'[d] = call[d] \/ call'[d].pc \in {"ok", "fail"}
    BY <1>0, <2>1, EndFlightOutcome
  <2>. QED
    BY <1>0, <1>11, <2>2, StoreFrame DEF PublishCompletion
<1>12. ASSUME NEW c \in Callers, ReturnOk(c) PROVE StoreInv'
  <2>1. \A d \in Callers : call'[d] = call[d] \/ call'[d].pc = "idle"
    BY <1>0, <1>12, ReturnMoves DEF ReturnOk, Idle
  <2>. QED
    BY <1>0, <1>12, <2>1, StoreFrame DEF ReturnOk
<1>13. ASSUME NEW c \in Callers, RecordError(c) PROVE StoreInv'
  <2>. DEFINE r == [row[call[c].key] EXCEPT !.error = TRUE, !.started = FALSE]
  <2>1. CASE WriteRow(c, r, "failset")
    <3>1. \A d \in Callers : call'[d] = call[d] \/ call'[d].pc = "failset"
      BY <1>0, <2>1, WriteRowMoves DEF Moves
    <3>2. row[call[c].key] \in Rows /\ call[c].pc # "idle"
      BY <1>0, <1>02, <1>13 DEF RecordError
    <3>3. r.hash = row[call[c].key].hash
      BY <3>2 DEF Rows
    <3>5. row'[call[c].key] = r /\ \A k \in Keys : k # call[c].key => row'[k] = row[k]
      BY <2>1, <3>2, WriteRowKeeps
    <3>4. \A k \in Keys : row'[k].hash = row[k].hash
      BY <3>3, <3>5
    <3>. QED
      BY <1>0, <1>13, <3>1, <3>4, StoreFrame DEF RecordError
  <2>2. CASE Return(c) /\ UNCHANGED row
    <3>1. \A d \in Callers : call'[d] = call[d] \/ call'[d].pc = "idle"
      BY <1>0, <2>2, ReturnMoves DEF Idle
    <3>. QED
      BY <1>0, <1>13, <2>2, <3>1, StoreFrame DEF RecordError
  <2>. QED
    BY <1>13, <2>1, <2>2 DEF RecordError
<1>14. ASSUME NEW c \in Callers, PublishError(c) PROVE StoreInv'
  <2>1. \A d \in Callers : call'[d] = call[d] \/ call'[d].pc = "idle"
    BY <1>0, <1>14, ReturnMoves DEF PublishError, Idle
  <2>. QED
    BY <1>0, <1>14, <2>1, StoreFrame DEF PublishError
<1>15. ASSUME NEW c \in Callers, NEW k \in Keys, NEW f \in BOOLEAN, Begin(c, k, f)
       PROVE  StoreInv'
  <2>1. \A d \in Callers : call'[d] = call[d] \/ call'[d].pc \in {"enter", "check"}
    BY <1>0, <1>15 DEF Begin, CallsOK, Idle
  <2>. QED
    BY <1>0, <1>15, <2>1, StoreFrame DEF Begin
<1>16. ASSUME NEW k \in Keys, Expire(k) PROVE StoreInv'
  <2>1. \A j \in Keys : row'[j].hash = row[j].hash
    BY <1>02, <1>16 DEF Expire, TypeOK, Rows
  <2>. QED
    BY <1>0, <1>16, <2>1, StoreFrame DEF Expire
<1>17. CASE Restart
  <2>1. \A d \in Callers : call'[d].pc = "idle"
    BY <1>17 DEF Restart, Idle
  <2>. QED
    BY <1>0, <1>17, <2>1, StoreFrame DEF Restart
\* What others wrote is excepted.
<1>18. ASSUME NEW k \in Keys, Edit(k) PROVE StoreInv'
  <2>1. /\ UNCHANGED <<row, call, interrupted>> /\ differs'[k] = "edited"
        /\ \A j \in Keys \ {k} : stored'[j] = stored[j] /\ differs'[j] = differs[j]
    BY <1>18 DEF Edit, TypeOK, DiffersOK
  <2>2. HashDescribesStore'
    BY <2>1 DEF StoreInv, HashDescribesStore
  <2>. QED
    BY <1>0, <2>1, <2>2 DEF StoreInv, Applied
<1>19. ASSUME UNCHANGED <<stored, interrupted, differs, row, call>> PROVE StoreInv'
  BY <1>0, <1>19, StoreFrame
<1>. QED
  BY <1>2, <1>3, <1>4, <1>5, <1>6, <1>7, <1>8, <1>9, <1>10, <1>11, <1>12, <1>13,
     <1>14, <1>15, <1>16, <1>17, <1>18, <1>19
     DEF Next, Step, Run, EsiChange, ClearCache, vars

\* The hash in the status row is that of the data in the database, whatever
\* fails, overlaps or restarts, except after an update that was interrupted or
\* skipped items, and after others have written the data.
THEOREM HashIsRight == Spec => []HashDescribesStore
<1>1. Init => StoreInv
  BY DEF Init, StoreInv, HashDescribesStore, NoRow, Idle
<1>2. StoreInv => HashDescribesStore
  BY DEF StoreInv
<1>. QED
  BY <1>1, <1>2, TypeCorrect, OneRunAtATime, StoreInvStep, PTL DEF Spec

----------------------------------------------------------------------------
(* A start mark has an owner *)

\* A step that keeps the owners, and marks no section anew.
LEMMA OwnerFrame ==
    ASSUME RunningHasOwner,
           \A d \in Callers : call[d].pc \in OwnerPCs =>
              call'[d].pc \in OwnerPCs /\ call'[d].key = call[d].key,
           \A k \in Keys : row'[k].started /\ ~orphaned'[k] =>
              row[k].started /\ ~orphaned[k]
    PROVE  RunningHasOwner'
  BY DEF RunningHasOwner

\* When a run fails its crew goes on to record the error: all are owners.
LEMMA FailFlightOwners ==
    ASSUME TypeOK, RunningHasOwner, NEW c \in Callers, FailFlight(c)
    PROVE  RunningHasOwner'
<1>1. CallsOK /\ UNCHANGED <<row, orphaned>> /\ \E b : EndFlight(c, "fail", b)
  BY DEF FailFlight, TypeOK
<1>2. PICK b : EndFlight(c, "fail", b)
  BY <1>1
<1>3. /\ \A d \in Crew(c) : call'[d].pc = "fail" /\ call'[d].key = call[d].key
      /\ \A d \in Callers \ Crew(c) : call'[d] = call[d]
  BY <1>1, <1>2, EndFlightMoves
<1>. QED
  BY <1>1, <1>3, OwnerFrame DEF OwnerPCs

\* ... and the owners of start marks.
LEMMA RunningHasOwnerStep == TypeOK /\ RunningHasOwner /\ [Next]_vars => RunningHasOwner'
<1>. SUFFICES ASSUME TypeOK, RunningHasOwner, [Next]_vars PROVE RunningHasOwner'
  OBVIOUS
<1>0. /\ CallsOK
      /\ \A c \in Callers : call[c].pc # "idle" => call[c].key \in Keys
      /\ \A k \in Keys : row[k] \in Rows
  BY DEF TypeOK, CallsOK
<1>1. ASSUME NEW c \in Callers, FailFlight(c) PROVE RunningHasOwner'
  BY <1>1, FailFlightOwners
\* A caller that owns no mark moves.
<1>2. ASSUME NEW c \in Callers, call[c].pc \notin OwnerPCs,
             \A d \in Callers \ {c} : call'[d] = call[d], UNCHANGED <<row, orphaned>>
      PROVE  RunningHasOwner'
  BY <1>2, OwnerFrame
\* An owner stays one.
<1>3. ASSUME NEW c \in Callers, NEW p \in OwnerPCs, Moves(c, p), UNCHANGED <<row, orphaned>>
      PROVE  RunningHasOwner'
  BY <1>3, OwnerFrame DEF Moves
<1>4. ASSUME NEW c \in Callers, Check(c) PROVE RunningHasOwner'
  <2>1. \A d \in Callers \ {c} : call'[d] = call[d]
    BY <1>0, <1>4, GotoMoves, ReturnMoves DEF Check, Moves
  <2>. QED
    BY <1>2, <1>4, <2>1 DEF Check, OwnerPCs
<1>5. ASSUME NEW c \in Callers, Enter(c) PROVE RunningHasOwner'
  <2>1. \A d \in Callers \ {c} : call'[d] = call[d]
    BY <1>0, <1>5, GotoMoves DEF Enter, Moves
  <2>. QED
    BY <1>2, <1>5, <2>1 DEF Enter, OwnerPCs
\* Whoever sets the mark is its owner.
<1>6. ASSUME NEW c \in Callers, RecordStart(c) PROVE RunningHasOwner'
  <2>. DEFINE r == [row[call[c].key] EXCEPT !.started = TRUE]
  <2>1. CASE WriteRow(c, r, "startset")
    <3>1. Moves(c, "startset") /\ call[c].pc = "start"
      BY <1>0, <1>6, <2>1, WriteRowMoves DEF RecordStart
    <3>2. \A k \in Keys \ {call[c].key} : row'[k] = row[k] /\ orphaned'[k] = orphaned[k]
      BY <1>0, <2>1 DEF WriteRow, TypeOK
    <3>. QED
      BY <3>1, <3>2 DEF RunningHasOwner, OwnerPCs, Moves
  <2>. QED
    BY <1>1, <1>6, <2>1 DEF RecordStart
<1>7. ASSUME NEW c \in Callers, PublishStart(c) PROVE RunningHasOwner'
  BY <1>0, <1>3, <1>7, GotoMoves DEF PublishStart, OwnerPCs
<1>8. ASSUME NEW c \in Callers, Fetch(c) PROVE RunningHasOwner'
  <2>1. CASE call' = [call EXCEPT ![c].pc = "compare", ![c].got = esi[call[c].key]]
    <3>1. Moves(c, "compare")
      BY <2>1, <1>0 DEF Moves, CallsOK, Calls
    <3>. QED
      BY <1>1, <1>3, <1>8, <3>1 DEF Fetch, OwnerPCs
  <2>. QED
    BY <1>1, <1>8, <2>1 DEF Fetch
<1>9. ASSUME NEW c \in Callers, Compare(c) PROVE RunningHasOwner'
  <2>1. CASE FailFlight(c)
    BY <1>1, <2>1
  <2>2. CASE ~FailFlight(c)
    <3>1. Moves(c, "apply") \/ Moves(c, "record")
      BY <1>0, <1>9, <2>2 DEF Compare, Moves, CallsOK, Calls
    <3>. QED
      BY <1>3, <1>9, <2>2, <3>1 DEF Compare, OwnerPCs
  <2>. QED
    BY <2>1, <2>2
<1>10. ASSUME NEW c \in Callers, ApplyFirst(c) PROVE RunningHasOwner'
  BY <1>0, <1>1, <1>3, <1>10, GotoMoves DEF ApplyFirst, OwnerPCs
<1>11. ASSUME NEW c \in Callers, ApplyRest(c) PROVE RunningHasOwner'
  BY <1>0, <1>1, <1>3, <1>11, GotoMoves DEF ApplyRest, OwnerPCs
\* A mark is cleared before its owner lets go of it.
<1>12. ASSUME NEW c \in Callers, NEW r \in Rows, NEW p, call[c].pc # "idle",
              ~r.started, WriteRow(c, r, p)
       PROVE  RunningHasOwner'
  <2>1. Moves(c, p) /\ row'[call[c].key] = r
    BY <1>0, <1>12, WriteRowMoves, WriteRowKeeps
  <2>2. \A k \in Keys \ {call[c].key} : row'[k] = row[k] /\ orphaned'[k] = orphaned[k]
    BY <1>0, <1>12 DEF WriteRow, TypeOK
  <2>. QED
    BY <1>12, <2>1, <2>2 DEF RunningHasOwner, Moves
<1>13. ASSUME NEW c \in Callers, RecordCompletion(c) PROVE RunningHasOwner'
  <2>. DEFINE r == [completed |-> "fresh", hash |-> call[c].got,
                    error |-> FALSE, started |-> FALSE]
  <2>1. CASE ~FailFlight(c)
    <3>1. call[c].pc # "idle" /\ WriteRow(c, r, "recordset")
      BY <1>13, <2>1 DEF RecordCompletion
    <3>2. call[c].got \in Contents \cup {NoContent}
      BY <1>0, CallFields DEF CallsOK
    <3>3. r \in Rows /\ ~r.started
      BY <3>2 DEF Rows
    <3>. QED
      BY <1>12, <3>1, <3>3
  <2>. QED
    BY <1>1, <2>1
<1>14. ASSUME NEW c \in Callers, PublishCompletion(c) PROVE RunningHasOwner'
  <2>1. /\ EndFlight(c, "ok", call[c].changed) \/ EndFlight(c, "fail", FALSE)
        /\ call[c].pc = "recordset" /\ UNCHANGED <<row, orphaned>>
    BY <1>14 DEF PublishCompletion
  <2>2. \A d \in Callers : call[d].pc \in OwnerPCs => d \notin Crew(c)
    BY <2>1 DEF Crew, OwnerPCs
  <2>3. \A d \in Callers \ Crew(c) : call'[d] = call[d]
    BY <1>0, <2>1, EndFlightMoves
  <2>. QED
    BY <2>1, <2>2, <2>3, OwnerFrame
<1>15. ASSUME NEW c \in Callers, ReturnOk(c) PROVE RunningHasOwner'
  BY <1>0, <1>2, <1>15, ReturnMoves DEF ReturnOk, OwnerPCs
<1>16. ASSUME NEW c \in Callers, RecordError(c) PROVE RunningHasOwner'
  <2>. DEFINE r == [row[call[c].key] EXCEPT !.error = TRUE, !.started = FALSE]
  <2>1. CASE WriteRow(c, r, "failset")
    <3>1. row[call[c].key] \in Rows /\ call[c].pc # "idle"
      BY <1>0, <1>16 DEF RecordError
    <3>2. r \in Rows /\ ~r.started
      BY <3>1 DEF Rows
    <3>. QED
      BY <1>12, <2>1, <3>1, <3>2
  \* The error could not be recorded: the mark, if any, is orphaned.
  <2>2. CASE Return(c) /\ orphaned' = [orphaned EXCEPT ![call[c].key] = row[call[c].key].started]
             /\ UNCHANGED row
    <3>1. /\ \A d \in Callers \ {c} : call'[d] = call[d]
          /\ call[c].key \in Keys
      BY <1>0, <1>16, <2>2, ReturnMoves DEF RecordError
    <3>2. /\ orphaned'[call[c].key] = row[call[c].key].started
          /\ \A k \in Keys \ {call[c].key} : orphaned'[k] = orphaned[k]
      BY <2>2, <3>1 DEF TypeOK
    <3>. QED
      BY <2>2, <3>1, <3>2 DEF RunningHasOwner
  <2>. QED
    BY <1>16, <2>1, <2>2 DEF RecordError
<1>17. ASSUME NEW c \in Callers, PublishError(c) PROVE RunningHasOwner'
  BY <1>0, <1>2, <1>17, ReturnMoves DEF PublishError, OwnerPCs
<1>18. ASSUME NEW c \in Callers, NEW k \in Keys, NEW f \in BOOLEAN, Begin(c, k, f)
       PROVE  RunningHasOwner'
  <2>1. \A d \in Callers \ {c} : call'[d] = call[d]
    BY <1>0, <1>18 DEF Begin, CallsOK
  <2>. QED
    BY <1>2, <1>18, <2>1 DEF Begin, OwnerPCs
<1>19. ASSUME NEW k \in Keys, Expire(k) PROVE RunningHasOwner'
  <2>1. \A j \in Keys : row'[j].started = row[j].started
    BY <1>0, <1>19 DEF Expire, TypeOK, Rows
  <2>. QED
    BY <1>19, <2>1, OwnerFrame DEF Expire
<1>20. CASE Restart
  BY <1>20 DEF Restart, RunningHasOwner
<1>21. CASE UNCHANGED <<row, call, orphaned>>
  BY <1>21, OwnerFrame
<1>. QED
  BY <1>4, <1>5, <1>6, <1>7, <1>8, <1>9, <1>10, <1>11, <1>13, <1>14, <1>15, <1>16,
     <1>17, <1>18, <1>19, <1>20, <1>21
     DEF Next, Step, Run, EsiChange, Edit, ClearCache, vars

\* A section that is marked as running has a goroutine that will clear the
\* mark, unless the process ended under it or the error could not be stored.
THEOREM StartMarkIsOwned == Spec => []RunningHasOwner
<1>1. Init => RunningHasOwner
  BY DEF Init, RunningHasOwner, NoRow
<1>. QED
  BY <1>1, TypeCorrect, RunningHasOwnerStep, PTL DEF Spec

----------------------------------------------------------------------------
(* The cache shows the row *)

Publishes(d, k) == call[d].pc \in PublishPCs /\ call[d].key = k

\* Why the cache is right again once nobody publishes: while the entry of a
\* key is not displaced, all that is on its way to the cache is the view of
\* the row as it is now.
CacheInv ==
    \A k \in Keys : ~displaced[k] =>
        /\ \A d \in Callers : Publishes(d, k) => call[d].status = View(row[k])
        /\ (\A d \in Callers : ~Publishes(d, k)) => cache[k] = View(row[k])

\* What goroutines are about to publish makes the cache coherent.
LEMMA CacheInvSuffices == NullAssumption /\ CacheInv => CacheCoherent
  BY DEF CacheInv, CacheCoherent, Publishing, Publishes, NullAssumption

\* A step that neither writes the row nor publishes.
LEMMA CacheFrame ==
    ASSUME CacheInv, UNCHANGED <<cache, displaced>>,
           \A k \in Keys : View(row'[k]) = View(row[k]),
           \A d \in Callers : \/ call'[d] = call[d]
                              \/ /\ call[d].pc \notin PublishPCs
                                 /\ call'[d].pc \notin PublishPCs
    PROVE  CacheInv'
<1>. SUFFICES ASSUME NEW k \in Keys, ~displaced'[k]
              PROVE  /\ \A d \in Callers : Publishes(d, k)' => call'[d].status = View(row'[k])
                     /\ (\A d \in Callers : ~Publishes(d, k)') => cache'[k] = View(row'[k])
  BY DEF CacheInv, View
<1>1. ~displaced[k]
  OBVIOUS
<1>2. \A d \in Callers : Publishes(d, k)' <=> Publishes(d, k)
  BY DEF Publishes
<1>3. \A d \in Callers : Publishes(d, k)' => call'[d] = call[d]
  BY DEF Publishes
<1>. QED
  BY <1>1, <1>2, <1>3 DEF CacheInv

\* Writing the row: the writer brings the view of what it wrote.
LEMMA CacheWrite ==
    ASSUME CacheInv, TypeOK, NEW c \in Callers, call[c].pc # "idle",
           NEW r \in Rows, NEW p \in PublishPCs, WriteRow(c, r, p), UNCHANGED cache
    PROVE  CacheInv'
<1>0. PICK k \in Keys : k = call[c].key
  BY DEF TypeOK, CallsOK
<1>1. CallsOK /\ k = call[c].key
  BY <1>0 DEF TypeOK
<1>2. /\ Moves(c, p) /\ call'[c].status = View(r)
      /\ row'[k] = r /\ \A j \in Keys : j # k => row'[j] = row[j]
  BY <1>1, WriteRowMoves, WriteRowKeeps
<1>3. /\ displaced'[k] = Publishing(c, k)
      /\ \A j \in Keys : j # k => displaced'[j] = displaced[j]
  BY <1>1 DEF WriteRow, TypeOK
<1>4. CASE ~displaced'[k]
  <2>1. \A d \in Callers \ {c} : ~Publishes(d, k)
    BY <1>3, <1>4 DEF Publishing, Publishes
  <2>2. \A d \in Callers : Publishes(d, k)' => d = c
    BY <1>2, <2>1 DEF Publishes, Moves
  <2>3. Publishes(c, k)'
    BY <1>1, <1>2 DEF Publishes, Moves
  <2>4. \A d \in Callers : Publishes(d, k)' => call'[d].status = View(row'[k])
    BY <1>2, <2>2
  <2>5. ASSUME NEW j \in Keys, j # k, ~displaced'[j]
        PROVE  /\ \A d \in Callers : Publishes(d, j)' => call'[d].status = View(row'[j])
               /\ (\A d \in Callers : ~Publishes(d, j)') => cache'[j] = View(row'[j])
    <3>1. \A d \in Callers : Publishes(d, j)' <=> d # c /\ Publishes(d, j)
      BY <1>1, <1>2, <2>5 DEF Publishes, Moves
    <3>2. ~Publishes(c, j)
      BY <1>1, <2>5 DEF Publishes
    <3>. QED
      BY <1>2, <1>3, <2>5, <3>1, <3>2 DEF CacheInv, Moves
  <2>6. ASSUME NEW j \in Keys, ~displaced'[j]
        PROVE  /\ \A d \in Callers : Publishes(d, j)' => call'[d].status = View(row'[j])
               /\ (\A d \in Callers : ~Publishes(d, j)') => cache'[j] = View(row'[j])
    BY <2>3, <2>4, <2>5, <2>6
  <2>. QED
    BY <2>6 DEF CacheInv, View
<1>5. CASE displaced'[k]
  <2>1. ASSUME NEW j \in Keys, ~displaced'[j]
        PROVE  /\ \A d \in Callers : Publishes(d, j)' => call'[d].status = View(row'[j])
               /\ (\A d \in Callers : ~Publishes(d, j)') => cache'[j] = View(row'[j])
    <3>0. j # k
      BY <1>5, <2>1
    <3>1. \A d \in Callers : Publishes(d, j)' <=> d # c /\ Publishes(d, j)
      BY <1>1, <1>2, <3>0 DEF Publishes, Moves
    <3>2. ~Publishes(c, j)
      BY <1>1, <3>0 DEF Publishes
    <3>. QED
      BY <1>2, <1>3, <2>1, <3>0, <3>1, <3>2 DEF CacheInv, Moves
  <2>. QED
    BY <2>1 DEF CacheInv, View
<1>. QED
  BY <1>4, <1>5

\* Publishing: what a publisher of a key brings is the view of its row.
LEMMA CachePublish ==
    ASSUME CacheInv, TypeOK, NEW c \in Callers, call[c].pc \in PublishPCs,
           Publish(c), UNCHANGED <<row, displaced>>, call'[c].pc \notin PublishPCs,
           \A d \in Callers \ {c} : \/ call'[d] = call[d]
                                    \/ /\ call[d].pc \notin PublishPCs
                                       /\ call'[d].pc \notin PublishPCs
    PROVE  CacheInv'
<1>. DEFINE k == call[c].key
<1>1. k \in Keys
  BY DEF TypeOK, CallsOK, PublishPCs
<1>2. cache'[k] = call[c].status /\ \A j \in Keys : j # k => cache'[j] = cache[j]
  BY <1>1 DEF Publish, TypeOK
<1>3. \A j \in Keys, d \in Callers :
         Publishes(d, j)' => Publishes(d, j) /\ call'[d] = call[d]
  BY DEF Publishes
<1>4. ASSUME NEW j \in Keys, ~displaced'[j]
      PROVE  /\ \A d \in Callers : Publishes(d, j)' => call'[d].status = View(row'[j])
             /\ (\A d \in Callers : ~Publishes(d, j)') => cache'[j] = View(row'[j])
  <2>1. \A d \in Callers : Publishes(d, j)' => call'[d].status = View(row'[j])
    BY <1>3, <1>4 DEF CacheInv
  <2>2. CASE j = k
    <3>1. Publishes(c, k)
      BY DEF Publishes
    <3>. QED
      BY <1>2, <1>4, <2>1, <2>2, <3>1 DEF CacheInv
  <2>3. CASE j # k
    <3>1. \A d \in Callers : Publishes(d, j) => Publishes(d, j)'
      BY <2>3 DEF Publishes
    <3>. QED
      BY <1>2, <1>4, <2>1, <2>3, <3>1 DEF CacheInv
  <2>. QED
    BY <2>2, <2>3
<1>. QED
  BY <1>4 DEF CacheInv, View

\* Every step keeps what goroutines are about to publish.
LEMMA CacheInvStep == TypeOK /\ CacheInv /\ [Next]_vars => CacheInv'
<1>. SUFFICES ASSUME TypeOK, CacheInv, [Next]_vars PROVE CacheInv'
  OBVIOUS
<1>0. /\ CallsOK
      /\ \A c \in Callers : call[c].pc # "idle" => call[c].key \in Keys
      /\ \A k \in Keys : row[k] \in Rows
  BY DEF TypeOK, CallsOK
\* One caller moves between two control points that have nothing to publish.
<1>1. ASSUME NEW c \in Callers, call[c].pc \notin PublishPCs, call'[c].pc \notin PublishPCs,
             \A d \in Callers \ {c} : call'[d] = call[d],
             UNCHANGED <<row, cache, displaced>>
      PROVE  CacheInv'
  BY <1>1, CacheFrame
<1>2. ASSUME NEW c \in Callers, FailFlight(c), call[c].pc \notin PublishPCs PROVE CacheInv'
  <2>1. PICK b : EndFlight(c, "fail", b)
    BY <1>2 DEF FailFlight
  <2>2. /\ \A d \in Crew(c) : call'[d].pc = "fail"
        /\ \A d \in Callers \ Crew(c) : call'[d] = call[d]
    BY <1>0, <2>1, EndFlightMoves
  <2>3. \A d \in Crew(c) : call[d].pc \notin PublishPCs
    BY <1>2 DEF Crew, PublishPCs
  <2>4. \A d \in Callers : \/ call'[d] = call[d]
                           \/ call[d].pc \notin PublishPCs /\ call'[d].pc \notin PublishPCs
    BY <2>2, <2>3 DEF PublishPCs
  <2>5. UNCHANGED <<row, cache, displaced>>
    BY <1>2 DEF FailFlight
  <2>. QED
    BY <2>4, <2>5, CacheFrame
<1>3. ASSUME NEW c \in Callers, Check(c) PROVE CacheInv'
  <2>1. /\ \A d \in Callers \ {c} : call'[d] = call[d]
        /\ call'[c].pc \in {"enter", "idle"}
    BY <1>0, <1>3, GotoMoves, ReturnMoves DEF Check, Moves, Idle
  <2>. QED
    BY <1>1, <1>3, <2>1 DEF Check, PublishPCs
<1>4. ASSUME NEW c \in Callers, Enter(c) PROVE CacheInv'
  <2>1. /\ \A d \in Callers \ {c} : call'[d] = call[d]
        /\ call'[c].pc \in {"start", "wait"}
    BY <1>0, <1>4, GotoMoves DEF Enter, Moves
  <2>. QED
    BY <1>1, <1>4, <2>1 DEF Enter, PublishPCs
<1>5. ASSUME NEW c \in Callers, RecordStart(c) PROVE CacheInv'
  <2>. DEFINE r == [row[call[c].key] EXCEPT !.started = TRUE]
  <2>1. CASE WriteRow(c, r, "startset") /\ UNCHANGED cache
    <3>1. row[call[c].key] \in Rows /\ call[c].pc # "idle"
      BY <1>0, <1>5 DEF RecordStart
    <3>2. r \in Rows /\ "startset" \in PublishPCs
      BY <3>1 DEF Rows, PublishPCs
    <3>. QED
      BY <2>1, <3>1, <3>2, CacheWrite
  <2>. QED
    BY <1>2, <1>5, <2>1 DEF RecordStart, PublishPCs
<1>6. ASSUME NEW c \in Callers, PublishStart(c) PROVE CacheInv'
  <2>1. Moves(c, "fetch")
    BY <1>0, <1>6, GotoMoves DEF PublishStart
  <2>. QED
    BY <1>6, <2>1, CachePublish DEF PublishStart, Moves, PublishPCs
<1>7. ASSUME NEW c \in Callers, Fetch(c) PROVE CacheInv'
  <2>1. CASE call' = [call EXCEPT ![c].pc = "compare", ![c].got = esi[call[c].key]]
             /\ UNCHANGED <<row, cache, displaced>>
    <3>1. Moves(c, "compare")
      BY <2>1, <1>0 DEF Moves, CallsOK, Calls
    <3>. QED
      BY <1>1, <1>7, <2>1, <3>1 DEF Fetch, Moves, PublishPCs
  <2>. QED
    BY <1>2, <1>7, <2>1 DEF Fetch, PublishPCs
<1>8. ASSUME NEW c \in Callers, Compare(c) PROVE CacheInv'
  <2>1. CASE ~FailFlight(c)
    <3>1. Moves(c, "apply") \/ Moves(c, "record")
      BY <1>0, <1>8, <2>1 DEF Compare, Moves, CallsOK, Calls
    <3>. QED
      BY <1>1, <1>8, <2>1, <3>1 DEF Compare, Moves, PublishPCs
  <2>. QED
    BY <1>2, <1>8, <2>1 DEF Compare, PublishPCs
<1>9. ASSUME NEW c \in Callers, ApplyFirst(c) PROVE CacheInv'
  BY <1>0, <1>1, <1>2, <1>9, GotoMoves DEF ApplyFirst, Moves, PublishPCs
<1>10. ASSUME NEW c \in Callers, ApplyRest(c) PROVE CacheInv'
  BY <1>0, <1>1, <1>2, <1>10, GotoMoves DEF ApplyRest, Moves, PublishPCs
<1>11. ASSUME NEW c \in Callers, RecordCompletion(c) PROVE CacheInv'
  <2>. DEFINE r == [completed |-> "fresh", hash |-> call[c].got,
                    error |-> FALSE, started |-> FALSE]
  <2>1. CASE ~FailFlight(c)
    <3>1. call[c].pc # "idle" /\ WriteRow(c, r, "recordset") /\ UNCHANGED cache
      BY <1>11, <2>1 DEF RecordCompletion
    <3>2. call[c].got \in Contents \cup {NoContent}
      BY <1>0, CallFields DEF CallsOK
    <3>3. r \in Rows /\ "recordset" \in PublishPCs
      BY <3>2 DEF Rows, PublishPCs
    <3>. QED
      BY <3>1, <3>3, CacheWrite
  <2>. QED
    BY <1>2, <1>11, <2>1 DEF RecordCompletion, PublishPCs
<1>12. ASSUME NEW c \in Callers, PublishCompletion(c) PROVE CacheInv'
  <2>1. /\ EndFlight(c, "ok", call[c].changed) \/ EndFlight(c, "fail", FALSE)
        /\ call[c].pc = "recordset" /\ UNCHANGED <<row, displaced>> /\ Publish(c)
    BY <1>12 DEF PublishCompletion
  <2>2. PICK o \in {"ok", "fail"} : \E b : EndFlight(c, o, b)
    BY <2>1
  <2>3. /\ \A d \in Crew(c) : call'[d].pc = o
        /\ \A d \in Callers \ Crew(c) : call'[d] = call[d]
    BY <1>0, <2>2, EndFlightMoves
  <2>4. /\ \A d \in Crew(c) \ {c} : call[d].pc \notin PublishPCs
        /\ c \in Crew(c) /\ o \notin PublishPCs /\ call[c].pc \in PublishPCs
    BY <2>1 DEF Crew, PublishPCs
  <2>. QED
    BY <2>1, <2>3, <2>4, CachePublish
<1>13. ASSUME NEW c \in Callers, ReturnOk(c) PROVE CacheInv'
  <2>1. /\ \A d \in Callers \ {c} : call'[d] = call[d]
        /\ call'[c].pc = "idle"
    BY <1>0, <1>13, ReturnMoves DEF ReturnOk, Idle
  <2>. QED
    BY <1>1, <1>13, <2>1 DEF ReturnOk, PublishPCs
<1>14. ASSUME NEW c \in Callers, RecordError(c) PROVE CacheInv'
  <2>. DEFINE r == [row[call[c].key] EXCEPT !.error = TRUE, !.started = FALSE]
  <2>1. CASE WriteRow(c, r, "failset")
    <3>1. row[call[c].key] \in Rows /\ call[c].pc # "idle" /\ UNCHANGED cache
      BY <1>0, <1>14 DEF RecordError
    <3>2. r \in Rows /\ "failset" \in PublishPCs
      BY <3>1 DEF Rows, PublishPCs
    <3>. QED
      BY <2>1, <3>1, <3>2, CacheWrite
  <2>2. CASE Return(c) /\ UNCHANGED <<row, displaced>>
    <3>1. /\ \A d \in Callers \ {c} : call'[d] = call[d]
          /\ call'[c].pc = "idle"
      BY <1>0, <2>2, ReturnMoves DEF Idle
    <3>. QED
      BY <1>1, <1>14, <2>2, <3>1 DEF RecordError, PublishPCs
  <2>. QED
    BY <1>14, <2>1, <2>2 DEF RecordError
<1>15. ASSUME NEW c \in Callers, PublishError(c) PROVE CacheInv'
  <2>1. /\ \A d \in Callers \ {c} : call'[d] = call[d]
        /\ call'[c].pc = "idle"
    BY <1>0, <1>15, ReturnMoves DEF PublishError, Idle
  <2>. QED
    BY <1>15, <2>1, CachePublish DEF PublishError, PublishPCs
<1>16. ASSUME NEW c \in Callers, NEW k \in Keys, NEW f \in BOOLEAN, Begin(c, k, f)
       PROVE  CacheInv'
  <2>1. /\ \A d \in Callers \ {c} : call'[d] = call[d]
        /\ call'[c].pc \in {"enter", "check"}
    BY <1>0, <1>16 DEF Begin, CallsOK, Idle
  <2>. QED
    BY <1>1, <1>16, <2>1 DEF Begin, PublishPCs
\* An expired row looks like a fresh one to the cache.
<1>17. ASSUME NEW k \in Keys, Expire(k) PROVE CacheInv'
  <2>1. \A j \in Keys : View(row'[j]) = View(row[j])
    <3>1. ASSUME NEW j \in Keys
          PROVE  /\ (row'[j].completed = "never") <=> (row[j].completed = "never")
                 /\ row'[j].error = row[j].error /\ row'[j].started = row[j].started
      BY <1>0, <1>17 DEF Expire, TypeOK, Rows
    <3>. QED
      BY <3>1 DEF View
  <2>. QED
    BY <1>17, <2>1, CacheFrame DEF Expire
<1>18. CASE Restart
  <2>1. \A d \in Callers, k \in Keys : ~Publishes(d, k)'
    BY <1>18 DEF Restart, Idle, Publishes, PublishPCs
  <2>2. \A k \in Keys : cache'[k] = View(row'[k])
    BY <1>18 DEF Restart
  <2>. QED
    BY <2>1, <2>2 DEF CacheInv, View
<1>19. CASE ClearCache
  BY <1>19 DEF ClearCache, CacheInv
<1>20. CASE UNCHANGED <<row, call, cache, displaced>>
  BY <1>20, CacheFrame
<1>. QED
  BY <1>3, <1>4, <1>5, <1>6, <1>7, <1>8, <1>9, <1>10, <1>11, <1>12, <1>13, <1>14,
     <1>15, <1>16, <1>17, <1>18, <1>19, <1>20
     DEF Next, Step, Run, EsiChange, Edit, vars

\* When nobody is about to publish, the status cache shows the row of the
\* database, however many goroutines write it, unless two of them overlapped
\* or the cache was cleared.
THEOREM CacheShowsRow == Spec => []CacheCoherent
<1>1. Init => CacheInv
  <2>. SUFFICES ASSUME Init PROVE CacheInv
    OBVIOUS
  <2>1. \A d \in Callers, k \in Keys : ~Publishes(d, k)
    BY DEF Init, Idle, Publishes, PublishPCs
  <2>2. \A k \in Keys : cache[k] = View(row[k])
    BY DEF Init
  <2>. QED
    BY <2>1, <2>2 DEF CacheInv
<1>2. CacheInv => CacheCoherent
  BY CacheInvSuffices, NullAssumption
<1>. QED
  BY <1>1, <1>2, TypeCorrect, CacheInvStep, PTL DEF Spec

----------------------------------------------------------------------------
(* No change goes unreported *)

\* Caller d is going to make the UI read section k again.
Reports(d, k) == call[d].key = k /\ call[d].pc \in {"recordset", "ok"} /\ Applied(d)

\* The data of section k is that of the last update, be it in part.
Settled(k) == ~interrupted[k] /\ differs[k] # "edited"

\* A step that keeps the reports, and what is stored of a section that is
\* settled after it.
LEMMA ReportFrame ==
    ASSUME ChangeReported, UNCHANGED shown,
           \A k \in Keys : Settled(k)' => Settled(k) /\ stored'[k] = stored[k],
           \A d \in Callers, k \in Keys \ PostSteps : Reports(d, k) => Reports(d, k)'
    PROVE  ChangeReported'
<1>. SUFFICES ASSUME NEW k \in Keys \ PostSteps, Settled(k)', shown'[k] # stored'[k]
              PROVE  \E d \in Callers : Reports(d, k)'
  BY DEF ChangeReported, Reports, Settled
<1>1. \E d \in Callers : Reports(d, k)
  BY DEF ChangeReported, Reports, Settled
<1>. QED
  BY <1>1

\* A caller that has nothing to report moves, alone.
LEMMA OtherReports ==
    ASSUME NEW c \in Callers, call[c].pc \notin {"recordset", "ok"},
           \A d \in Callers \ {c} : call'[d] = call[d]
    PROVE  \A d \in Callers, k \in Keys \ PostSteps : Reports(d, k) => Reports(d, k)'
  BY DEF Reports, Applied

\* A run that fails before its completion leaves nothing unreported.
LEMMA FailFlightReports ==
    ASSUME TypeOK, ChangeReported, NEW c \in Callers, FailFlight(c), call[c].pc # "recordset",
           call[c].pc # "ok"
    PROVE  ChangeReported'
<1>1. CallsOK /\ UNCHANGED <<shown, interrupted, differs, stored>> /\ \E b : EndFlight(c, "fail", b)
  BY DEF FailFlight, TypeOK
<1>2. PICK b : EndFlight(c, "fail", b)
  BY <1>1
<1>3. \A d \in Callers \ Crew(c) : call'[d] = call[d]
  BY <1>1, <1>2, EndFlightMoves
<1>4. \A d \in Callers, k \in Keys \ PostSteps : Reports(d, k) => d \notin Crew(c)
  BY DEF Reports, Crew
<1>5. \A d \in Callers, k \in Keys \ PostSteps : Reports(d, k) => Reports(d, k)'
  BY <1>3, <1>4 DEF Reports, Applied
<1>. QED
  BY <1>1, <1>5, ReportFrame DEF Settled

\* Every step keeps that changes are reported or about to be.
LEMMA ChangeReportedStep ==
    TypeOK /\ StoreInv /\ ChangeReported /\ [Next]_vars => ChangeReported'
<1>. SUFFICES ASSUME TypeOK, StoreInv, ChangeReported, [Next]_vars PROVE ChangeReported'
  OBVIOUS
<1>0. /\ CallsOK
      /\ \A c \in Callers : call[c].pc # "idle" => call[c].key \in Keys
  BY DEF TypeOK, CallsOK
<1>1. ASSUME NEW c \in Callers, call[c].pc \notin {"recordset", "ok"},
             \A d \in Callers \ {c} : call'[d] = call[d],
             UNCHANGED <<shown, stored, interrupted, differs>>
      PROVE  ChangeReported'
  BY <1>1, OtherReports, ReportFrame DEF Settled
<1>2. ASSUME NEW c \in Callers, FailFlight(c), call[c].pc # "recordset", call[c].pc # "ok"
      PROVE  ChangeReported'
  BY <1>2, FailFlightReports
<1>3. ASSUME NEW c \in Callers, Check(c) PROVE ChangeReported'
  <2>1. \A d \in Callers \ {c} : call'[d] = call[d]
    BY <1>0, <1>3, GotoMoves, ReturnMoves DEF Check, Moves
  <2>. QED
    BY <1>1, <1>3, <2>1 DEF Check
<1>4. ASSUME NEW c \in Callers, Enter(c) PROVE ChangeReported'
  <2>1. \A d \in Callers \ {c} : call'[d] = call[d]
    BY <1>0, <1>4, GotoMoves DEF Enter, Moves
  <2>. QED
    BY <1>1, <1>4, <2>1 DEF Enter
<1>5. ASSUME NEW c \in Callers, RecordStart(c) PROVE ChangeReported'
  <2>1. CASE ~FailFlight(c)
    <3>1. PICK r : WriteRow(c, r, "startset") /\ UNCHANGED <<stored, interrupted, differs, shown>>
      BY <1>5, <2>1 DEF RecordStart
    <3>2. \A d \in Callers \ {c} : call'[d] = call[d]
      BY <1>0, <3>1, WriteRowMoves DEF Moves
    <3>. QED
      BY <1>1, <1>5, <3>1, <3>2 DEF RecordStart
  <2>. QED
    BY <1>2, <1>5, <2>1 DEF RecordStart
<1>6. ASSUME NEW c \in Callers, PublishStart(c) PROVE ChangeReported'
  BY <1>0, <1>1, <1>6, GotoMoves DEF PublishStart, Moves
<1>7. ASSUME NEW c \in Callers, Fetch(c) PROVE ChangeReported'
  <2>1. CASE ~FailFlight(c)
    <3>1. \A d \in Callers \ {c} : call'[d] = call[d]
      BY <1>0, <1>7, <2>1 DEF Fetch, CallsOK
    <3>. QED
      BY <1>1, <1>7, <2>1, <3>1 DEF Fetch
  <2>. QED
    BY <1>2, <1>7, <2>1 DEF Fetch
<1>8. ASSUME NEW c \in Callers, Compare(c) PROVE ChangeReported'
  <2>1. CASE ~FailFlight(c)
    <3>1. \A d \in Callers \ {c} : call'[d] = call[d]
      BY <1>0, <1>8, <2>1 DEF Compare, CallsOK
    <3>. QED
      BY <1>1, <1>8, <2>1, <3>1 DEF Compare
  <2>. QED
    BY <1>2, <1>8, <2>1 DEF Compare
\* While the data is being written the section counts as interrupted.
<1>9. ASSUME NEW c \in Callers, ApplyFirst(c) PROVE ChangeReported'
  <2>1. CASE ~FailFlight(c)
    <3>1. /\ call[c].pc = "apply" /\ Goto(c, "applying") /\ UNCHANGED shown
          /\ call[c].key \in Keys
          /\ stored' = [stored EXCEPT ![call[c].key] = Torn]
          /\ interrupted' = [interrupted EXCEPT ![call[c].key] = TRUE]
          /\ differs' = [differs EXCEPT ![call[c].key] = "no"]
      BY <1>0, <1>9, <2>1 DEF ApplyFirst
    <3>2. \A d \in Callers \ {c} : call'[d] = call[d]
      BY <1>0, <3>1, GotoMoves DEF Moves
    <3>3. \A k \in Keys : Settled(k)' => Settled(k) /\ stored'[k] = stored[k]
      BY <3>1 DEF TypeOK, DiffersOK, Settled
    <3>. QED
      BY <3>1, <3>2, <3>3, OtherReports, ReportFrame
  <2>. QED
    BY <1>2, <1>9, <2>1 DEF ApplyFirst
<1>10. ASSUME NEW c \in Callers, ApplyRest(c) PROVE ChangeReported'
  <2>1. CASE ~FailFlight(c)
    <3>1. /\ call[c].pc = "applying" /\ Goto(c, "record") /\ UNCHANGED <<shown, interrupted>>
          /\ call[c].key \in Keys
          /\ \A k \in Keys \ {call[c].key} : /\ stored'[k] = stored[k]
                                            /\ differs'[k] = differs[k]
      BY <1>0, <1>10, <2>1 DEF ApplyRest, TypeOK, DiffersOK
    <3>2. \A d \in Callers \ {c} : call'[d] = call[d]
      BY <1>0, <3>1, GotoMoves DEF Moves
    <3>3. interrupted[call[c].key]
      BY <3>1 DEF StoreInv
    <3>4. \A k \in Keys : Settled(k)' => Settled(k) /\ stored'[k] = stored[k]
      BY <3>1, <3>3 DEF Settled
    <3>. QED
      BY <3>1, <3>2, <3>4, OtherReports, ReportFrame
  <2>. QED
    BY <1>2, <1>10, <2>1 DEF ApplyRest
\* The run that ends the interruption is one that applied its data, and it
\* has yet to say so.
<1>11. ASSUME NEW c \in Callers, RecordCompletion(c) PROVE ChangeReported'
  <2>. DEFINE r == [completed |-> "fresh", hash |-> call[c].got,
                    error |-> FALSE, started |-> FALSE]
  <2>1. CASE ~FailFlight(c)
    <3>1. /\ call[c].pc = "record" /\ WriteRow(c, r, "recordset")
          /\ interrupted' = [interrupted EXCEPT ![call[c].key] = @ /\ ~Applied(c)]
          /\ UNCHANGED <<stored, differs, shown>> /\ call[c].key \in Keys
      BY <1>0, <1>11, <2>1 DEF RecordCompletion
    <3>2. Moves(c, "recordset") /\ call'[c].changed = call[c].changed
      BY <1>0, <3>1, WriteRowMoves
    <3>3. \A d \in Callers \ {c} : call'[d] = call[d]
      BY <3>2 DEF Moves
    <3>4. CASE Applied(c)
      <4>1. SUFFICES ASSUME NEW k \in Keys \ PostSteps, Settled(k)', shown'[k] # stored'[k]
                     PROVE  \E d \in Callers : Reports(d, k)'
        BY DEF ChangeReported, Reports, Settled
      <4>2. CASE k = call[c].key
        <5>1. Reports(c, k)'
          BY <3>2, <3>4, <4>2 DEF Reports, Moves, Applied
        <5>. QED
          BY <5>1
      <4>3. CASE k # call[c].key
        <5>1. \E d \in Callers : Reports(d, k)
          BY <3>1, <4>1, <4>3 DEF ChangeReported, Reports, Settled, TypeOK
        <5>. QED
          BY <3>1, <3>3, <5>1, OtherReports
      <4>. QED
        BY <4>2, <4>3
    <3>5. CASE ~Applied(c)
      <4>1. UNCHANGED interrupted
        BY <3>1, <3>5 DEF TypeOK
      <4>. QED
        BY <1>1, <3>1, <3>3, <4>1
    <3>. QED
      BY <3>4, <3>5
  <2>. QED
    BY <1>2, <1>11, <2>1 DEF RecordCompletion
\* Without later steps that may fail, the outcome of the run reports it.
<1>12. ASSUME NEW c \in Callers, PublishCompletion(c) PROVE ChangeReported'
  <2>0. /\ call[c].pc = "recordset" /\ UNCHANGED <<shown, stored, interrupted, differs>>
        /\ \/ EndFlight(c, "ok", call[c].changed)
           \/ call[c].key \in PostSteps /\ EndFlight(c, "fail", FALSE)
    BY <1>12 DEF PublishCompletion
  <2>1. PICK o, b : /\ EndFlight(c, o, b)
                    /\ call[c].key \in PostSteps \/ (o = "ok" /\ b = call[c].changed)
    BY <2>0
  <2>2. /\ \A d \in Crew(c) : /\ call'[d].pc = o /\ call'[d].changed = b
                              /\ call'[d].key = call[d].key
                              /\ call'[d].force = call[d].force
        /\ \A d \in Callers \ Crew(c) : call'[d] = call[d]
    BY <1>0, <2>1, EndFlightMoves
  <2>3. c \in Crew(c) /\ \A d \in Crew(c) \ {c} : call[d].pc = "wait"
    BY DEF Crew
  <2>4. ASSUME NEW d \in Callers, NEW k \in Keys \ PostSteps, Reports(d, k)
        PROVE  Reports(d, k)'
    <3>1. CASE d = c
      <4>1. o = "ok" /\ b = call[c].changed
        BY <2>1, <2>4, <3>1 DEF Reports
      <4>. QED
        BY <2>2, <2>3, <2>4, <3>1, <4>1 DEF Reports, Applied
    <3>2. CASE d # c
      <4>1. d \notin Crew(c)
        BY <2>3, <2>4, <3>2 DEF Reports
      <4>. QED
        BY <2>2, <2>4, <4>1 DEF Reports, Applied
    <3>. QED
      BY <3>1, <3>2
  <2>. QED
    BY <2>0, <2>4, ReportFrame DEF Settled
\* Whoever gets the outcome makes the UI read the section.
<1>13. ASSUME NEW c \in Callers, ReturnOk(c) PROVE ChangeReported'
  <2>1. /\ call[c].pc = "ok" /\ call[c].key \in Keys /\ UNCHANGED <<stored, interrupted, differs>>
        /\ shown' = IF Applied(c)
                    THEN [shown EXCEPT ![call[c].key] = stored[call[c].key]] ELSE shown
    BY <1>0, <1>13 DEF ReturnOk
  <2>2. \A d \in Callers \ {c} : call'[d] = call[d]
    BY <1>0, <1>13, ReturnMoves DEF ReturnOk
  <2>3. SUFFICES ASSUME NEW k \in Keys \ PostSteps, Settled(k)', shown'[k] # stored'[k]
                 PROVE  \E d \in Callers : Reports(d, k)'
    BY DEF ChangeReported, Reports, Settled
  <2>4. shown'[k] = shown[k] /\ ~(Applied(c) /\ k = call[c].key)
    BY <2>1, <2>3 DEF TypeOK
  <2>5. PICK d \in Callers : Reports(d, k)
    BY <2>1, <2>3, <2>4 DEF ChangeReported, Reports, Settled
  <2>6. d # c
    BY <2>4, <2>5 DEF Reports
  <2>. QED
    BY <2>2, <2>5, <2>6 DEF Reports, Applied
<1>14. ASSUME NEW c \in Callers, RecordError(c) PROVE ChangeReported'
  <2>1. \A d \in Callers \ {c} : call'[d] = call[d]
    <3>1. CASE Return(c)
      BY <1>0, <3>1, ReturnMoves
    <3>2. ASSUME NEW r, WriteRow(c, r, "failset")
          PROVE  \A d \in Callers \ {c} : call'[d] = call[d]
      BY <1>0, <3>2, WriteRowMoves DEF Moves
    <3>. QED
      BY <1>14, <3>1, <3>2 DEF RecordError
  <2>. QED
    BY <1>1, <1>14, <2>1 DEF RecordError
<1>15. ASSUME NEW c \in Callers, PublishError(c) PROVE ChangeReported'
  BY <1>0, <1>1, <1>15, ReturnMoves DEF PublishError
<1>16. ASSUME NEW c \in Callers, NEW k \in Keys, NEW f \in BOOLEAN, Begin(c, k, f)
       PROVE  ChangeReported'
  <2>1. \A d \in Callers \ {c} : call'[d] = call[d]
    BY <1>0, <1>16 DEF Begin, CallsOK
  <2>. QED
    BY <1>1, <1>16, <2>1 DEF Begin
<1>17. CASE Restart
  BY <1>17 DEF Restart, ChangeReported
\* Data that others have written is excepted.
<1>19. ASSUME NEW k \in Keys, Edit(k) PROVE ChangeReported'
  <2>1. \A j \in Keys : Settled(j)' => Settled(j) /\ stored'[j] = stored[j]
    BY <1>19 DEF Edit, Settled, TypeOK, DiffersOK
  <2>2. UNCHANGED <<call, shown>>
    BY <1>19 DEF Edit
  <2>. QED
    BY <2>1, <2>2, ReportFrame DEF Reports, Applied
<1>18. CASE UNCHANGED <<call, shown, stored, interrupted, differs>>
  <2>1. \A d \in Callers, k \in Keys \ PostSteps : Reports(d, k) => Reports(d, k)'
    BY <1>18 DEF Reports, Applied
  <2>. QED
    BY <1>18, <2>1, ReportFrame DEF Settled
<1>. QED
  BY <1>3, <1>4, <1>5, <1>6, <1>7, <1>8, <1>9, <1>10, <1>11, <1>12, <1>13, <1>14,
     <1>15, <1>16, <1>17, <1>18, <1>19
     DEF Next, Step, Run, Expire, EsiChange, ClearCache, vars

\* A section whose stored data is not what the UI has read is about to be
\* reported by some call: no update of a section goes unnoticed, whoever led
\* it and whoever waited for it.
THEOREM ChangesAreReported == Spec => []ChangeReported
<1>1. Init => StoreInv /\ ChangeReported
  BY DEF Init, StoreInv, HashDescribesStore, NoRow, Idle, ChangeReported
<1>. QED
  BY <1>1, TypeCorrect, OneRunAtATime, StoreInvStep, ChangeReportedStep, PTL DEF Spec
=============================================================================
