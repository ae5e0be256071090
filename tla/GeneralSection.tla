--------------------------- MODULE GeneralSection ---------------------------
(***************************************************************************)
(* How the universe service keeps the general sections (categories,        *)
(* characters, market prices) up to date: UpdateSection of                 *)
(* internal/app/eveuniverseservice/sectionupdate.go, with the status row   *)
(* and the status cache.  Its difference to the character sections is in   *)
(* what singleflight covers: the start mark and the update are inside, the *)
(* record of the outcome, good or bad, is made by every caller afterwards. *)
(* There is no hash: a run that succeeds has always "changed" the section. *)
(*                                                                         *)
(* Contents and time stamps are abstracted as in SectionUpdate.            *)
(***************************************************************************)
EXTENDS Naturals

CONSTANTS
    Sections,
    Callers,     \* goroutines that may be inside UpdateSection
    Contents,    \* what the game server may hold for a section
    NoSection, NoCaller, NoContent,
    Lenient,     \* sections whose update may succeed without storing all the
                 \* server has: categories and characters, but not the prices
    Torn,        \* content of a section that is none of the server's
    MaxFailures, \* bound: failing storage or network calls
    MaxEvents    \* bound: ends of the process, changes of the data on the game
                 \* server and uses of "clear cache", together

ASSUME NullAssumption ==
    /\ NoSection \notin Sections
    /\ NoCaller \notin Callers
    /\ NoContent \notin Contents
    /\ Torn \notin Contents \cup {NoContent}
ASSUME LenientAssumption == Lenient \subseteq Sections
ASSUME BoundAssumption == {MaxFailures, MaxEvents} \subseteq Nat

VARIABLES
    row,       \* the status row of a section
    stored,    \* the content of the section in the database
    esi,       \* the content of the section on the game server
    cache,     \* the section's entry in the status cache
    flight,    \* the leader of the section's call in the singleflight group
    call,      \* the local state of every caller
    latest,    \* history: how the last run of a section ended
    mixed,     \* history: the row has not got the outcome of the last run
    orphaned,  \* history: the start mark lost the goroutine that clears it
    skipped,   \* history: an update found the data of the server as it is now,
               \* and left something out
    displaced, \* history: the cache entry may miss the last write of the row
    used       \* how much of each bound is used up

vars == <<row, stored, esi, cache, flight, call, latest, mixed, orphaned,
          skipped, displaced, used>>

----------------------------------------------------------------------------
Rows == [completed : {"never", "fresh", "expired"}, error : BOOLEAN, started : BOOLEAN]
NoRow == [completed |-> "never", error |-> FALSE, started |-> FALSE]

\* The part of a status row the cache keeps.
Views == [missing : BOOLEAN, error : BOOLEAN, running : BOOLEAN]
View(r) == [missing |-> r.completed = "never", error |-> r.error, running |-> r.started]

LeaderPCs == {"start", "startset", "update", "updating"}
PublishPCs == {"startset", "okset", "failset"}
PCs == {"idle", "check", "enter", "wait", "ok", "okset", "fail", "failset"} \cup LeaderPCs

\* latest: no later run of the section has ended.  What a call returns does not
\* matter here: the error of an update is shadowed by that of recording it.
Calls == [pc : PCs, section : Sections \cup {NoSection}, force : BOOLEAN,
          latest : BOOLEAN, status : Views]
Idle == [pc |-> "idle", section |-> NoSection, force |-> FALSE, latest |-> FALSE,
         status |-> View(NoRow)]

IsCurrent(r) == ~r.error /\ r.completed = "fresh"

\* A storage or network call fails.
CanFail == used.failures < MaxFailures
CountFailure == used' = [used EXCEPT !.failures = @ + 1]

CountEvent ==
    /\ used.events < MaxEvents
    /\ used' = [used EXCEPT !.events = @ + 1]

Goto(c, pc) == call' = [call EXCEPT ![c].pc = pc]
Return(c) == call' = [call EXCEPT ![c] = Idle]

Publishing(c, s) ==
    \E d \in Callers \ {c} : call[d].pc \in PublishPCs /\ call[d].section = s

\* UpdateOrCreateGeneralSectionStatus: one transaction lays the fields of the
\* caller over the row.  The caller goes on to put the result into the cache.
WriteRow(c, r, pc) ==
    LET s == call[c].section IN
    /\ row' = [row EXCEPT ![s] = r]
    /\ call' = [call EXCEPT ![c].pc = pc, ![c].status = View(r)]
    /\ orphaned' = [orphaned EXCEPT ![s] = FALSE]
    /\ displaced' = [displaced EXCEPT ![s] = Publishing(c, s)]

\* GeneralSectionSet
Publish(c) == cache' = [cache EXCEPT ![call[c].section] = call[c].status]

\* The function run by singleflight returns to the leader and to everybody who
\* waits, and the key is free again.
EndFlight(c, outcome) ==
    LET s == call[c].section
        Crew == {c} \cup {d \in Callers : call[d].pc = "wait" /\ call[d].section = s}
    IN  /\ call' = [d \in Callers |->
             IF d \in Crew
             THEN [call[d] EXCEPT !.pc = outcome, !.latest = TRUE]
             ELSE [call[d] EXCEPT !.latest = @ /\ call[d].section # s]]
        /\ flight' = [flight EXCEPT ![s] = NoCaller]
        /\ latest' = [latest EXCEPT ![s] = outcome]
        /\ mixed' = [mixed EXCEPT ![s] = TRUE]

FailFlight(c) ==
    /\ CanFail /\ CountFailure
    /\ EndFlight(c, "fail")
    /\ UNCHANGED <<row, stored, esi, cache, orphaned, skipped, displaced>>

----------------------------------------------------------------------------
Init ==
    /\ row = [s \in Sections |-> NoRow]
    /\ stored = [s \in Sections |-> NoContent]
    /\ esi \in [Sections -> Contents]
    /\ cache = [s \in Sections |-> View(NoRow)]
    /\ flight = [s \in Sections |-> NoCaller]
    /\ call = [c \in Callers |-> Idle]
    /\ latest = [s \in Sections |-> "none"]
    /\ mixed = [s \in Sections |-> FALSE]
    /\ orphaned = [s \in Sections |-> FALSE]
    /\ skipped = [s \in Sections |-> FALSE]
    /\ displaced = [s \in Sections |-> FALSE]
    /\ used = [failures |-> 0, events |-> 0]

----------------------------------------------------------------------------
(* UpdateSection *)

Begin(c, s, force) ==
    /\ call[c].pc = "idle"
    /\ call' = [call EXCEPT ![c] = [Idle EXCEPT
                   !.pc = "check", !.section = s, !.force = force]]
    /\ UNCHANGED <<row, stored, esi, cache, flight, latest, mixed, orphaned,
                   skipped, displaced, used>>

\* Mutant: a section that was updated once is never out of date.
CheckNoExpiry(c) ==
    /\ call[c].pc = "check"
    /\ IF ~call[c].force /\ ~row[call[c].section].error /\ row[call[c].section].completed # "never"
       THEN Return(c) ELSE Goto(c, "enter")
    /\ UNCHANGED <<row, stored, esi, cache, flight, latest, mixed, orphaned,
                   skipped, displaced, used>>

\* The row is read, also for a forced call; a section whose last update is
\* good and recent is left alone otherwise.
Check(c) ==
    /\ call[c].pc = "check"
    /\ \/ /\ IF ~call[c].force /\ IsCurrent(row[call[c].section])
             THEN Return(c) ELSE Goto(c, "enter")
          /\ UNCHANGED used
       \/ CanFail /\ CountFailure /\ Return(c)
    /\ UNCHANGED <<row, stored, esi, cache, flight, latest, mixed, orphaned,
                   skipped, displaced>>

\* sfg.Do: lead a run of the section or wait for the one under way.
Enter(c) ==
    LET s == call[c].section IN
    /\ call[c].pc = "enter"
    /\ \/ /\ flight[s] = NoCaller
          /\ flight' = [flight EXCEPT ![s] = c]
          /\ Goto(c, "start")
       \/ /\ flight[s] # NoCaller
          /\ Goto(c, "wait")
          /\ UNCHANGED flight
    /\ UNCHANGED <<row, stored, esi, cache, latest, mixed, orphaned,
                   skipped, displaced, used>>

RecordStart(c) ==
    /\ call[c].pc = "start"
    /\ \/ /\ WriteRow(c, [row[call[c].section] EXCEPT !.started = TRUE], "startset")
          /\ UNCHANGED <<stored, esi, cache, flight, latest, mixed, skipped, used>>
       \/ FailFlight(c)

PublishStart(c) ==
    /\ call[c].pc = "startset"
    /\ Publish(c)
    /\ Goto(c, "update")
    /\ UNCHANGED <<row, stored, esi, flight, latest, mixed, orphaned,
                   skipped, displaced, used>>

\* f(ctx): many requests and writes, any of which may fail; what was written
\* before stays.  The last of them completes the content of the section.
UpdateFirst(c) ==
    /\ call[c].pc = "update"
    /\ \/ /\ stored' = [stored EXCEPT ![call[c].section] = Torn]
          /\ skipped' = [skipped EXCEPT ![call[c].section] = FALSE]
          /\ Goto(c, "updating")
          /\ UNCHANGED <<row, esi, cache, flight, latest, mixed, orphaned,
                         displaced, used>>
       \/ FailFlight(c)

\* An update may succeed and leave something out: a type that the database
\* has is not looked at again, be it changed or without its values; a character
\* keeps the alliance and the faction it has left.
UpdateRest(c) ==
    LET s == call[c].section IN
    /\ call[c].pc = "updating"
    /\ \/ /\ \/ /\ stored' = [stored EXCEPT ![s] = esi[s]]
                /\ UNCHANGED skipped
             \/ /\ s \in Lenient
                /\ skipped' = [skipped EXCEPT ![s] = TRUE]
                /\ UNCHANGED stored
          /\ EndFlight(c, "ok")
          /\ UNCHANGED <<row, esi, cache, orphaned, displaced, used>>
       \/ FailFlight(c)

\* Everybody records the outcome of the run after the key was freed.  When
\* the write fails the call returns that error, and the cache is left alone.
Record(c, r, pc) ==
    LET s == call[c].section IN
    /\ \/ /\ WriteRow(c, r, pc)
          /\ mixed' = [mixed EXCEPT ![s] = ~call[c].latest]
          /\ UNCHANGED used
       \/ /\ CanFail /\ CountFailure
          /\ Return(c)
          /\ orphaned' = [orphaned EXCEPT ![s] = row[s].started]
          /\ UNCHANGED <<row, displaced, mixed>>
    /\ UNCHANGED <<stored, esi, cache, flight, latest, skipped>>

RecordError(c) ==
    /\ call[c].pc = "fail"
    /\ Record(c, [row[call[c].section] EXCEPT !.error = TRUE, !.started = FALSE], "failset")

\* The error of the update is shadowed by that of recording it, which is none.
PublishError(c) ==
    /\ call[c].pc = "failset"
    /\ Publish(c)
    /\ Return(c)
    /\ UNCHANGED <<row, stored, esi, flight, latest, mixed, orphaned,
                   skipped, displaced, used>>

\* Mutant: the completion does not reset the error.
RecordCompletionError(c) ==
    /\ call[c].pc = "ok"
    /\ Record(c, [completed |-> "fresh", error |-> row[call[c].section].error,
                  started |-> FALSE], "okset")

RecordCompletion(c) ==
    /\ call[c].pc = "ok"
    /\ Record(c, [completed |-> "fresh", error |-> FALSE, started |-> FALSE], "okset")

\* Mutant: the cache is not told of the completion.
PublishCompletionNot(c) ==
    /\ call[c].pc = "okset"
    /\ Return(c)
    /\ UNCHANGED <<row, stored, esi, cache, flight, latest, mixed, orphaned,
                   skipped, displaced, used>>

PublishCompletion(c) ==
    /\ call[c].pc = "okset"
    /\ Publish(c)
    /\ Return(c)
    /\ UNCHANGED <<row, stored, esi, flight, latest, mixed, orphaned,
                   skipped, displaced, used>>

----------------------------------------------------------------------------
(* The environment *)

Expire(s) ==
    /\ row[s].completed = "fresh"
    /\ row' = [row EXCEPT ![s].completed = "expired"]
    /\ UNCHANGED <<stored, esi, cache, flight, call, latest, mixed, orphaned,
                   skipped, displaced, used>>

EsiChange(s) ==
    /\ CountEvent
    /\ \E d \in Contents \ {esi[s]} : esi' = [esi EXCEPT ![s] = d]
    /\ skipped' = [skipped EXCEPT ![s] = FALSE]
    /\ UNCHANGED <<row, stored, cache, flight, call, latest, mixed, orphaned, displaced>>

\* The process ends and starts again; InitCache fills the cache from the rows.
Restart ==
    /\ CountEvent
    /\ cache' = [s \in Sections |-> View(row[s])]
    /\ flight' = [s \in Sections |-> NoCaller]
    /\ call' = [c \in Callers |-> Idle]
    /\ latest' = [s \in Sections |-> IF row[s].error THEN "fail" ELSE "none"]
    /\ mixed' = [s \in Sections |-> FALSE]
    /\ orphaned' = [s \in Sections |-> row[s].started]
    /\ displaced' = [s \in Sections |-> FALSE]
    /\ UNCHANGED <<row, stored, esi, skipped>>

\* The user clears the cache in the settings, the status cache with it.
ClearCache ==
    /\ CountEvent
    /\ cache' = [s \in Sections |-> View(NoRow)]
    /\ displaced' = [s \in Sections |-> TRUE]
    /\ UNCHANGED <<row, stored, esi, flight, call, latest, mixed, orphaned,
                   skipped>>

----------------------------------------------------------------------------
Step(c) ==
    \/ Check(c) \/ Enter(c)
    \/ RecordStart(c) \/ PublishStart(c) \/ UpdateFirst(c) \/ UpdateRest(c)
    \/ RecordError(c) \/ PublishError(c) \/ RecordCompletion(c) \/ PublishCompletion(c)

Next ==
    \/ \E c \in Callers : Step(c)
    \/ \E c \in Callers, s \in Sections, force \in BOOLEAN : Begin(c, s, force)
    \/ \E s \in Sections : Expire(s) \/ EsiChange(s)
    \/ Restart
    \/ ClearCache

Spec == Init /\ [][Next]_vars

\* Goroutines run, time passes, and the ticker spawns a goroutine for every
\* section again and again.
Fairness ==
    /\ \A c \in Callers : WF_vars(Step(c))
    /\ \A s \in Sections : WF_vars(Expire(s))
    /\ \A s \in Sections : SF_vars(\E c \in Callers : Begin(c, s, FALSE))

LiveSpec == Spec /\ Fairness

----------------------------------------------------------------------------
(* Properties *)

\* Every variable keeps to its type, and a goroutine inside UpdateSection
\* works on some section.
TypeOK ==
    /\ row \in [Sections -> Rows]
    /\ stored \in [Sections -> Contents \cup {NoContent, Torn}]
    /\ esi \in [Sections -> Contents]
    /\ cache \in [Sections -> Views]
    /\ flight \in [Sections -> Callers \cup {NoCaller}]
    /\ call \in [Callers -> Calls]
    /\ \A c \in Callers : call[c].pc # "idle" <=> call[c].section \in Sections
    /\ latest \in [Sections -> {"none", "ok", "fail"}]
    /\ mixed \in [Sections -> BOOLEAN]
    /\ orphaned \in [Sections -> BOOLEAN]
    /\ skipped \in [Sections -> BOOLEAN]
    /\ \A s \in Sections : skipped[s] => s \in Lenient
    /\ displaced \in [Sections -> BOOLEAN]
    /\ used \in [failures : 0..MaxFailures, events : 0..MaxEvents]

\* One goroutine at a time runs the update of a section, and whoever waits has
\* a leader to wait for.
SingleRun ==
    /\ \A s \in Sections : flight[s] # NoCaller =>
          call[flight[s]].pc \in LeaderPCs /\ call[flight[s]].section = s
    /\ \A c \in Callers :
          /\ call[c].pc \in LeaderPCs => flight[call[c].section] = c
          /\ call[c].pc = "wait" => flight[call[c].section] # NoCaller

Quiet(s) == \A c \in Callers : call[c].section # s

\* With nobody at work on a section, its row says how its last run ended,
\* unless a goroutine of an earlier run or a failing write came in between.
RowShowsLatestRun ==
    \A s \in Sections : Quiet(s) /\ ~mixed[s] => (row[s].error <=> latest[s] = "fail")

\* A section is marked as running only while some goroutine is going to clear
\* the mark, unless the process ended or the outcome could not be recorded.
OwnerPCs == {"startset", "update", "updating", "ok", "fail"}
RunningHasOwner ==
    \A s \in Sections : row[s].started /\ ~orphaned[s] =>
        \E c \in Callers : call[c].pc \in OwnerPCs /\ call[c].section = s

\* The cache shows the row whenever nobody is about to update it, unless two
\* goroutines overlapped between writing the row and updating the cache, or
\* the cache was cleared.
CacheCoherent ==
    \A s \in Sections :
        ~displaced[s] /\ ~Publishing(NoCaller, s) => cache[s] = View(row[s])

\* The three together: what the row and the cache say of a section is what its
\* one run is doing; every variable keeps its type.
StatusIsTrue == TypeOK /\ SingleRun /\ RunningHasOwner /\ CacheCoherent

\* A section whose update failed, also half way or with the record lost, gets
\* the data of the server in the end, or an update that found this data left
\* something out (never of the prices).
DataArrives == \A s \in Sections : []<>(stored[s] = esi[s] \/ skipped[s])

\* Errors and start marks do not stay, and the cache becomes current for good.
StatusHeals ==
    /\ \A s \in Sections : row[s].error ~> ~row[s].error
    /\ \A s \in Sections : row[s].started ~> ~row[s].started
    /\ <>[](\A s \in Sections : Quiet(s) => cache[s] = View(row[s]))
=============================================================================
