--------------------------- MODULE SectionUpdate ---------------------------
(***************************************************************************)
(* How the character service keeps one character section up to date with   *)
(* the game server (internal/app/characterservice/section.go), together    *)
(* with the two things every update touches: the section's status row in   *)
(* the database (internal/app/storage/charactersectionstatus.go) and the   *)
(* status cache the UI reads (internal/app/statuscacheservice).            *)
(*                                                                         *)
(* A caller is a goroutine inside UpdateSectionIfNeeded.  Goroutines are   *)
(* spawned by the 60 second ticker (not forced) and by the user (forced);  *)
(* golang.org/x/sync/singleflight lets one of the goroutines that ask for  *)
(* the same key lead a run and makes the others wait for its outcome.      *)
(*                                                                         *)
(* Data is abstracted to what the properties tell apart.  A content stands *)
(* for the data of a section and for its MD5 hash.  A time stamp is        *)
(* "never", "fresh" or "expired".  A missing row is the row of default     *)
(* values: the code treats the two alike, and never writes the latter.     *)
(* The database holds a content when its rows say what the server sent;    *)
(* what the server no longer lists may still be there.                     *)
(***************************************************************************)
EXTENDS Naturals, FiniteSets

CONSTANTS
    Keys,        \* a key is one section of one character
    Callers,     \* goroutines that may be inside UpdateSectionIfNeeded
    Contents,    \* what the game server may hold for a section
    NoKey, NoCaller, NoContent,
    PostSteps,   \* keys whose run does more after its completion: the assets
    Lenient,     \* keys whose update may skip items and succeed: contracts,
                 \* wallet transactions, notifications and mails
    Edited,      \* keys whose data others write too: what is kept in columns
                 \* of the character, and the mails
    Torn,        \* content of a section that is none of the server's: its
                 \* update stopped or skipped items, or somebody wrote it
    MaxFailures, \* bound: failing storage, token or network calls
    MaxRestarts, \* bound: ends of the process, by a crash or by the user
    MaxChanges,  \* bound: changes of the data on the game server
    MaxClears,   \* bound: uses of "clear cache" in the settings
    MaxEdits     \* bound: writes of a section's data by others

ASSUME NullAssumption ==
    /\ NoKey \notin Keys
    /\ NoCaller \notin Callers
    /\ NoContent \notin Contents
    /\ Torn \notin Contents \cup {NoContent}
ASSUME KindsAssumption == {PostSteps, Lenient, Edited} \subseteq SUBSET Keys
ASSUME BoundAssumption ==
    {MaxFailures, MaxRestarts, MaxChanges, MaxClears, MaxEdits} \subseteq Nat

VARIABLES
    row,         \* the status row of a key in the database
    stored,      \* the content of the section in the database
    esi,         \* the content of the section on the game server
    cache,       \* the entry of a key in the status cache
    flight,      \* the leader of the key's call in the singleflight group
    call,        \* the local state of every caller
    interrupted, \* history: an update began that no completion recorded
    differs,     \* history: why the data may not be what the last update got
    shown,       \* the content of the section when the UI last read it
    orphaned,    \* history: the start mark lost the goroutine that clears it
    displaced,   \* history: the cache entry may miss the last write of the row
    used         \* how much of each bound is used up

vars == <<row, stored, esi, cache, flight, call, interrupted,
          differs, shown, orphaned, displaced, used>>

----------------------------------------------------------------------------
(* Values *)

Rows == [completed : {"never", "fresh", "expired"},
         hash : Contents \cup {NoContent},
         error : BOOLEAN, started : BOOLEAN]

NoRow == [completed |-> "never", hash |-> NoContent,
          error |-> FALSE, started |-> FALSE]

\* The part of a status row the cache keeps.
Views == [missing : BOOLEAN, error : BOOLEAN, running : BOOLEAN]
View(r) == [missing |-> r.completed = "never", error |-> r.error,
            running |-> r.started]

LeaderPCs == {"start", "startset", "fetch", "compare", "apply", "applying",
              "record", "recordset"}
PublishPCs == {"startset", "recordset", "failset"}
PCs == {"idle", "check", "enter", "wait", "ok", "fail", "failset"} \cup LeaderPCs

Calls == [pc : PCs, key : Keys \cup {NoKey}, force : BOOLEAN,
          got : Contents \cup {NoContent}, changed : BOOLEAN, status : Views]

Idle == [pc |-> "idle", key |-> NoKey, force |-> FALSE, got |-> NoContent,
         changed |-> FALSE, status |-> View(NoRow)]

----------------------------------------------------------------------------
(* Steps common to several actions *)

\* IsOK() and not IsExpired()
IsCurrent(r) == ~r.error /\ r.completed = "fresh"

\* A storage, token or network call fails.
CanFail == used.failures < MaxFailures
CountFailure == used' = [used EXCEPT !.failures = @ + 1]

Goto(c, pc) == call' = [call EXCEPT ![c].pc = pc]
Return(c) == call' = [call EXCEPT ![c] = Idle]

\* Some caller other than c wrote the row and has yet to update the cache.
Publishing(c, k) ==
    \E d \in Callers \ {c} : call[d].pc \in PublishPCs /\ call[d].key = k

\* UpdateOrCreateCharacterSectionStatus: one transaction reads the row, lays
\* the fields of the caller over it and writes it back.  The caller keeps
\* what it wrote and goes on to put it into the cache.
WriteRow(c, r, pc) ==
    LET k == call[c].key IN
    /\ row' = [row EXCEPT ![k] = r]
    /\ call' = [call EXCEPT ![c].pc = pc, ![c].status = View(r)]
    /\ orphaned' = [orphaned EXCEPT ![k] = FALSE]
    /\ displaced' = [displaced EXCEPT ![k] = Publishing(c, k)]

\* CharacterSectionSet
Publish(c) == cache' = [cache EXCEPT ![call[c].key] = call[c].status]

\* Mutant: the waiters are forgotten.
EndFlightLeaderOnly(c, outcome, changed) ==
    /\ call' = [call EXCEPT ![c].pc = outcome, ![c].changed = changed]
    /\ flight' = [flight EXCEPT ![call[c].key] = NoCaller]

\* The function run by singleflight returns: the leader and everybody who
\* waits for the key get the outcome, and the key is free again.
EndFlight(c, outcome, changed) ==
    LET k == call[c].key
        Crew == {c} \cup {d \in Callers : call[d].pc = "wait" /\ call[d].key = k}
    IN  /\ call' = [d \in Callers |->
                      IF d \in Crew
                      THEN [call[d] EXCEPT !.pc = outcome, !.changed = changed]
                      ELSE call[d]]
        /\ flight' = [flight EXCEPT ![k] = NoCaller]

\* A failure inside a run: nothing is written, all of the crew get the error.
FailFlight(c) ==
    /\ CanFail /\ CountFailure
    /\ EndFlight(c, "fail", FALSE)
    /\ UNCHANGED <<row, stored, esi, cache, interrupted, differs, shown,
                   orphaned, displaced>>

----------------------------------------------------------------------------
Init ==
    /\ row = [k \in Keys |-> NoRow]
    /\ stored = [k \in Keys |-> NoContent]
    /\ esi \in [Keys -> Contents]
    /\ cache = [k \in Keys |-> View(NoRow)]
    /\ flight = [k \in Keys |-> NoCaller]
    /\ call = [c \in Callers |-> Idle]
    /\ interrupted = [k \in Keys |-> FALSE]
    /\ differs = [k \in Keys |-> "no"]
    /\ shown = stored
    /\ orphaned = [k \in Keys |-> FALSE]
    /\ displaced = [k \in Keys |-> FALSE]
    /\ used = [failures |-> 0, restarts |-> 0, changes |-> 0, clears |-> 0,
                edits |-> 0]

----------------------------------------------------------------------------
(* UpdateSectionIfNeeded *)

\* Mutant: the arguments are lost.
BeginNoKey(c, k, force) ==
    /\ call[c].pc = "idle"
    /\ Goto(c, IF force THEN "enter" ELSE "check")
    /\ UNCHANGED <<row, stored, esi, cache, flight, interrupted, differs,
                   shown, orphaned, displaced, used>>

Begin(c, k, force) ==
    /\ call[c].pc = "idle"
    /\ call' = [call EXCEPT ![c] = [Idle EXCEPT
                   !.pc = IF force THEN "enter" ELSE "check",
                   !.key = k, !.force = force]]
    /\ UNCHANGED <<row, stored, esi, cache, flight, interrupted, differs,
                   shown, orphaned, displaced, used>>

\* Mutant: a section that was updated once is never out of date.
CheckNoExpiry(c) ==
    /\ call[c].pc = "check"
    /\ IF ~row[call[c].key].error /\ row[call[c].key].completed # "never"
       THEN Return(c) ELSE Goto(c, "enter")
    /\ UNCHANGED <<row, stored, esi, cache, flight, interrupted, differs,
                   shown, orphaned, displaced, used>>

\* The section is left alone when its last update is good and recent.  A
\* failing read is reported to the caller and not recorded.
Check(c) ==
    /\ call[c].pc = "check"
    /\ \/ /\ IF IsCurrent(row[call[c].key]) THEN Return(c) ELSE Goto(c, "enter")
          /\ UNCHANGED used
       \/ CanFail /\ CountFailure /\ Return(c)
    /\ UNCHANGED <<row, stored, esi, cache, flight, interrupted, differs,
                   shown, orphaned, displaced>>

\* Mutant: no singleflight, everybody runs the update.
EnterAlways(c) ==
    /\ call[c].pc = "enter"
    /\ flight' = [flight EXCEPT ![call[c].key] = c]
    /\ Goto(c, "start")
    /\ UNCHANGED <<row, stored, esi, cache, interrupted, differs, shown, orphaned,
                   displaced, used>>

\* sfg.Do: lead a run of the key, or wait for the one that is under way.
Enter(c) ==
    LET k == call[c].key IN
    /\ call[c].pc = "enter"
    /\ \/ /\ flight[k] = NoCaller
          /\ flight' = [flight EXCEPT ![k] = c]
          /\ Goto(c, "start")
       \/ /\ flight[k] # NoCaller
          /\ Goto(c, "wait")
          /\ UNCHANGED flight
    /\ UNCHANGED <<row, stored, esi, cache, interrupted, differs, shown, orphaned,
                   displaced, used>>

\* The run of the call applied its data.
Applied(c) == call[c].force \/ call[c].changed

\* The outcome was good: the call returns it, and its caller refreshes the UI
\* when the section has changed or the update was forced.
ReturnOk(c) ==
    /\ call[c].pc = "ok"
    /\ Return(c)
    /\ shown' = IF Applied(c)
                THEN [shown EXCEPT ![call[c].key] = stored[call[c].key]] ELSE shown
    /\ UNCHANGED <<row, stored, esi, cache, flight, interrupted, differs,
                   orphaned, displaced, used>>

\* The outcome was an error: leader and waiters alike record it, after the
\* key was freed.  When the write fails the cache is left alone too.
RecordError(c) ==
    LET k == call[c].key IN
    /\ call[c].pc = "fail"
    /\ \/ /\ WriteRow(c, [row[k] EXCEPT !.error = TRUE, !.started = FALSE], "failset")
          /\ UNCHANGED used
       \/ /\ CanFail /\ CountFailure
          /\ Return(c)
          /\ orphaned' = [orphaned EXCEPT ![k] = row[k].started]
          /\ UNCHANGED <<row, displaced>>
    /\ UNCHANGED <<stored, esi, cache, flight, interrupted, differs, shown>>

\* Mutant: the cache is not told of the error.
PublishErrorNot(c) ==
    /\ call[c].pc = "failset"
    /\ Return(c)
    /\ UNCHANGED <<row, stored, esi, cache, flight, interrupted, differs,
                   shown, orphaned, displaced, used>>

PublishError(c) ==
    /\ call[c].pc = "failset"
    /\ Publish(c)
    /\ Return(c)
    /\ UNCHANGED <<row, stored, esi, flight, interrupted, differs, shown, orphaned,
                   displaced, used>>

----------------------------------------------------------------------------
(* updateSectionIfChanged, run by the leader *)

RecordStart(c) ==
    LET k == call[c].key IN
    /\ call[c].pc = "start"
    /\ \/ /\ WriteRow(c, [row[k] EXCEPT !.started = TRUE], "startset")
          /\ UNCHANGED <<stored, esi, cache, flight, interrupted, differs, shown, used>>
       \/ FailFlight(c)

PublishStart(c) ==
    /\ call[c].pc = "startset"
    /\ Publish(c)
    /\ Goto(c, "fetch")
    /\ UNCHANGED <<row, stored, esi, flight, interrupted, differs, shown, orphaned,
                   displaced, used>>

\* Get a valid token, fetch the data from the game server and hash it.
Fetch(c) ==
    /\ call[c].pc = "fetch"
    /\ \/ /\ call' = [call EXCEPT ![c].pc = "compare", ![c].got = esi[call[c].key]]
          /\ UNCHANGED <<row, stored, esi, cache, flight, interrupted, differs,
                         shown, orphaned, displaced, used>>
       \/ FailFlight(c)

\* Compare the data with the hash of the last completed update.
HasChanged(c) == row[call[c].key].hash # call[c].got

\* Mutant: only a forced run applies what it fetched.
CompareForcedOnly(c) ==
    /\ call[c].pc = "compare"
    /\ call' = [call EXCEPT ![c].changed = HasChanged(c),
                  ![c].pc = IF call[c].force THEN "apply" ELSE "record"]
    /\ UNCHANGED <<row, stored, esi, cache, flight, interrupted, differs,
                   shown, orphaned, displaced, used>>

Compare(c) ==
    /\ call[c].pc = "compare"
    /\ \/ /\ call' = [call EXCEPT
                        ![c].changed = HasChanged(c),
                        ![c].pc = IF call[c].force \/ HasChanged(c)
                                  THEN "apply" ELSE "record"]
          /\ UNCHANGED <<row, stored, esi, cache, flight, interrupted, differs,
                         shown, orphaned, displaced, used>>
       \/ FailFlight(c)

\* The update of a section is a series of writes (and of further calls to the
\* server), any of which may fail; what was written before it stays.
ApplyFirst(c) ==
    /\ call[c].pc = "apply"
    /\ \/ /\ stored' = [stored EXCEPT ![call[c].key] = Torn]
          /\ interrupted' = [interrupted EXCEPT ![call[c].key] = TRUE]
          /\ differs' = [differs EXCEPT ![call[c].key] = "no"]
          /\ Goto(c, "applying")
          /\ UNCHANGED <<row, esi, cache, flight, shown, orphaned,
                         displaced, used>>
       \/ FailFlight(c)

\* An update that succeeds has stored what it was sent, unless it skipped what
\* it could not store, or somebody else wrote the data in the meantime.
ApplyRest(c) ==
    LET k == call[c].key IN
    /\ call[c].pc = "applying"
    /\ \/ /\ \/ /\ stored' = [stored EXCEPT ![k] = call[c].got]
                /\ differs' = [differs EXCEPT ![k] = "no"]
             \/ /\ k \in Lenient
                /\ differs' = [differs EXCEPT ![k] = "skipped"]
                /\ UNCHANGED stored
             \/ /\ differs[k] = "edited"
                /\ UNCHANGED <<stored, differs>>
          /\ Goto(c, "record")
          /\ UNCHANGED <<row, esi, cache, flight, interrupted, shown, orphaned,
                         displaced, used>>
       \/ FailFlight(c)

\* Mutants: the completion does not reset the start mark, or the error.
RecordCompletionStarted(c) ==
    LET k == call[c].key IN
    /\ call[c].pc = "record"
    /\ WriteRow(c, [completed |-> "fresh", hash |-> call[c].got,
                    error |-> FALSE, started |-> row[k].started], "recordset")
    /\ interrupted' = [interrupted EXCEPT ![k] = FALSE]
    /\ UNCHANGED <<stored, esi, cache, flight, differs, shown, used>>
RecordCompletionError(c) ==
    LET k == call[c].key IN
    /\ call[c].pc = "record"
    /\ WriteRow(c, [completed |-> "fresh", hash |-> call[c].got,
                    error |-> row[k].error, started |-> FALSE], "recordset")
    /\ interrupted' = [interrupted EXCEPT ![k] = FALSE]
    /\ UNCHANGED <<stored, esi, cache, flight, differs, shown, used>>

\* Record the completion of the run: its hash, no error, no start mark.  A
\* run that found nothing to apply leaves an interrupted one unrepaired.
RecordCompletion(c) ==
    LET k == call[c].key IN
    /\ call[c].pc = "record"
    /\ \/ /\ WriteRow(c, [completed |-> "fresh", hash |-> call[c].got,
                          error |-> FALSE, started |-> FALSE], "recordset")
          /\ interrupted' = [interrupted EXCEPT ![k] = @ /\ ~Applied(c)]
          /\ UNCHANGED <<stored, esi, cache, flight, differs, shown, used>>
       \/ FailFlight(c)

\* Mutant: the cache is not told of the completion.
PublishCompletionNot(c) ==
    /\ call[c].pc = "recordset"
    /\ EndFlight(c, "ok", call[c].changed)
    /\ UNCHANGED <<row, stored, esi, cache, interrupted, differs, shown,
                   orphaned, displaced, used>>

\* Mutant: the outcome does not say that the section has changed.
PublishCompletionUnchanged(c) ==
    /\ call[c].pc = "recordset"
    /\ Publish(c)
    /\ EndFlight(c, "ok", FALSE)
    /\ UNCHANGED <<row, stored, esi, interrupted, differs, shown, orphaned,
                   displaced, used>>

\* The assets update their total value before the run returns, which may
\* fail after the completion was recorded.
PublishCompletion(c) ==
    /\ call[c].pc = "recordset"
    /\ Publish(c)
    /\ \/ EndFlight(c, "ok", call[c].changed) /\ UNCHANGED used
       \/ /\ call[c].key \in PostSteps
          /\ CanFail /\ CountFailure
          /\ EndFlight(c, "fail", FALSE)
    /\ UNCHANGED <<row, stored, esi, interrupted, differs, shown, orphaned,
                   displaced>>

----------------------------------------------------------------------------
(* The environment *)

\* Time passes: the timeout of the section since its completion is over.
Expire(k) ==
    /\ row[k].completed = "fresh"
    /\ row' = [row EXCEPT ![k].completed = "expired"]
    /\ UNCHANGED <<stored, esi, cache, flight, call, interrupted, differs,
                   shown, orphaned, displaced, used>>

\* The data of the section changes on the game server.
EsiChange(k) ==
    /\ used.changes < MaxChanges
    /\ used' = [used EXCEPT !.changes = @ + 1]
    /\ \E d \in Contents \ {esi[k]} : esi' = [esi EXCEPT ![k] = d]
    /\ UNCHANGED <<row, stored, cache, flight, call, interrupted, differs,
                   shown, orphaned, displaced>>

\* Somebody other than an update writes the data of a section: a character that
\* is added again has the columns emptied that location, online, ship, wallet
\* balance, skills, jump clones and assets keep their data in, and the user
\* reads, deletes and sends mails.  The status row is left as it is.
Edit(k) ==
    /\ k \in Edited
    /\ stored[k] # NoContent
    /\ used.edits < MaxEdits
    /\ used' = [used EXCEPT !.edits = @ + 1]
    /\ stored' = [stored EXCEPT ![k] = Torn]
    /\ differs' = [differs EXCEPT ![k] = "edited"]
    /\ UNCHANGED <<row, esi, cache, flight, call, interrupted, shown,
                   orphaned, displaced>>

\* The process ends at any point and starts again.  The database survives;
\* InitCache fills the status cache from it before the UI starts.
Restart ==
    /\ used.restarts < MaxRestarts
    /\ used' = [used EXCEPT !.restarts = @ + 1]
    /\ cache' = [k \in Keys |-> View(row[k])]
    /\ flight' = [k \in Keys |-> NoCaller]
    /\ call' = [c \in Callers |-> Idle]
    /\ shown' = stored
    /\ orphaned' = [k \in Keys |-> row[k].started]
    /\ displaced' = [k \in Keys |-> FALSE]
    /\ UNCHANGED <<row, stored, esi, interrupted, differs>>

\* The user clears the cache in the settings.  The status cache lives in the
\* same memory cache and is emptied with it; nothing fills it again.
ClearCache ==
    /\ used.clears < MaxClears
    /\ used' = [used EXCEPT !.clears = @ + 1]
    /\ cache' = [k \in Keys |-> View(NoRow)]
    /\ displaced' = [k \in Keys |-> TRUE]
    /\ UNCHANGED <<row, stored, esi, flight, call, interrupted, differs, shown,
                   orphaned>>

----------------------------------------------------------------------------
Run(c) ==
    \/ RecordStart(c) \/ PublishStart(c) \/ Fetch(c) \/ Compare(c)
    \/ ApplyFirst(c) \/ ApplyRest(c)
    \/ RecordCompletion(c) \/ PublishCompletion(c)

Step(c) ==
    \/ Check(c) \/ Enter(c) \/ Run(c)
    \/ ReturnOk(c) \/ RecordError(c) \/ PublishError(c)

Next ==
    \/ \E c \in Callers : Step(c)
    \/ \E c \in Callers, k \in Keys, force \in BOOLEAN : Begin(c, k, force)
    \/ \E k \in Keys : Expire(k) \/ EsiChange(k) \/ Edit(k)
    \/ Restart
    \/ ClearCache

Spec == Init /\ [][Next]_vars

\* Goroutines run, time passes, and the ticker spawns a goroutine for every
\* section again and again.  Nothing makes the user or the server act.
Fairness ==
    /\ \A c \in Callers : WF_vars(Step(c))
    /\ \A k \in Keys : WF_vars(Expire(k))
    /\ \A k \in Keys : SF_vars(\E c \in Callers : Begin(c, k, FALSE))

LiveSpec == Spec /\ Fairness

----------------------------------------------------------------------------
(* Properties *)

\* A goroutine inside UpdateSectionIfNeeded works on some section.
CallsOK ==
    /\ call \in [Callers -> Calls]
    /\ \A c \in Callers : call[c].pc # "idle" => call[c].key \in Keys

\* Only lenient updates skip, and only some sections are written by others.
DiffersOK ==
    /\ differs \in [Keys -> {"no", "skipped", "edited"}]
    /\ \A k \in Keys : /\ differs[k] = "skipped" => k \in Lenient
                      /\ differs[k] = "edited" => k \in Edited

\* Every variable keeps to its type: what the service, the database and the
\* cache hold are values the code can produce.
TypeOK ==
    /\ row \in [Keys -> Rows]
    /\ stored \in [Keys -> Contents \cup {NoContent, Torn}]
    /\ shown \in [Keys -> Contents \cup {NoContent, Torn}]
    /\ esi \in [Keys -> Contents]
    /\ cache \in [Keys -> Views]
    /\ flight \in [Keys -> Callers \cup {NoCaller}]
    /\ CallsOK
    /\ interrupted \in [Keys -> BOOLEAN]
    /\ DiffersOK
    /\ orphaned \in [Keys -> BOOLEAN]
    /\ displaced \in [Keys -> BOOLEAN]
    /\ used \in [failures : 0..MaxFailures, restarts : 0..MaxRestarts,
                 changes : 0..MaxChanges, clears : 0..MaxClears,
                 edits : 0..MaxEdits]

\* Two goroutines never run the update of one section at the same time, and a
\* goroutine that waits always has somebody to wait for: the leader of a key
\* is in a run of that key.
LeaderRuns ==
    \A k \in Keys : flight[k] # NoCaller =>
        call[flight[k]].pc \in LeaderPCs /\ call[flight[k]].key = k
OnlyLeaderRuns ==
    \A c \in Callers : call[c].pc \in LeaderPCs => flight[call[c].key] = c
WaiterHasLeader ==
    \A c \in Callers : call[c].pc = "wait" => flight[call[c].key] # NoCaller
SingleRun == LeaderRuns /\ OnlyLeaderRuns /\ WaiterHasLeader

\* The hash of the status row is the hash of what the database holds of the
\* section, however runs end, unless an update was interrupted half way, the
\* last one skipped items (only a lenient one does), or others have written
\* the data since (only of some sections).
Applying(k) == \E c \in Callers :
    call[c].pc \in {"applying", "record"} /\ call[c].key = k
HashDescribesStore ==
    \A k \in Keys :
        ~interrupted[k] /\ differs[k] = "no" => stored[k] = row[k].hash

\* A section is marked as running only while some goroutine is going to clear
\* the mark, unless the process ended or the error could not be recorded.
OwnerPCs == {"startset", "fetch", "compare", "apply", "applying", "record", "fail"}
RunningHasOwner ==
    \A k \in Keys : row[k].started /\ ~orphaned[k] =>
        \E c \in Callers : call[c].pc \in OwnerPCs /\ call[c].key = k

\* The cache shows the status of the database whenever nobody is about to
\* update it, unless two goroutines overlapped between writing the row and
\* updating the cache, or the cache was cleared.
CacheCoherent ==
    \A k \in Keys :
        ~displaced[k] /\ ~Publishing(NoCaller, k) => cache[k] = View(row[k])

\* The UI shows what the database holds of a section, or some call is about
\* to make it refresh: no update goes unreported, one that skipped items no
\* less.  The assets are excepted, whose last step may fail after the change was
\* recorded, and data that others have written since.
ChangeReported ==
    \A k \in Keys \ PostSteps :
        ~interrupted[k] /\ differs[k] # "edited" /\ shown[k] # stored[k] =>
        \E c \in Callers :
            call[c].key = k /\ call[c].pc \in {"recordset", "ok"} /\ Applied(c)

Quiet(k) == \A c \in Callers : call[c].key # k

\* With nobody at work on a section, the cache shows the row of the database.
CacheIsCurrent == \A k \in Keys : Quiet(k) => cache[k] = View(row[k])

\* Every call returns, also one that waits for the run of another.
CallsReturn == \A c \in Callers : call[c].pc # "idle" ~> call[c].pc = "idle"

\* A failed or interrupted update is repeated until it succeeds: neither an
\* error nor a start mark stays in the row for good.
ErrorClears == \A k \in Keys : row[k].error ~> ~row[k].error
RunningClears == \A k \in Keys : row[k].started ~> ~row[k].started

\* Once failures and clears stop, the cache is current again and stays so:
\* the next run of a section repairs what races and clears left behind.
CacheHeals == <>[]CacheIsCurrent

\* A change on the server reaches the database, once the failures stop: an
\* update that was sent it completes, and the data is stored, unless an earlier
\* update was interrupted, or the last one skipped items, or others wrote it.
ChangeArrives ==
    \A k \in Keys :
        /\ []<>(row[k].hash = esi[k])
        /\ []<>(stored[k] = esi[k] \/ interrupted[k] \/ differs[k] # "no")

=============================================================================
