--------------------------------- MODULE Stores ---------------------------------
(***************************************************************************)
(* What the program keeps on disk for itself: internal/migrate brings the  *)
(* schema of the database up to date at the start, and the persistent      *)
(* cache (internal/app/pcache) keeps blobs in a table of it with a copy in *)
(* memory (internal/memcache).  The cache is used by the image service,    *)
(* which fetches an image once for all who ask, and by the HTTP client,    *)
(* which does not.  Keys share nothing: the module follows one.            *)
(***************************************************************************)
EXTENDS Integers, Sequences

CONSTANTS
    Users,       \* goroutines that ask for a blob
    None,
    Statements,  \* the migrations, in order: how many statements each has
    MaxVersion,  \* bound: how often the server changes the blob
    MaxTime,     \* bound of the clock
    MaxFaults    \* bound: failing calls and ends of the process

ASSUME StoresAssumption ==
    /\ None \notin Nat
    /\ {MaxVersion, MaxTime, MaxFaults} \subseteq Nat
    /\ Statements \in Seq(Nat \ {0}) /\ Statements # <<>>

Migrations == DOMAIN Statements

VARIABLES
    phase,     \* "off", "opening" the database, "open", or "failed" to open it
    tracking,  \* whether the table of migrations exists
    recorded,  \* the migrations in it
    executed,  \* per migration: how many of its statements were executed
    unapplied, \* what Run has found to apply, and the next statement of it
    shipped,   \* how many migrations the installed program has
    kind,      \* who uses the key: "image" or "http"
    timeout,   \* how long its blob is kept; 0 is for ever
    memory,    \* its item in memory
    row,       \* its row in the database
    now,
    source,    \* the version of the blob on the server
    user,      \* per goroutine: where it is and what it holds
    cleaner,   \* the clean-up: where it is
    faults,
    kept,      \* history: the item of the last Set that has ended undisturbed
    removed    \* history: a removal has ended undisturbed and nothing was set since

schema == <<tracking, recorded, executed, unapplied, shipped>>
key == <<kind, timeout>>
items == <<memory, row>>
history == <<kept, removed>>
vars == <<phase, schema, key, items, now, source, user, cleaner, faults, history>>

Resting == [at |-> "idle", value |-> None, expires |-> 0, since |-> None, alone |-> TRUE]
\* From the item in memory to the end of the write of the row.
Setting(u) == user[u].at \in {"enter", "store", "join"}
Removing(u) == user[u].at \in {"forgetRow", "forgetItem"}
Goto(u, a) == user' = [user EXCEPT ![u].at = a]
Fault == faults < MaxFaults /\ faults' = faults + 1

TypeOK ==
    /\ phase \in {"off", "opening", "open", "failed"}
    /\ phase \in {"open", "opening"} => tracking
    /\ phase = "open" => 1..shipped \subseteq recorded
    /\ phase # "open" => memory = None /\ \A u \in Users : user[u].at = "idle"
    /\ row # None => row.value \in 0..source
    /\ \A u \in Users : user[u].at \in {"idle", "memory", "row", "load", "share", "fetch", "set",
                                        "enter", "store", "join", "forgetRow", "forgetItem"}
    /\ now \in 0..MaxTime /\ source \in 0..MaxVersion /\ faults \in 0..MaxFaults

Init ==
    /\ phase = "off" /\ tracking = FALSE /\ recorded = {}
    /\ executed = [m \in Migrations |-> 0] /\ unapplied = [names |-> {}, next |-> 1]
    /\ shipped \in Migrations
    /\ kind \in {"image", "http"} /\ timeout \in IF kind = "http" THEN {1} ELSE {0, 1}
    /\ memory = None /\ row = None /\ now = 0 /\ source = 0
    /\ user = [u \in Users |-> Resting] /\ cleaner = "idle" /\ faults = 0
    /\ kept = None /\ removed = FALSE

----------------------------------------------------------------------------
(* The migrations. *)

\* Mutant: migrations are not compared with the recorded ones.
RunAll ==
    /\ phase = "off"
    /\ phase' = "opening" /\ tracking' = TRUE
    /\ unapplied' = [names |-> 1..shipped, next |-> 1]
    /\ UNCHANGED <<recorded, executed, shipped, key, items, now, source, user, cleaner, faults, history>>
\* Run: a database without any table gets that of the migrations; what is not in
\* it is to be applied.
Run ==
    /\ phase = "off"
    /\ phase' = "opening" /\ tracking' = TRUE
    /\ unapplied' = [names |-> 1..shipped \ recorded, next |-> 1]
    /\ UNCHANGED <<recorded, executed, shipped, key, items, now, source, user, cleaner, faults, history>>

Current == CHOOSE m \in unapplied.names : \A n \in unapplied.names : m <= n
\* Execute one statement: they create tables, indexes and columns, which fails
\* when these exist.
Execute ==
    /\ phase = "opening" /\ unapplied.names # {}
    /\ unapplied.next <= Statements[Current]
    /\ IF executed[Current] >= unapplied.next
       THEN phase' = "failed" /\ UNCHANGED <<executed, unapplied>>
       ELSE /\ executed' = [executed EXCEPT ![Current] = @ + 1]
            /\ unapplied' = [unapplied EXCEPT !.next = @ + 1]
            /\ UNCHANGED phase
    /\ UNCHANGED <<tracking, recorded, shipped, key, items, now, source, user, cleaner, faults, history>>
recordMigration ==
    /\ phase = "opening" /\ unapplied.names # {}
    /\ unapplied.next > Statements[Current]
    /\ recorded' = recorded \cup {Current}
    /\ unapplied' = [names |-> unapplied.names \ {Current}, next |-> 1]
    /\ UNCHANGED <<phase, tracking, executed, shipped, key, items, now, source, user, cleaner, faults, history>>
Opened ==
    /\ phase = "opening" /\ unapplied.names = {}
    /\ phase' = "open"
    /\ UNCHANGED <<schema, key, items, now, source, user, cleaner, faults, history>>

\* The process ends, at any time, or a statement fails: what is in memory is lost.
Stop ==
    /\ phase \in {"opening", "open"}
    /\ Fault
    /\ phase' = "off" /\ memory' = None /\ user' = [u \in Users |-> Resting] /\ cleaner' = "idle"
    /\ kept' = IF \E u \in Users : Setting(u) \/ Removing(u) THEN None ELSE kept
    /\ UNCHANGED <<schema, key, row, now, source, removed>>
\* A later version of the program is installed.
Upgrade ==
    /\ phase = "off" /\ shipped + 1 \in Migrations
    /\ shipped' = shipped + 1
    /\ UNCHANGED <<phase, tracking, recorded, executed, unapplied, key, items, now, source, user, cleaner,
                   faults, history>>

----------------------------------------------------------------------------
(* The cache. *)

\* An item is valid at the instant it expires, a row is not.
ItemValid == memory # None /\ (memory.expires # 0 => now <= memory.expires)
RowValid == row # None /\ (row.expires # 0 => now < row.expires)

\* Get: memory, then the row, which is not copied to memory.
Ask(u) ==
    /\ phase = "open" /\ user[u].at = "idle"
    /\ user' = [user EXCEPT ![u] = [Resting EXCEPT !.at = "memory",
                                        !.since = IF kept = None THEN None ELSE kept.value]]
    /\ UNCHANGED <<phase, schema, key, items, now, source, cleaner, faults, history>>
Answer(u, v) == user' = [user EXCEPT ![u] = [Resting EXCEPT !.value = v, !.since = user[u].since]]
GetItem(u) ==
    /\ user[u].at = "memory"
    /\ IF ItemValid THEN Answer(u, memory.value) ELSE Goto(u, "row")
    /\ UNCHANGED <<phase, schema, key, items, now, source, cleaner, faults, history>>
CacheGet(u) ==
    /\ user[u].at = "row"
    /\ \/ RowValid /\ Answer(u, row.value) /\ UNCHANGED faults
       \/ ~RowValid /\ Goto(u, "load") /\ UNCHANGED faults
       \/ Fault /\ Goto(u, "load")
    /\ UNCHANGED <<phase, schema, key, items, now, source, cleaner, history>>

\* Mutant: everybody fetches the image.
FetchEach(u) ==
    /\ user[u].at = "load"
    /\ Goto(u, "fetch")
    /\ UNCHANGED <<phase, schema, key, items, now, source, cleaner, faults, history>>
\* image: one goroutine fetches the image and sets it, the others wait for that.
\* The HTTP client fetches each time.
image(u) ==
    /\ user[u].at = "load"
    /\ Goto(u, IF kind = "image" /\ \E v \in Users : user[v].at \in {"fetch", "set"} \/ Setting(v)
               THEN "share" ELSE "fetch")
    /\ UNCHANGED <<phase, schema, key, items, now, source, cleaner, faults, history>>
\* The goroutine u returns, and who waited for it: those who share an image get
\* its value.
Wake(u, waiting) ==
    user' = [v \in Users |->
                IF v = u \/ user[v].at \in waiting
                THEN [Resting EXCEPT !.value = user[IF user[v].at = "share" THEN u ELSE v].value,
                                     !.since = user[v].since]
                ELSE user[v]]
loadDataFromURL(u) ==
    /\ user[u].at = "fetch"
    /\ \/ user' = [user EXCEPT ![u].at = "set", ![u].value = source] /\ UNCHANGED faults
       \/ Fault /\ Wake(u, {"share"})
    /\ UNCHANGED <<phase, schema, key, items, now, source, cleaner, history>>

\* Set: the item in memory first, ...
SetItem(u) ==
    /\ user[u].at = "set"
    /\ memory' = [value |-> user[u].value, expires |-> IF timeout = 0 THEN 0 ELSE now + timeout]
    /\ user' = [v \in Users |->
                   IF v = u THEN [user[u] EXCEPT !.at = "enter", !.expires = memory'.expires,
                                                 !.alone = ~\E w \in Users : Setting(w) \/ Removing(w)]
                   ELSE [user[v] EXCEPT !.alone = @ /\ ~Setting(v) /\ ~Removing(v)]]
    /\ kept' = None /\ removed' = FALSE
    /\ UNCHANGED <<phase, schema, key, row, now, source, cleaner, faults>>
\* ... then the row, unless another goroutine writes it already.
EnterFlight(u) ==
    /\ user[u].at = "enter"
    /\ Goto(u, IF \E v \in Users : user[v].at = "store" THEN "join" ELSE "store")
    /\ UNCHANGED <<phase, schema, key, items, now, source, cleaner, faults, history>>
Item(u) == [value |-> user[u].value, expires |-> user[u].expires]
\* Mutant: the row keeps the time at which it expires.
CacheSetKeeping(u) ==
    /\ user[u].at = "store"
    /\ row' = IF row = None THEN Item(u) ELSE [row EXCEPT !.value = user[u].value]
    /\ Wake(u, {"join", "share"})
    /\ kept' = IF user[u].alone THEN Item(u) ELSE kept
    /\ UNCHANGED <<phase, schema, key, memory, now, source, cleaner, faults, removed>>
CacheSet(u) ==
    /\ user[u].at = "store"
    /\ row' = Item(u)
    /\ Wake(u, {"join", "share"})
    /\ kept' = IF user[u].alone THEN Item(u) ELSE kept
    /\ UNCHANGED <<phase, schema, key, memory, now, source, cleaner, faults, removed>>
\* The error is logged.
CacheSetFails(u) ==
    /\ user[u].at = "store"
    /\ Fault
    /\ Wake(u, {"join", "share"})
    /\ UNCHANGED <<phase, schema, key, items, now, source, cleaner, history>>

\* Delete by the HTTP client, or Clear by the user: the row, then the item.
Remove(u) ==
    /\ phase = "open" /\ user[u].at = "idle"
    /\ user' = [v \in Users |->
                   IF v = u THEN [Resting EXCEPT !.at = "forgetRow", !.alone = ~\E w \in Users : Setting(w)]
                   ELSE [user[v] EXCEPT !.alone = @ /\ ~Setting(v) /\ ~Removing(v)]]
    /\ kept' = None
    /\ UNCHANGED <<phase, schema, key, items, now, source, cleaner, faults, removed>>
DeleteRow(u) ==
    /\ user[u].at = "forgetRow"
    /\ \/ row' = None /\ Goto(u, "forgetItem") /\ UNCHANGED faults
       \/ Fault /\ user' = [user EXCEPT ![u].at = "forgetItem", ![u].alone = FALSE] /\ UNCHANGED row
    /\ UNCHANGED <<phase, schema, key, memory, now, source, cleaner, history>>
DeleteItem(u) ==
    /\ user[u].at = "forgetItem"
    /\ memory' = None
    /\ user' = [user EXCEPT ![u] = Resting]
    /\ removed' = user[u].alone
    /\ UNCHANGED <<phase, schema, key, row, now, source, cleaner, faults, kept>>

\* CleanUp: rows that have expired, then the items, which are looked up and
\* deleted in two steps.
CleanUpRow ==
    /\ phase = "open" /\ cleaner = "idle" /\ (row # None \/ memory # None)
    /\ row' = IF row # None /\ row.expires # 0 /\ row.expires < now THEN None ELSE row
    /\ cleaner' = "items"
    /\ UNCHANGED <<phase, schema, key, memory, now, source, user, faults, history>>
CleanUpFind ==
    /\ cleaner = "items"
    /\ cleaner' = IF memory # None /\ ~ItemValid THEN "expired" ELSE "idle"
    /\ UNCHANGED <<phase, schema, key, items, now, source, user, faults, history>>
CleanUpItem ==
    /\ cleaner = "expired"
    /\ memory' = None /\ cleaner' = "idle"
    /\ UNCHANGED <<phase, schema, key, row, now, source, user, faults, history>>

\* The blob changes on the server; time passes.
Publish ==
    /\ source < MaxVersion /\ source' = source + 1
    /\ UNCHANGED <<phase, schema, key, items, now, user, cleaner, faults, history>>
Tick ==
    /\ now < MaxTime /\ now' = now + 1
    /\ UNCHANGED <<phase, schema, key, items, source, user, cleaner, faults, history>>

----------------------------------------------------------------------------
Start == Run \/ Execute \/ recordMigration \/ Opened
Get(u) == GetItem(u) \/ CacheGet(u)
Load(u) == image(u) \/ loadDataFromURL(u)
Set(u) == SetItem(u) \/ EnterFlight(u) \/ CacheSet(u) \/ CacheSetFails(u)
Delete(u) == Remove(u) \/ DeleteRow(u) \/ DeleteItem(u)
CleanUp == CleanUpRow \/ CleanUpFind \/ CleanUpItem
Next == \/ Start \/ Stop \/ Upgrade \/ CleanUp \/ Publish \/ Tick
        \/ \E u \in Users : Ask(u) \/ Get(u) \/ Load(u) \/ Set(u) \/ Delete(u)

Spec == Init /\ [][Next]_vars

----------------------------------------------------------------------------
\* A migration that is recorded was executed to its last statement, wherever the
\* process has ended before.
RecordedMeansDone == \A m \in recorded : executed[m] = Statements[m]

\* The database can be opened, unless an earlier start has ended within a
\* migration, or between its execution and its record.
FailsOnlyWhenTorn ==
    phase = "failed" => \E m \in Migrations \ recorded : executed[m] > 0

\* The record of migrations and the state of the schema fit together in both
\* ways; every variable keeps its type.
MigrationsFit == TypeOK /\ RecordedMeansDone /\ FailsOnlyWhenTorn

\* What was set is found until it expires, also when the clean-up takes the item
\* for expired that was replaced meanwhile, and after a restart.
SetIsFound ==
    (phase = "open" /\ kept # None /\ (kept.expires # 0 => now < kept.expires))
        => IF ItemValid THEN memory.value = kept.value ELSE RowValid /\ row.value = kept.value

\* What was removed is in neither place.
RemovedIsGone == removed => memory = None /\ row = None

\* The two places of a value answer as one: for what was set and what was removed.
CopiesAgree == SetIsFound /\ RemovedIsGone

\* Nobody gets a version of an image that is older than the one which was set when
\* he asked, however goroutines fetch and set it side by side, and also when a row
\* could not be written.  (HTTP responses can overtake each other.)
AnswersAreLatest ==
    \A u \in Users :
        (kind = "image" /\ user[u].at = "idle" /\ user[u].value # None /\ user[u].since # None)
            => user[u].value >= user[u].since
=============================================================================
