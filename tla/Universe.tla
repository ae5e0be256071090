------------------------------ MODULE Universe ------------------------------
(***************************************************************************)
(* How internal/app/eveuniverseservice fills the tables of universe        *)
(* objects (regions ... moons, categories ... types, races, entities,      *)
(* locations, characters) on demand: GetOrCreateXESI reads the row and,    *)
(* when there is none, creates it under singleflight: fetch it from ESI,   *)
(* get or create what it refers to, insert it.  Many goroutines do this    *)
(* for overlapping objects at the same time.                               *)
(*                                                                         *)
(* Every routine of the service is given as the sequence of the steps it   *)
(* takes on ESI, the database and other routines; Next interprets them, a  *)
(* step of one goroutine at a time.  A goroutine is a stack of frames.     *)
(* The database only keeps which rows are there.                           *)
(***************************************************************************)
EXTENDS Integers, Sequences, FiniteSets, SequencesExt

CONSTANTS
    Objects,   \* the objects of the game, <<kind, id>>
    Names,     \* Names[o]: the objects ESI names in its reply for o
    Mentions,  \* Mentions[t]: pairs <<attribute, object>>: the groups and types
               \* that the values of t's dogma attributes stand for
    Callers,   \* goroutines of the section updates and the user interface
    Requests,  \* what the callers may ask for together: a set of functions
    MaxFaults  \* bound: failed calls and ends of the process, together

Kind(o) == o[1]
Of(kinds) == {o \in Objects : Kind(o) \in kinds}
The(o, k) == CHOOSE x \in Names[o] : Kind(x) = k
All(o, k) == {x \in Names[o] : Kind(x) = k}

\* Kinds with a routine that creates them, and others.
Created == {"region", "constellation", "solar system", "planet", "moon", "category", "group",
            "type", "attribute", "race", "schematic", "eve character", "station", "structure",
            "place"}
Creatable == Of(Created)
\* What the reply for an object of a kind names exactly once.
Once == {<<"constellation", "region">>, <<"solar system", "constellation">>,
         <<"planet", "solar system">>, <<"planet", "type">>, <<"moon", "solar system">>,
         <<"group", "category">>, <<"type", "group">>, <<"eve character", "race">>,
         <<"station", "solar system">>, <<"station", "type">>, <<"structure", "solar system">>}
ASSUME CatalogueAssumption ==
    /\ IsFiniteSet(Objects)
    /\ \A o \in Objects : Kind(o) \in Created \cup {"entity", "effect", "root"}
    /\ Names \in [Objects -> SUBSET Objects]
    /\ \A p \in Once : \A o \in Of({p[1]}) : \E x \in Objects : All(o, p[2]) = {x}
    /\ \A o \in Of({"planet"}) : All(o, "entity") = {}
    /\ \A o \in Of({"place"}) : Names[o] \subseteq Of({"solar system", "type"})
    /\ \A t \in Objects : Mentions[t] \subseteq Names[t] \X Of({"group", "type"})
ASSUME BoundAssumption == MaxFaults \in Nat

Each(S, Steps(_)) == LET s == SetToSeq(S) IN FlattenSeq([i \in 1..Len(s) |-> Steps(s[i])])

----------------------------------------------------------------------------
\* The steps of a routine.  A job is a pair <<routine, object>>.
Fetch == <<"fetch">>          \* a call of ESI
Access == <<"access">>        \* the same for a structure: it may be forbidden
Need(o) == <<"need", o>>      \* GetOrCreate...ESI of another object
Insert(r) == <<"insert", r>>  \* INSERT: fails when the row is there
Upsert(S) == <<"upsert", S>>  \* INSERT ... ON CONFLICT DO UPDATE, or UPDATE
Spawn(o) == <<"spawn", o>>    \* go GetOrCreate...ESI
Missing(S) == <<"missing", S>> \* ids not in the table; those are looked up
Fan(J) == <<"fan", J>>        \* an errgroup of jobs, and Wait

\* Rows that belong to a type: a value of an attribute.  And what is known of
\* a structure only when ESI lets the character see it.
Link(t, a) == <<"value", t, a>>
Detail(o) == <<"detail", o>>

AddMissingEntities(S) == <<Missing(S)>> \o Each(S, LAMBDA e : <<Upsert({e})>>)

createRegionFromESI(o) == <<Fetch, Insert(o)>>
\* Mutant: the region is taken for granted.
createConstellationAlone(o) == <<Fetch, Insert(o)>>
createConstellationFromESI(o) == <<Fetch, Need(The(o, "region")), Insert(o)>>
createSolarSystemFromESI(o) == <<Fetch, Need(The(o, "constellation")), Insert(o)>>
createPlanetFromESI(o) ==
    <<Fetch, Need(The(o, "solar system")), Need(The(o, "type")), Insert(o)>>
createMoonFromESI(o) == <<Fetch, Need(The(o, "solar system")), Insert(o)>>
createCategoryFromESI(o) == <<Fetch, Insert(o)>>
createGroupFromESI(o) == <<Fetch, Need(The(o, "category")), Insert(o)>>

\* Mutants: the loop goes on with the next attribute once it has sent a
\* goroutine after a value; it creates the other object itself.
createTypeSkipping(o) ==
    <<Fetch, Need(The(o, "group")), Insert(o)>>
    \o Each(All(o, "attribute"), LAMBDA a :
                <<Need(a)>>
                \o (IF \E m \in Mentions[o] : m[1] = a
                    THEN Each({m \in Mentions[o] : m[1] = a}, LAMBDA m : <<Spawn(m[2])>>)
                    ELSE <<Insert(Link(o, a))>>))
    \o Each(All(o, "effect"), LAMBDA e : <<Insert(Link(o, e))>>)
createTypeDeep(o) ==
    <<Fetch, Need(The(o, "group"))>>
    \o Each(Mentions[o], LAMBDA m : <<Need(m[1]), Need(m[2])>>)
    \o <<Insert(o)>>
    \o Each(All(o, "attribute") \cup All(o, "effect"), LAMBDA v : <<Insert(Link(o, v))>>)

\* The row of the type comes before its values; the objects that values stand
\* for are created in the background.
createTypeFromESI(o) ==
    <<Fetch, Need(The(o, "group")), Insert(o)>>
    \o Each(All(o, "attribute"), LAMBDA a :
                <<Need(a)>>
                \o Each({m \in Mentions[o] : m[1] = a}, LAMBDA m : <<Spawn(m[2])>>)
                \o <<Insert(Link(o, a))>>)
    \o Each(All(o, "effect"), LAMBDA e : <<Insert(Link(o, e))>>)

createDogmaAttributeFromESI(o) == <<Fetch, Insert(o)>>
createRaceFromESI(o) == <<Fetch, Insert(o)>>
createSchematicFromESI(o) == <<Fetch, Insert(o)>>

createCharacterFromESI(o) ==
    <<Fetch>> \o AddMissingEntities(All(o, "entity"))
    \o <<Need(The(o, "race")), Insert(o)>>

\* The variants of a location that ESI tells something about.
EveLocationStation(o) ==
    <<Fetch, Need(The(o, "solar system")), Need(The(o, "type"))>>
    \o AddMissingEntities(All(o, "entity")) \o <<Upsert({o})>>
EveLocationStructure(o) ==
    <<Access, Need(The(o, "solar system"))>> \o AddMissingEntities(All(o, "entity"))
    \o Each(All(o, "type"), LAMBDA t : <<Need(t)>>) \o <<Upsert({o, Detail(o)})>>
ForbiddenStructure(o) == <<Upsert({o})>>
\* Solar systems, asset safety and unknown places: a type and perhaps a system.
OtherLocation(o) == Each(Names[o], LAMBDA x : <<Need(x)>>) \o <<Upsert({o})>>

\* The types of a category are created one after the other.
UpdateCategoryWithChildrenESI(o) ==
    <<Fetch>> \o Each(All(o, "group"), LAMBDA g : <<Fetch>>)
    \o Each(UNION {All(g, "type") : g \in All(o, "group")}, LAMBDA t : <<Need(t)>>)
UpdateEveShipSkills(o) == Upsert({<<"ship skills", o>>})
updateCategories(o) == <<Fan({"category"} \X All(o, "category")), UpdateEveShipSkills(o)>>

\* One character: both halves of the news at the same time, then the UPDATE.
updateAffiliation(o) == <<Fetch>> \o AddMissingEntities(All(o, "entity"))
updateCharacterESI(o) == <<Fan({"affiliation", "details"} \X {o}), Upsert({})>>

\* What the windows of the user interface ask for.
GetConstellationSolarSytemsESI(o) == <<Fetch, Fan({"get"} \X All(o, "solar system"))>>
GetStargateSolarSystemsESI(o) ==
    <<Fan({"details"} \X All(o, "solar system")), Fan({"get"} \X All(o, "solar system"))>>
GetSolarSystemInfoESI(o) == <<Fetch>> \o AddMissingEntities(All(o, "entity"))
GetSolarSystemPlanets(o) == <<Fan({"get"} \X All(o, "planet"))>>
FormatDogmaValue(o) == <<Spawn(o)>>

Steps(j) == LET o == j[2] IN
    CASE j[1] = "get" -> <<Need(o)>>
      [] j[1] = "hidden" -> ForbiddenStructure(o)
      [] j[1] = "category" -> UpdateCategoryWithChildrenESI(o)
      [] j[1] = "categories" -> updateCategories(o)
      [] j[1] = "character" -> updateCharacterESI(o)
      [] j[1] = "affiliation" -> updateAffiliation(o)
      [] j[1] = "details" -> <<Fetch>>
      [] j[1] = "systems" -> GetConstellationSolarSytemsESI(o)
      [] j[1] = "neighbours" -> GetStargateSolarSystemsESI(o)
      [] j[1] = "info" -> GetSolarSystemInfoESI(o)
      [] j[1] = "planets" -> GetSolarSystemPlanets(o)
      [] j[1] = "format" -> FormatDogmaValue(o)
      [] j[1] = "entity" -> AddMissingEntities({o})
      [] j[1] = "create" ->
           CASE Kind(o) = "region" -> createRegionFromESI(o)
             [] Kind(o) = "constellation" -> createConstellationFromESI(o)
             [] Kind(o) = "solar system" -> createSolarSystemFromESI(o)
             [] Kind(o) = "planet" -> createPlanetFromESI(o)
             [] Kind(o) = "moon" -> createMoonFromESI(o)
             [] Kind(o) = "category" -> createCategoryFromESI(o)
             [] Kind(o) = "group" -> createGroupFromESI(o)
             [] Kind(o) = "type" -> createTypeFromESI(o)
             [] Kind(o) = "attribute" -> createDogmaAttributeFromESI(o)
             [] Kind(o) = "race" -> createRaceFromESI(o)
             [] Kind(o) = "schematic" -> createSchematicFromESI(o)
             [] Kind(o) = "eve character" -> createCharacterFromESI(o)
             [] Kind(o) = "station" -> EveLocationStation(o)
             [] Kind(o) = "structure" -> EveLocationStructure(o)
             [] Kind(o) = "place" -> OtherLocation(o)
NoJob == <<"none">>
Jobs == ({"get", "format", "create"} \X Creatable)
   \cup ({"entity"} \X Of({"entity"})) \cup ({"hidden"} \X Of({"structure"}))
   \cup ({"category"} \X Of({"category"})) \cup ({"categories"} \X Of({"root"}))
   \cup ({"character", "affiliation", "details"} \X Of({"eve character"}))
   \cup ({"details", "neighbours", "info"} \X Of({"solar system"}))
   \cup ({"systems"} \X Of({"constellation"})) \cup ({"planets"} \X Of({"solar system"}))
Program == CHOOSE p \in {[j \in Jobs |-> Steps(j)]} : p = p  \* (so that TLC keeps the table)
\* What goroutines begin with.
Entries == {j \in Jobs : j[1] \notin {"create", "hidden"}}
ASSUME RequestAssumption == Requests \subseteq [Callers -> Entries \cup {NoJob}]

----------------------------------------------------------------------------
VARIABLES
    rows,    \* the rows of the universe tables
    flights, \* keys of the singleflight group that are being executed
    stack,   \* the goroutines and their frames, innermost last
    request, \* the job a caller has asked for
    outcome, \* what its last call returned
    faults,
    cut      \* history: rows whose routine ended before its last step

vars == <<rows, flights, stack, request, outcome, faults, cut>>

Frame(j) == [job |-> j, pc |-> 1, failed |-> FALSE,
             at |-> IF j[1] \in {"create", "category"} THEN "enter" ELSE "run"]
Keyed(j) == j[1] \in {"create", "hidden", "category"}
Key(j) == IF j[1] = "hidden" THEN <<"create", j[2]>> ELSE j

Goroutines == DOMAIN stack
Top(t) == Last(stack[t])
WithTop(t, f) == [stack EXCEPT ![t] = Append(Front(@), f)]
SetTop(t, f) == stack' = WithTop(t, f)
After(f) == [f EXCEPT !.pc = @ + 1]
Advance(t) == SetTop(t, After(Top(t)))
\* Goroutines are started beside those of s.
Caller(c) == <<"caller", c>>
Member(t, j) == <<"member", t, j>>
Starting(t, j) == [u \in {t} |-> <<Frame(j)>>]
Beside(s, new) == [u \in DOMAIN s \cup DOMAIN new |-> IF u \in DOMAIN s THEN s[u] ELSE new[u]]
Go(t, j) == Beside(stack, Starting(t, j))
\* The goroutine t is about to take a step of this kind.
At(t, op) ==
    /\ Top(t).at = "run"
    /\ Top(t).pc <= Len(Program[Top(t).job])
    /\ Program[Top(t).job][Top(t).pc][1] = op
Arg(t) == Program[Top(t).job][Top(t).pc][2]

TypeOK ==
    /\ \A r \in rows : r \in Objects \/ r[1] \in {"value", "detail", "ship skills"}
    /\ \A k \in flights : k[1] \in {"create", "category"} /\ k[2] \in Objects
    /\ \A t \in Goroutines : /\ stack[t] # <<>>
                            /\ \A i \in 1..Len(stack[t]) :
                                 /\ stack[t][i].at \in {"enter", "wait", "run", "fan", "fail"}
                                 /\ stack[t][i].pc \in 1..(Len(Program[stack[t][i].job]) + 1)
    /\ request \in Requests
    /\ outcome \in [Callers -> {"none", "ok", "error"}]
    /\ faults \in 0..MaxFaults
    /\ cut \subseteq rows

Init ==
    /\ rows = {}
    /\ flights = {}
    /\ stack = <<>>
    /\ request \in Requests
    /\ outcome = [c \in Callers |-> "none"]
    /\ faults = 0
    /\ cut = {}

----------------------------------------------------------------------------
\* A caller asks for something; what failed is asked for again later.
Ask(c) ==
    /\ Caller(c) \notin Goroutines
    /\ outcome[c] = "none"
    /\ request[c] # NoJob
    /\ stack' = Go(Caller(c), request[c])
    /\ UNCHANGED <<rows, flights, request, outcome, faults, cut>>

AskAgain(c) ==
    /\ Caller(c) \notin Goroutines
    /\ outcome[c] = "error"
    /\ stack' = Go(Caller(c), request[c])
    /\ outcome' = [outcome EXCEPT ![c] = "none"]
    /\ UNCHANGED <<rows, flights, request, faults, cut>>

\* Mutant: no singleflight.
EnterAlways(t) ==
    /\ Top(t).at = "enter"
    /\ SetTop(t, [Top(t) EXCEPT !.at = "run"])
    /\ flights' = flights \cup {Key(Top(t).job)}
    /\ UNCHANGED <<rows, request, outcome, faults, cut>>

\* sfg.Do: execute, or wait for the goroutine that does.
Enter(t) ==
    /\ Top(t).at = "enter"
    /\ SetTop(t, [Top(t) EXCEPT !.at = IF Key(Top(t).job) \in flights THEN "wait" ELSE "run"])
    /\ flights' = flights \cup {Key(Top(t).job)}
    /\ UNCHANGED <<rows, request, outcome, faults, cut>>

Call(t) ==
    /\ At(t, "fetch") \/ At(t, "missing") \/ At(t, "access")
    /\ Advance(t)
    /\ UNCHANGED <<rows, flights, request, outcome, faults, cut>>

\* The character has no access to the structure.
Forbidden(t) ==
    /\ At(t, "access")
    /\ SetTop(t, [Top(t) EXCEPT !.job = <<"hidden", @[2]>>])
    /\ UNCHANGED <<rows, flights, request, outcome, faults, cut>>

\* The read of a row that comes before singleflight is entered.
Read(t) ==
    /\ At(t, "need")
    /\ IF Arg(t) \in rows
       THEN Advance(t)
       ELSE stack' = [stack EXCEPT ![t] = Append(@, Frame(<<"create", Arg(t)>>))]
    /\ UNCHANGED <<rows, flights, request, outcome, faults, cut>>

Write(t) ==
    /\ \/ /\ At(t, "insert")
          /\ rows' = rows \cup {Arg(t)}
          /\ IF Arg(t) \in rows THEN SetTop(t, [Top(t) EXCEPT !.at = "fail"]) ELSE Advance(t)
       \/ /\ At(t, "upsert")
          /\ rows' = rows \cup Arg(t)
          /\ Advance(t)
    /\ UNCHANGED <<flights, request, outcome, faults, cut>>

\* A goroutine nobody waits for.  One that is there for the same object
\* already stands for both.
Background(t) ==
    /\ At(t, "spawn")
    /\ stack' = Beside(WithTop(t, After(Top(t))),
                       Starting(<<"background", Arg(t)>>, <<"get", Arg(t)>>))
    /\ UNCHANGED <<rows, flights, request, outcome, faults, cut>>

Children(t) == {u \in Goroutines : u[1] = "member" /\ u[2] = t}
Fork(t) ==
    /\ At(t, "fan")
    /\ stack' = Beside(WithTop(t, [Top(t) EXCEPT !.at = "fan"]),
                       [u \in {Member(t, j) : j \in Arg(t)} |-> <<Frame(u[3])>>])
    /\ UNCHANGED <<rows, flights, request, outcome, faults, cut>>
Join(t) ==
    /\ Top(t).at = "fan"
    /\ Children(t) = {}
    /\ SetTop(t, IF Top(t).failed THEN [Top(t) EXCEPT !.at = "fail"]
                 ELSE [After(Top(t)) EXCEPT !.at = "run"])
    /\ UNCHANGED <<rows, flights, request, outcome, faults, cut>>

\* A routine returns, also to the goroutines that wait for its key.
Return(t, ok) ==
    LET j == Top(t).job
        back == {t} \cup {u \in Goroutines : /\ Keyed(j)
                                           /\ Top(u).at = "wait"
                                           /\ Key(Top(u).job) = Key(j)}
        ended == {u \in back : Len(stack[u]) = 1}
        Resumed(s) == Append(Front(s), IF ok THEN After(Last(s))
                                       ELSE [Last(s) EXCEPT !.at = "fail"])
        Told(u) == IF ~ok /\ Children(u) \cap ended # {}
                   THEN Append(Front(stack[u]), [Top(u) EXCEPT !.failed = TRUE])
                   ELSE stack[u]
    IN /\ stack' = [u \in Goroutines \ ended |->
                      IF u \in back THEN Resumed(Front(stack[u])) ELSE Told(u)]
       /\ flights' = IF Keyed(j) THEN flights \ {Key(j)} ELSE flights
       /\ outcome' = [c \in Callers |-> IF Caller(c) \notin ended THEN outcome[c]
                                       ELSE IF ok THEN "ok" ELSE "error"]
       /\ cut' = IF ok THEN cut
                 ELSE cut \cup {o \in rows : j = <<"create", o>> /\ Program[j][Top(t).pc] # Insert(o)}
       /\ UNCHANGED <<rows, request, faults>>

Finish(t) ==
    /\ Top(t).at = "run"
    /\ Top(t).pc > Len(Program[Top(t).job])
    /\ Return(t, TRUE)
GiveUp(t) ==
    /\ Top(t).at = "fail"
    /\ Return(t, FALSE)

Step(t) == \/ Enter(t) \/ Call(t) \/ Forbidden(t) \/ Read(t) \/ Write(t)
           \/ Background(t) \/ Fork(t) \/ Join(t) \/ Finish(t) \/ GiveUp(t)

\* A call of ESI or of the database fails.
Fail(t) ==
    /\ \E op \in {"fetch", "missing", "access", "need", "insert", "upsert"} : At(t, op)
    /\ faults < MaxFaults
    /\ faults' = faults + 1
    /\ SetTop(t, [Top(t) EXCEPT !.at = "fail"])
    /\ UNCHANGED <<rows, flights, request, outcome, cut>>

\* The process ends and is started again: only the rows are left.
Restart ==
    /\ faults < MaxFaults
    /\ faults' = faults + 1
    /\ stack' = <<>>
    /\ flights' = {}
    /\ outcome' = [c \in Callers |-> IF Caller(c) \in Goroutines THEN "error" ELSE outcome[c]]
    /\ cut' = cut \cup {o \in rows : <<"create", o>> \in flights}
    /\ UNCHANGED <<rows, request>>

Progress == (\E t \in Goroutines : Step(t)) \/ (\E c \in Callers : Ask(c) \/ AskAgain(c))
Next == Progress \/ Restart \/ (\E t \in Goroutines : Fail(t))

\* Goroutines are scheduled and calls come back.  Nothing here goes on for
\* ever: a caller asks once and again only after a fault or after an insert of
\* a row that is there, so that fairness of the whole is fairness of each.
Spec == Init /\ [][Next]_vars /\ WF_vars(Progress)

----------------------------------------------------------------------------
\* The routine of a key is executed by one goroutine, and a goroutine that
\* waits for a key waits for a goroutine that executes it.
Executing(k) == {t \in Goroutines : \E i \in 1..Len(stack[t]) :
                   /\ Keyed(stack[t][i].job)
                   /\ Key(stack[t][i].job) = k
                   /\ stack[t][i].at \in {"run", "fan", "fail"}}
OneCreator ==
    /\ \A k \in flights : Cardinality(Executing(k)) = 1
    /\ \A t \in Goroutines : Top(t).at = "wait" => Key(Top(t).job) \in flights

\* ... while every variable keeps its type, the stacks of goroutines included.
FlightsAreExclusive == TypeOK /\ OneCreator

\* The types of the categories that are updated: ships and skills, the skills that
\* ships require among them.
GroupsOf(o) == UNION {All(c, "group") : c \in All(o, "category")}
TypesOf(o) == UNION {All(g, "type") : g \in GroupsOf(o)}
\* The rows a row refers to by a foreign key.
References(r) ==
    CASE r[1] = "value" -> {r[2]} \cup {x \in {r[3]} : Kind(x) = "attribute"}
      [] r[1] = "ship skills" -> {m[2] : m \in UNION {{x \in Mentions[t] : Link(t, x[1]) \in rows}
                                                      : t \in rows \cap Objects}} \cap TypesOf(r[2])
      [] r[1] = "detail" -> {}
      [] r[1] = "constellation" -> All(r, "region")
      [] r[1] = "solar system" -> All(r, "constellation")
      [] r[1] = "moon" -> All(r, "solar system")
      [] r[1] \in {"planet", "station", "structure", "place"} ->
           All(r, "solar system") \cup All(r, "type") \cup All(r, "entity")
      [] r[1] = "group" -> All(r, "category")
      [] r[1] = "type" -> All(r, "group")
      [] r[1] = "eve character" -> All(r, "race") \cup All(r, "entity")
      [] OTHER -> {}

\* What a goroutine is about to write refers only to rows that are there: the
\* order of the steps in each routine keeps the database from refusing it.
WritesRefer ==
    \A t \in Goroutines :
        \A r \in (IF At(t, "insert") THEN {Arg(t)} ELSE IF At(t, "upsert") THEN Arg(t) ELSE {}) :
            Top(t).job[1] # "hidden" => References(r) \subseteq rows

\* A type without the values of its attributes is one that is being created or
\* one that a fault has cut short (and that nothing will ever complete).
PartialTypesHaveCause ==
    \A t \in {r \in rows : Kind(r) = "type"} :
        \/ \A x \in All(t, "attribute") \cup All(t, "effect") : Link(t, x) \in rows
        \/ <<"create", t>> \in flights
        \/ t \in cut

\* Whoever asks gets an answer in the end: no goroutine waits for ever for a
\* key, also when types mention each other, when calls fail and when the
\* process is started again.
RequestsSucceed == \A c \in Callers : (request[c] # NoJob) ~> (outcome[c] = "ok")

\* A type whose creation ESI and the database answered is stored with its
\* values (inventory_test.go:199 asserts it).  The code does not keep this: the
\* row is read before singleflight is entered and INSERT does not allow for a
\* row that is there, so that two goroutines in need of the same attribute let
\* one of them fail, after the row of the type and before its values; the row
\* is found ever after.
TypesAreComplete == faults = 0 =>
    \A t \in {r \in rows : Kind(r) = "type"} :
        \/ \A x \in All(t, "attribute") \cup All(t, "effect") : Link(t, x) \in rows
        \/ <<"create", t>> \in flights
=============================================================================
