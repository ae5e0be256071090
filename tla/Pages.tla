------------------------------- MODULE Pages -------------------------------
(***************************************************************************)
(* How the pages of the user interface follow the database (internal/app/  *)
(* ui): an update of a section refreshes the pages listed for the section, *)
(* a choice of the user loads another character and refreshes all pages of *)
(* a character, a deletion and an addition refresh the pages about all     *)
(* characters.  All of them run in goroutines of their own, none takes a   *)
(* lock, and a refresh is two steps: read the database (and which          *)
(* character is the current one), then set what is shown.                  *)
(*                                                                         *)
(* One source of change is followed, every section and operation in turn,  *)
(* and one page that shows something of it, every one in turn.  What the   *)
(* source writes is a version, and the page shows the version it read.     *)
(* Which pages show something of a source is derived from the queries of   *)
(* both.                                                                   *)
(***************************************************************************)
EXTENDS Integers, Sequences, FiniteSets, TLC
Q == INSTANCE Queries
CS == INSTANCE CharacterService
EUS == INSTANCE EveUniverseService

CONSTANTS
    Characters,
    None,       \* no character, no data
    Limit       \* bound: actions of the user, checks and failures, per source

Sections == {"assets", "attributes", "contracts", "implants", "jump clones", "location",
             "mails", "mail labels", "mail lists", "notifications", "online", "planets", "ship",
             "skills", "skillqueue", "wallet balance", "wallet journal", "wallet transactions"}
GeneralSections == {"eve categories", "eve characters", "market prices"}
\* The user reads a mail; a character that is there is added again.
Operations == {"read mail", "re-add"}
Sources == Sections \cup GeneralSections \cup Operations
ASSUME LimitAssumption == Limit \in [Sources -> Nat]
ASSUME NoneAssumption == None \notin Nat

----------------------------------------------------------------------------
\* The pages: the queries of a page ("rows"), which columns of characters and
\* eve_characters it shows of their results ("uses"), which it takes from the
\* copy of the current character that the user interface keeps ("copy"), and
\* the queries of the list that opens when the user selects something
\* ("detail").
Plain(rows) == [rows |-> rows, uses |-> {}, copy |-> {}, detail |-> {}]
characterAssets ==
    [rows |-> CS!ListAssets \cup EUS!ListLocations, uses |-> {},
     copy |-> {"characters.asset_value"},
     detail |-> CS!ListAssetsInShipHangar \cup CS!ListAssetsInItemHangar
                \cup CS!ListAssetsInLocation]
characterAttributes == Plain(CS!GetAttributes)
characterBiography == [Plain({}) EXCEPT !.copy = {"eve_characters.description"}]
characterCommunications ==
    [Plain(CS!CountNotifications) EXCEPT
       !.detail = CS!ListNotificationsAll \cup CS!ListNotificationsUnread
                  \cup CS!ListNotificationsTypes]
characterContracts == Plain(CS!ListContracts)
characterImplants == Plain(CS!ListImplants)
\* What it takes from the copy is drawn again every 15 seconds.
characterJumpClones == Plain(CS!ListJumpClones \cup EUS!GetLocation)
characterMail ==
    Plain(CS!GetMailLabelUnreadCounts \cup CS!GetMailListUnreadCounts \cup CS!ListMailLabelsOrdered
          \cup CS!ListMailLists \cup CS!ListMailHeadersForLabelOrdered
          \cup CS!ListMailHeadersForListOrdered)
characterPlanets == Plain(CS!ListPlanets \cup CS!GetSkill)
characterSheet ==
    [Plain({}) EXCEPT
       !.copy = (Q!EveCharacterColumns \ {"eve_characters.description", "eve_characters.gender",
                                        "eve_characters.title"})
                \cup {"characters.asset_value", "characters.home_id", "characters.total_sp",
                      "characters.wallet_balance"}]
characterShips == Plain(CS!ListShipsAbilities)
characterSkillCatalogue ==
    [Plain(CS!ListSkillGroupsProgress) EXCEPT
       !.copy = {"characters.total_sp", "characters.unallocated_sp"},
       !.detail = CS!ListSkillProgress]
characterSkillQueue == Plain(CS!ListSkillqueueItems)
characterWalletJournal ==
    [Plain(CS!ListWalletJournalEntries) EXCEPT !.copy = {"characters.wallet_balance"}]
characterWalletTransaction == Plain(CS!ListWalletTransactions)

CharacterPages ==
    [characterAssets |-> characterAssets, characterAttributes |-> characterAttributes,
     characterBiography |-> characterBiography,
     characterCommunications |-> characterCommunications,
     characterContracts |-> characterContracts, characterImplants |-> characterImplants,
     characterJumpClones |-> characterJumpClones, characterMail |-> characterMail,
     characterPlanets |-> characterPlanets, characterSheet |-> characterSheet,
     characterShips |-> characterShips, characterSkillCatalogue |-> characterSkillCatalogue,
     characterSkillQueue |-> characterSkillQueue,
     characterWalletJournal |-> characterWalletJournal,
     characterWalletTransaction |-> characterWalletTransaction]

\* The pages about all characters.
Name == {"eve_characters.name"}
overviewAssets ==
    [Plain(CS!ListCharactersShort \cup CS!ListAllAssets \cup EUS!ListLocations) EXCEPT
       !.uses = Name]
overviewCharacters ==
    [Plain(CS!ListCharacters \cup CS!GetMailCounts \cup CS!AssetTotalValue) EXCEPT
       !.uses = Name \cup {"characters.asset_value", "characters.home_id",
                           "characters.last_login_at", "characters.wallet_balance",
                           "eve_characters.alliance_id", "eve_characters.birthday",
                           "eve_characters.corporation_id", "eve_characters.security_status"}]
overviewClones == [Plain(CS!ListAllJumpClones) EXCEPT !.uses = Name]
overviewColonies == Plain(CS!ListAllPlanets)
overviewLocations ==
    [Plain(CS!ListCharacters) EXCEPT
       !.uses = Name \cup {"characters.location_id", "characters.ship_id"}]
overviewTraining ==
    [Plain(CS!ListCharacters \cup CS!GetTotalTrainingTime) EXCEPT
       !.uses = Name \cup {"characters.total_sp", "characters.unallocated_sp"}]
overviewWealth ==
    [Plain(CS!ListCharacters \cup CS!AssetTotalValue) EXCEPT
       !.uses = Name \cup {"characters.asset_value", "characters.wallet_balance"}]

CrossPages ==
    [overviewAssets |-> overviewAssets, overviewCharacters |-> overviewCharacters,
     overviewClones |-> overviewClones, overviewColonies |-> overviewColonies,
     overviewLocations |-> overviewLocations, overviewTraining |-> overviewTraining,
     overviewWealth |-> overviewWealth]

Page(p) == IF p \in DOMAIN CrossPages THEN CrossPages[p] ELSE CharacterPages[p]
AllPages == DOMAIN CrossPages \cup DOMAIN CharacterPages

----------------------------------------------------------------------------
\* The queries of an update of a section, and of an operation of the user.
UpdateSection ==
    [s \in Sections |->
       CASE s = "assets" -> CS!updateAssetsESI
         [] s = "attributes" -> CS!updateAttributesESI
         [] s = "contracts" -> CS!updateContractsESI
         [] s = "implants" -> CS!updateImplantsESI
         [] s = "jump clones" -> CS!updateJumpClonesESI
         [] s = "location" -> CS!updateLocationESI
         [] s = "mails" -> CS!updateMailsESI
         [] s = "mail labels" -> CS!updateMailLabelsESI
         [] s = "mail lists" -> CS!updateMailListsESI
         [] s = "notifications" -> CS!updateNotificationsESI
         [] s = "online" -> CS!updateOnlineESI
         [] s = "planets" -> CS!updatePlanetsESI
         [] s = "ship" -> CS!updateShipESI
         [] s = "skills" -> CS!updateSkillsESI
         [] s = "skillqueue" -> CS!UpdateSkillqueueESI
         [] s = "wallet balance" -> CS!updateWalletBalanceESI
         [] s = "wallet journal" -> CS!updateWalletJournalEntryESI
         [] s = "wallet transactions" -> CS!updateWalletTransactionESI]
UpdateGeneralSection ==
    [s \in GeneralSections |->
       CASE s = "eve categories" -> EUS!updateCategories
         [] s = "eve characters" -> EUS!UpdateAllCharactersESI
         [] s = "market prices" -> EUS!updateMarketPricesESI]
Operation == [s \in Operations |-> IF s = "read mail" THEN CS!UpdateMailRead
                                   ELSE CS!UpdateOrCreateCharacterFromSSO]
Changing == UpdateSection @@ UpdateGeneralSection @@ Operation

\* Does what the source writes show in the results of the queries P, of which
\* the given columns are used?  A new object of the universe shows only where
\* all of them are listed, it is there before a character's data refer to it.
Shows(s, P, columns) ==
    LET rows == Q!Rows(Changing[s]) \ (IF s \in GeneralSections THEN {} ELSE Q!UniverseTables)
        cells == Q!Cells(Changing[s]) \ (IF s \in GeneralSections THEN {} ELSE Q!UniverseTables)
        unused == (Q!CharacterColumns \cup Q!EveCharacterColumns) \ columns
    IN \/ rows \cap Q!Over(P) # {}
       \/ cells \cap ((Q!Over(P) \cup Q!By(P)) \ unused) # {}
ShowsRows(s, p) == Shows(s, Page(p).rows, Page(p).uses)
ShowsCopy(s, p) == Q!Cells(Changing[s]) \cap Q!By(CS!GetCharacter) \cap Page(p).copy # {}
\* The pages that show something of what a source writes, and of those the ones
\* with a list of it that can be opened.
Areas == [s \in Sources |-> {p \in AllPages : ShowsRows(s, p) \/ ShowsCopy(s, p)}]
Lists == [s \in Sources |-> {p \in DOMAIN CharacterPages : Shows(s, Page(p).detail, {})}]
FromRows == [s \in Sources |-> {p \in AllPages : ShowsRows(s, p)}]
FromCopy == [s \in Sources |-> {p \in AllPages : ShowsCopy(s, p)}]

----------------------------------------------------------------------------
\* What may run at the same time for a character, each at most once.
Task == UpdateSection @@ [t \in Operations |-> Operation[t]] @@
    [t \in {"send mail", "delete mail", "watch training", "notify contracts", "notify mails",
            "notify communications", "notify training", "notify extractions"} |->
       CASE t = "send mail" -> CS!SendMail
         [] t = "delete mail" -> CS!DeleteMail
         [] t = "watch training" -> CS!EnableTrainingWatcher
         [] t = "notify contracts" -> CS!NotifyUpdatedContracts
         [] t = "notify mails" -> CS!NotifyMails
         [] t = "notify communications" -> CS!NotifyCommunications
         [] t = "notify training" -> CS!NotifyExpiredTraining
         [] t = "notify extractions" -> CS!NotifyExpiredExtractions]
Writes(t) == (Q!Rows(Task[t]) \cup Q!Cells(Task[t])) \ Q!UniverseTables
Reads(t) == Q!Over(Task[t]) \cup Q!By(Task[t])
\* The tasks that write what a source writes, and the updates that read it.
Writers == [s \in Sources |-> {t \in (DOMAIN Task) \ {s} :
                                 s \in DOMAIN Task /\ Writes(s) \cap Writes(t) # {}}]
Readers == [s \in Sources |-> {t \in Sections \ {s} : s \in Sections /\ Writes(s) \cap Reads(t) # {}}]
\* The tasks that write the same tables or columns: an update and what notifies
\* of it, what the user does with mails, the token of a character, and adding a
\* character again, which empties its columns.
Pairs(S) == {{s, t} : s, t \in S}
SharedPairs ==
    {{"contracts", "notify contracts"}, {"notifications", "notify communications"},
     {"planets", "notify extractions"}, {"mail labels", "send mail"}}
    \cup Pairs({"mails", "notify mails", "send mail", "delete mail", "read mail"})
    \cup Pairs({"send mail", "delete mail", "read mail", "re-add"})
    \cup {{"re-add", t} : t \in {"watch training", "notify training", "assets", "jump clones",
                                "location", "online", "ship", "skills", "wallet balance"}}
Shared == [s \in Sources |-> {t \in DOMAIN Task : {s, t} \in SharedPairs}]

----------------------------------------------------------------------------
\* What is done after an update of a section, in this order: for every
\* character, and only for the one that is shown ("reload" is
\* reloadCurrentCharacter).  "go" pages are updated in a goroutine.
Refresh(s) ==
    CASE s = "assets" ->
           [all |-> <<"overviewAssets", "overviewWealth">>,
            shown |-> <<"reload", "characterAssets", "characterSheet">>, go |-> {}]
      [] s = "attributes" -> [all |-> <<>>, shown |-> <<"characterAttributes">>, go |-> {}]
      [] s = "contracts" -> [all |-> <<>>, shown |-> <<"characterContracts">>, go |-> {}]
      [] s = "implants" -> [all |-> <<>>, shown |-> <<"characterImplants">>, go |-> {}]
      [] s = "jump clones" ->
           [all |-> <<"overviewCharacters", "overviewClones">>,
            shown |-> <<"reload", "characterJumpClones">>, go |-> {}]
      [] s \in {"location", "online", "ship"} ->
           [all |-> <<"overviewLocations">>, shown |-> <<"reload">>, go |-> {}]
      [] s = "planets" -> [all |-> <<"overviewColonies">>, shown |-> <<"characterPlanets">>, go |-> {}]
      [] s \in {"mail labels", "mail lists"} ->
           [all |-> <<"overviewCharacters">>, shown |-> <<"characterMail">>, go |-> {}]
      [] s = "mails" -> [all |-> <<>>, shown |-> <<"characterMail">>, go |-> {"overviewCharacters"}]
      [] s = "notifications" -> [all |-> <<>>, shown |-> <<"characterCommunications">>, go |-> {}]
      [] s = "skills" ->
           [all |-> <<"overviewTraining">>,
            shown |-> <<"reload", "characterSkillCatalogue", "characterShips", "characterPlanets">>,
            go |-> {}]
      [] s = "skillqueue" ->
           [all |-> <<"overviewTraining">>, shown |-> <<"characterSkillQueue">>, go |-> {}]
      [] s = "wallet balance" ->
           [all |-> <<"overviewCharacters", "overviewWealth">>,
            shown |-> <<"reload", "characterAssets">>, go |-> {}]
      [] s = "wallet journal" -> [all |-> <<>>, shown |-> <<"characterWalletJournal">>, go |-> {}]
      [] s = "wallet transactions" ->
           [all |-> <<>>, shown |-> <<"characterWalletTransaction">>, go |-> {}]

\* After an update of a general section; the prices are refreshed always.
RefreshGeneral(s) ==
    CASE s = "eve categories" -> <<"characterShips", "characterSkillCatalogue">>
      [] s = "eve characters" -> <<"reload", "overviewCharacters">>
      [] s = "market prices" ->
           <<"characterAssets", "overviewCharacters", "overviewAssets", "reload">>

\* The areas that are left out although they show something of the source.
Gaps == {<<"assets", "overviewCharacters">>, <<"jump clones", "characterSheet">>,
         <<"online", "overviewCharacters">>, <<"skills", "characterSheet">>,
         <<"wallet balance", "characterSheet">>, <<"wallet balance", "characterWalletJournal">>}
        \cup {"eve categories"} \X {"characterImplants", "characterJumpClones"}
        \cup {"eve characters"} \X {"characterBiography", "characterSheet", "overviewAssets",
                                    "overviewClones", "overviewLocations", "overviewTraining",
                                    "overviewWealth"}
        \cup {"re-add"} \X {"characterAssets", "characterSheet", "characterSkillCatalogue",
                            "characterWalletJournal"}
\* The sources whose open list is left out: SkillCatalogue.Refresh, unlike its
\* Update, does not close it.
ListGaps == {"skills", "eve categories"}

\* Pages that keep what they show of the database, or of the copy, when there
\* is no character to show (any more).
KeepRows == {"characterSkillCatalogue", "overviewAssets", "overviewWealth"}
KeepCopy == {"characterSheet"}

----------------------------------------------------------------------------
VARIABLES
    source,  \* the source that is followed
    data,    \* data[c]: the version in the database, None when c is not there
    current, \* the copy of the current character: its id and its version
    shown,   \* shown[p]: what page p shows, of the database and of the copy
    opened,  \* the list that the user has opened: of whom, and its version
    work,    \* the goroutines: what each has still to do, and what it has read
    events,  \* how much has happened, up to the limit
    told,    \* history: told[c]: the version up to which the pages are to follow; a failed
             \* update leaves more in the database, of which they are not told
    chosen,  \* history: the character that was last made the current one
    excuse   \* history: what was set by a refresh that another one overlapped,
             \* or was not set because a read failed

vars == <<source, data, told, current, shown, opened, work, events, chosen, excuse>>

MaxEvents == Limit[source]
Copies == [id : Characters \cup {None}, ver : (0..MaxEvents) \cup {None}]
NoCharacter == [id |-> None, ver |-> None]
GetCharacter(c) == IF data[c] = None THEN NoCharacter ELSE [id |-> c, ver |-> data[c]]
Here == {c \in Characters : data[c] # None}
\* The page that is followed, and its list if it has one.
Relevant == DOMAIN shown
RelevantLists == Relevant \cap Lists[source]

\* What a refresh of p sets when it reads everything now.
View(p) ==
    [rows |-> IF p \in DOMAIN CrossPages THEN data
              ELSE IF current.id = None THEN NoCharacter
                   ELSE [id |-> current.id, ver |-> data[current.id]],
     copy |-> current]

TypeOK ==
    /\ source \in Sources
    /\ data \in [Characters -> (0..MaxEvents) \cup {None}]
    /\ told \in [Characters -> (0..MaxEvents) \cup {None}]
    /\ current \in Copies
    /\ \A p \in Relevant :
         /\ shown[p].copy \in Copies
         /\ shown[p].rows \in (IF p \in DOMAIN CrossPages
                              THEN [Characters -> (0..MaxEvents) \cup {None}] ELSE Copies)
    /\ opened \in Copies
    /\ \A g \in DOMAIN work : work[g].todo # <<>>
    /\ events \in 0..MaxEvents
    /\ chosen \in Characters \cup {None}
    /\ excuse \subseteq Relevant \cup {"current", "list"}

\* The program has started: the last character, or any, was loaded.
Init ==
    /\ source \in Sources
    /\ data \in [Characters -> {0, None}] /\ told = data
    /\ current \in (IF Here = {} THEN {NoCharacter} ELSE [id : Here, ver : {0}])
    /\ \E p \in Areas[source] : shown = [q \in {p} |-> View(q)]
    /\ opened = NoCharacter
    /\ work = <<>>
    /\ events = 0
    /\ chosen = current.id
    /\ excuse = {}

\* The pages are to follow what has been written of the characters of S.
Tell(S) == told' = [c \in Characters |-> IF c \in S THEN data'[c] ELSE told[c]]

Happens == events < MaxEvents /\ events' = events + 1

\* A goroutine has a list of things to do and perhaps something it has read.
Doing(todo) == [todo |-> todo, read |-> None, late |-> FALSE]
Does(g, op) == g \in DOMAIN work /\ work[g].todo[1][1] = op
Its(g) == work[g].todo[1][2]
NotYetRead(g) == work[g].read = None
\* What is done of a list of refreshes, in its order: those that can be seen.
Pages(seq) ==
    LET kept == {i \in DOMAIN seq : seq[i] \in Relevant \cup {"reload"}}
        order == CHOOSE f \in UNION {[1..n -> kept] : n \in 0..Len(seq)} :
                   /\ kept = {f[k] : k \in DOMAIN f}
                   /\ \A j, k \in DOMAIN f : j < k => f[j] < f[k]
        Step(p) == <<IF p = "reload" THEN "reload" ELSE "page", p>>
    IN [k \in DOMAIN order |-> Step(seq[order[k]])]
\* Goroutine g goes on with a list, and others start with one page each.
Continue(g, todo) ==
    [h \in (DOMAIN work \ {g}) \cup (IF todo = <<>> THEN {} ELSE {g}) |->
        IF h = g THEN Doing(todo) ELSE work[h]]
\* A refresh that is between its read and its write when another one writes
\* the same may write something older.
Overtake(w, op, X) ==
    [h \in DOMAIN w |-> IF w[h].todo[1][1] = op /\ w[h].todo[1][2] \in X /\ w[h].read # None
                        THEN [w[h] EXCEPT !.late = TRUE] ELSE w[h]]
\* Goroutines are started beside those of w.  (These are :> and @@ of TLC, in
\* terms that can be reasoned about.)
Starting(g, todo) == [h \in {g} |-> Doing(todo)]
Beside(w, new) ==
    [h \in DOMAIN w \cup DOMAIN new |-> IF h \in DOMAIN new THEN new[h] ELSE w[h]]
Refreshing(name, P) == [g \in {name} \X (P \cap Relevant) |-> Doing(<<<<"page", g[2]>>>>)]

----------------------------------------------------------------------------
\* updateCharacterSectionAndRefreshIfNeeded: update the section, then ask
\* which character is shown, then refresh.  It is called by the ticker, by the
\* user and after a character was loaded.
RefreshOf(isShown, needsRefresh) ==
    LET all == IF needsRefresh THEN Refresh(source).all ELSE <<>>
        one == IF isShown /\ (needsRefresh \/ source = "skillqueue")
               THEN Refresh(source).shown ELSE <<>>
    IN Pages(IF source = "skillqueue" THEN one \o all ELSE all \o one)

\* Mutant: it is asked before the update.
CheckAsked(c) ==
    /\ Happens
    /\ source \in Sections
    /\ c \in Here
    /\ <<"section", c>> \notin DOMAIN work
    /\ work' = Beside(work, Starting(<<"section", c>>,
                                     <<<<"update", c>>>> \o RefreshOf(current.id = c, TRUE)))
    /\ UNCHANGED <<source, data, told, current, shown, opened, chosen, excuse>>
Check(c) ==
    /\ Happens
    /\ source \in Sections
    /\ c \in Here
    /\ <<"section", c>> \notin DOMAIN work
    /\ work' = Beside(work, Starting(<<"section", c>>, <<<<"update", c>>, <<"ask", c>>>>))
    /\ UNCHANGED <<source, data, told, current, shown, opened, chosen, excuse>>

\* Some of the rows of c may be written before a failure.
WritesOrNot(c) == \/ UNCHANGED data
                  \/ data[c] # None /\ data' = [data EXCEPT ![c] = @ + 1]
Update(g) ==
    /\ Does(g, "update")
    /\ \/ /\ data[Its(g)] # None
          /\ data' = [data EXCEPT ![Its(g)] = @ + 1]
          /\ Tell({Its(g)})
          /\ work' = Overtake(Continue(g, Tail(work[g].todo)), "load", {Its(g)})
       \/ \* nothing new
          /\ data[Its(g)] # None
          /\ work' = Continue(g, <<<<"ask again", Its(g)>>>>)
          /\ UNCHANGED <<data, told>>
       \/ \* an error, as when the character has been deleted, or after some of the rows
          /\ work' = Continue(g, <<>>)
          /\ WritesOrNot(Its(g))
          /\ UNCHANGED told
    /\ UNCHANGED <<source, current, shown, opened, events, chosen, excuse>>

Ask(g) ==
    /\ Does(g, "ask") \/ Does(g, "ask again")
    /\ LET new == Does(g, "ask")
       IN work' = Beside(Continue(g, RefreshOf(current.id = Its(g), new)),
                         Refreshing("go", IF new THEN Refresh(source).go ELSE {}))
    /\ UNCHANGED <<source, data, told, current, shown, opened, events, chosen, excuse>>

\* updateGeneralSectionAndRefreshIfNeeded: which character is shown is not asked.
CheckGeneral(s) ==
    /\ Happens
    /\ <<"general", s>> \notin DOMAIN work
    /\ work' = Beside(work, Starting(<<"general", s>>, <<<<"update general", s>>>>))
    /\ UNCHANGED <<source, data, told, current, shown, opened, chosen, excuse>>

UpdateGeneral(g) ==
    /\ Does(g, "update general")
    /\ LET next == Pages(RefreshGeneral(Its(g)))
       IN \/ /\ data' = [c \in Characters |-> IF c \in Here /\ Its(g) = source THEN data[c] + 1
                                              ELSE data[c]]
             /\ Tell(IF Its(g) = source THEN Characters ELSE {})
             /\ work' = Overtake(Continue(g, next), "load",
                                 IF Its(g) = source THEN Characters ELSE {})
          \/ \* nothing new
             /\ work' = Continue(g, IF Its(g) = "market prices" THEN next ELSE <<>>)
             /\ UNCHANGED <<data, told>>
          \/ \* an error, after some of the rows
             /\ work' = Continue(g, <<>>)
             /\ \E S \in SUBSET Here :
                  data' = [c \in Characters |-> IF c \in S /\ Its(g) = source THEN data[c] + 1
                                               ELSE data[c]]
             /\ UNCHANGED told
    /\ UNCHANGED <<source, current, shown, opened, events, chosen, excuse>>

----------------------------------------------------------------------------
\* The list of assets is of the character for which the tree of locations was
\* made, the other lists are of the current one.
ListOwner(p) == IF p = "characterAssets" THEN shown[p].rows.id ELSE current.id
\* Mutant: closed only when there is no character.
ClosesWithout(g) == Does(g, "page") /\ Its(g) \in RelevantLists /\ current.id = None
\* Update closes the list.  After an update of a section the skill catalogue is
\* refreshed by its Refresh, which does not.
Closes(g) ==
    /\ Does(g, "page")
    /\ Its(g) \in RelevantLists
    /\ Its(g) = "characterSkillCatalogue" => g[1] = "page"

\* A refresh reads.
Reading(g) ==
    /\ NotYetRead(g)
    /\ LET value == CASE Does(g, "page") -> View(Its(g))
                      [] Does(g, "reload") -> GetCharacter(current.id)
                      [] Does(g, "load") -> GetCharacter(Its(g))
                      [] Does(g, "open") -> [id |-> Its(g), ver |-> data[Its(g)]]
       IN work' = [work EXCEPT ![g].read = value]
Read(g) ==
    /\ \/ Does(g, "load") \/ Does(g, "open")
       \/ Does(g, "reload") /\ current.id # None
    /\ Reading(g)
    /\ UNCHANGED <<source, data, told, current, shown, opened, events, chosen, excuse>>
\* A page closes its list before it reads.
Close(g) ==
    IF Closes(g) THEN opened' = NoCharacter ELSE UNCHANGED opened
ReadPage(g) ==
    /\ Does(g, "page")
    /\ NotYetRead(g)
    /\ work' = LET w == [work EXCEPT ![g].read = View(Its(g))]
               IN IF Closes(g) THEN Overtake(w, "open", Characters) ELSE w
    /\ Close(g)
    /\ UNCHANGED <<source, data, told, current, shown, events, chosen, excuse>>

\* The page shows what was read.
Show(g) ==
    /\ Does(g, "page")
    /\ ~NotYetRead(g)
    /\ LET p == Its(g)
           new == work[g].read
           empty == IF p \in DOMAIN CrossPages THEN \A c \in Characters : new.rows[c] = None
                    ELSE new.copy.id = None
       IN shown' = [shown EXCEPT ![p] =
                      [rows |-> IF empty /\ p \in KeepRows THEN @.rows ELSE new.rows,
                       copy |-> IF empty /\ p \in KeepCopy THEN @.copy ELSE new.copy]]
    /\ excuse' = IF work[g].late THEN excuse \cup {Its(g)} ELSE excuse \ {Its(g)}
    /\ work' = Overtake(Continue(g, Tail(work[g].todo)), "page", {Its(g)})
    /\ UNCHANGED <<source, data, told, current, opened, events, chosen>>

\* reloadCurrentCharacter: without a lock, and with nil after an error.
Reload(g) ==
    /\ Does(g, "reload")
    /\ IF current.id = None /\ NotYetRead(g)
       THEN UNCHANGED <<current, excuse>>
       ELSE /\ ~NotYetRead(g)
            /\ current' = work[g].read
            /\ excuse' = IF work[g].late \/ current' = NoCharacter THEN excuse \cup {"current"} ELSE excuse
    /\ work' = Overtake(Continue(g, Tail(work[g].todo)), "reload", {"reload"})
    /\ UNCHANGED <<source, data, told, shown, opened, events, chosen>>

\* loadCharacter and setCharacter; updateCharacter refreshes all pages.
Load(g) ==
    /\ Does(g, "load")
    /\ ~NotYetRead(g)
    /\ current' = work[g].read
    /\ chosen' = Its(g)
    /\ excuse' = IF work[g].late THEN excuse \cup {"current"} ELSE excuse \ {"current"}
    /\ work' = Beside(Overtake(Continue(g, Tail(work[g].todo)), "reload", {"reload"}),
                      Refreshing("page", DOMAIN CharacterPages))
    /\ UNCHANGED <<source, data, told, shown, opened, events>>

----------------------------------------------------------------------------
\* The user does one thing at a time: the windows are blocked by the progress
\* of the refreshes that it starts.
User == <<"user", None>>
Free == User \notin DOMAIN work /\ \A g \in DOMAIN work : g[1] \notin {"page", "mail page", "open"}

Switch(c) ==
    /\ Happens /\ Free
    /\ c \in Here
    /\ work' = Beside(work, Starting(User, <<<<"load", c>>>>))
    /\ UNCHANGED <<source, data, told, current, shown, opened, chosen, excuse>>

\* Opening a list is one call of the goroutine of the windows.  A list that is
\* opened on a page that is excused is excused as well.
Open(p) ==
    /\ Free
    /\ p \in RelevantLists
    /\ ListOwner(p) # None
    /\ work' = Beside(work, [h \in {<<"open", None>>} |->
                               [Doing(<<<<"open", ListOwner(p)>>>>) EXCEPT
                                  !.late = excuse \cap {p, "current"} # {}]])
    /\ UNCHANGED <<source, data, told, current, shown, opened, events, chosen, excuse>>
ShowList(g) ==
    /\ Does(g, "open")
    /\ ~NotYetRead(g)
    /\ opened' = work[g].read
    /\ excuse' = IF work[g].late THEN excuse \cup {"list"} ELSE excuse \ {"list"}
    /\ work' = Continue(g, <<>>)
    /\ UNCHANGED <<source, data, told, current, shown, events, chosen>>

\* Mails.setMail: a mail that was not read before is marked, in a goroutine.
ReadMail ==
    /\ Happens /\ Free
    /\ source = "read mail"
    /\ current.id \in Here
    /\ <<"mail", current.id>> \notin DOMAIN work
    /\ work' = Beside(work, Starting(<<"mail", current.id>>,
                                     <<<<"mark", current.id>>>> \o Pages(<<"characterMail">>)
                                     \o <<<<"cross", None>>>>))
    /\ UNCHANGED <<source, data, told, current, shown, opened, chosen, excuse>>
Mark(g) ==
    /\ Does(g, "mark")
    /\ \/ /\ data[Its(g)] # None
          /\ data' = [data EXCEPT ![Its(g)] = @ + 1]
          /\ Tell({Its(g)})
          /\ work' = Overtake(Continue(g, Tail(work[g].todo)), "load", {Its(g)})
       \/ \* an error, before or after the row of the mail
          /\ work' = Continue(g, <<>>)
          /\ WritesOrNot(Its(g))
          /\ UNCHANGED told
    /\ UNCHANGED <<source, current, shown, opened, events, chosen, excuse>>

\* ManageCharacters: delete, then show another character if needed.
Delete(c) ==
    /\ Happens /\ Free
    /\ c \in Here
    /\ data' = [data EXCEPT ![c] = None]
    /\ Tell({c})
    /\ work' = Beside(work, Starting(User, <<<<"deleted", c>>, <<"cross", None>>>>))
    /\ UNCHANGED <<source, current, shown, opened, chosen, excuse>>

\* ShowAddCharacterDialog: show the new character if there is none yet.  One that
\* is there is written again, without what its sections have found out.  When the
\* token cannot be stored after it, an error is shown and nothing is refreshed.
Add(c) ==
    /\ Happens /\ Free
    /\ c \notin Here \/ source = "re-add"
    /\ data' = [data EXCEPT ![c] = IF c \in Here THEN @ + 1 ELSE 0]
    /\ \/ /\ Tell({c})
          /\ work' = Beside(work, Starting(User, <<<<"added", c>>, <<"cross", None>>>>))
       \/ UNCHANGED <<told, work>>
    /\ UNCHANGED <<source, current, shown, opened, chosen, excuse>>

\* Mutant: the deleted character stays the current one.
keepCharacter ==
    /\ Does(User, "deleted")
    /\ work' = Continue(User, Tail(work[User].todo))
    /\ UNCHANGED <<source, data, told, current, shown, opened, events, chosen, excuse>>
\* setAnyCharacter, or resetCharacter when there is none.
setAnyCharacter ==
    /\ Does(User, "deleted")
    /\ IF current.id = Its(User)
       THEN IF Here = {}
            THEN /\ current' = NoCharacter
                 /\ chosen' = None
                 /\ excuse' = excuse \ {"current"}
                 /\ work' = Beside(Overtake(Continue(User, Tail(work[User].todo)), "reload", {"reload"}),
                                   Refreshing("page", DOMAIN CharacterPages))
            ELSE /\ \E c \in Here : work' = Continue(User, <<<<"load", c>>>> \o Tail(work[User].todo))
                 /\ UNCHANGED <<current, chosen, excuse>>
       ELSE /\ work' = Continue(User, Tail(work[User].todo))
            /\ UNCHANGED <<current, chosen, excuse>>
    /\ UNCHANGED <<source, data, told, shown, opened, events>>

HasCharacter ==
    /\ Does(User, "added")
    /\ work' = Continue(User, (IF current.id = None THEN <<<<"load", Its(User)>>>> ELSE <<>>)
                              \o Tail(work[User].todo))
    /\ UNCHANGED <<source, data, told, current, shown, opened, events, chosen, excuse>>

UpdateCrossPages(g) ==
    /\ Does(g, "cross")
    /\ work' = Beside(Continue(g, <<>>),
                      Refreshing(IF g = User THEN "page" ELSE "mail page", DOMAIN CrossPages))
    /\ UNCHANGED <<source, data, told, current, shown, opened, events, chosen, excuse>>

\* A read of the database fails: the page keeps what it shows, but for its list,
\* the copy of the current character is lost.
Fail(g) ==
    /\ Happens
    /\ NotYetRead(g)
    /\ \/ /\ Does(g, "page")
          /\ excuse' = excuse \cup {Its(g)}
          /\ work' = Overtake(Overtake(Continue(g, Tail(work[g].todo)), "page", {Its(g)}),
                              "open", IF Closes(g) THEN Characters ELSE {})
          /\ Close(g)
       \/ /\ Does(g, "reload") /\ current.id # None
          /\ work' = [work EXCEPT ![g].read = NoCharacter]
          /\ UNCHANGED <<opened, excuse>>
       \/ /\ Does(g, "open")
          /\ opened' = IF "characterSkillCatalogue" \in Relevant THEN opened ELSE NoCharacter
          /\ work' = Continue(g, <<>>)
          /\ UNCHANGED excuse
    /\ UNCHANGED <<source, data, told, current, shown, chosen>>

Step(g) == \/ Update(g) \/ UpdateGeneral(g) \/ Ask(g) \/ Mark(g) \/ UpdateCrossPages(g)
           \/ Read(g) \/ ReadPage(g) \/ Show(g) \/ ShowList(g) \/ Reload(g) \/ Load(g)
Next ==
    \/ \E g \in DOMAIN work : Step(g) \/ Fail(g)
    \/ setAnyCharacter \/ HasCharacter \/ ReadMail
    \/ \E s \in GeneralSections : CheckGeneral(s)
    \/ \E p \in RelevantLists : Open(p)
    \/ \E c \in Characters : Check(c) \/ Switch(c) \/ Delete(c) \/ Add(c)
Spec == Init /\ [][Next]_vars

----------------------------------------------------------------------------
\* An update of a section excludes only other updates of the same section: the
\* other sections of the character, what notifies of them and what the user does
\* run at the same time.  They do not write what the update writes but where that
\* is known, and no update reads what another one writes, but that mails look up
\* their labels.
TasksAreSeparate ==
    /\ Writers[source] \subseteq Shared[source]
    /\ Readers[source] \subseteq (IF source = "mail labels" THEN {"mails"} ELSE {})

AtRest == work = <<>>
\* Version v of c is the one in the database, but for what failed updates have
\* written since the last one that did not fail.
Age(v) == IF v = None THEN -1 ELSE v
Recent(v, c) == Age(told[c]) <= Age(v) /\ Age(v) <= Age(data[c])
RecentCopy(copy, c) ==
    IF c \notin Here THEN copy = NoCharacter
    ELSE copy.id = c /\ Recent(copy.ver, c)
\* Page p shows of the source what is in the database, and for the character
\* that was chosen.
UpToDate(p) ==
    /\ p \in FromRows[source] => IF p \in DOMAIN CrossPages
                                 THEN \A c \in Characters : Recent(shown[p].rows[c], c)
                                 ELSE RecentCopy(shown[p].rows, chosen)
    /\ p \in FromCopy[source] => RecentCopy(shown[p].copy, chosen)

\* When nothing is running every page is up to date: whatever order the update
\* of a section, the choice of a character, deletions and additions came in.
\* A page may only be stale when it is one of the areas that are left out, when
\* there is no character that it was told of and it does not clear itself, when a read failed, or
\* when two refreshes of it (or of the current character) overlapped; and it may
\* lack what an update has written that failed afterwards.
PagesAreUpToDate ==
    AtRest => /\ \A p \in Relevant : \/ UpToDate(p)
                                     \/ {p, "current"} \cap excuse # {}
                                     \/ <<source, p>> \in Gaps
                                     \/ (chosen = None \/ \A c \in Characters : told[c] = None)
                                        /\ p \in KeepRows \cup KeepCopy
              /\ \/ opened = NoCharacter \/ RecentCopy(opened, opened.id)
                 \/ excuse \cap ({"current", "list"} \cup RelevantLists) # {}
                 \/ source \in ListGaps

\* The current character is the one that was chosen, and is still there, unless
\* a reload overlapped the choice or failed.
CurrentIsChosen ==
    AtRest => \/ current.id = chosen /\ chosen \in Here \cup {None}
              \/ "current" \in excuse

\* When nothing is running a list that the user has opened is of the character
\* that was chosen.
ListIsOfChosen ==
    AtRest /\ opened # NoCharacter => opened.id = chosen \/ excuse \cap {"current", "list"} # {}

\* The user's last choice wins, in the current character and in an opened list;
\* every variable keeps its type.
ChoiceIsFollowed == TypeOK /\ CurrentIsChosen /\ ListIsOfChosen
=============================================================================
