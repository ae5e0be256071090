---------------------------- MODULE CharacterData ----------------------------
(***************************************************************************)
(* What the updates of internal/app/characterservice do to the rows of a   *)
(* character: for each of the eighteen sections the order of its calls of  *)
(* ESI and its writes, what it does when one of them fails, and what goes  *)
(* on at the same time: desktop notifications about new rows, the user who *)
(* reads, deletes and sends mails, and the deletion of the character.      *)
(*                                                                         *)
(* A behaviour is about one section of one character.  SectionUpdate shows *)
(* that one update of it runs at a time.  A row is an item with a version; *)
(* its parts are the rows that belong to it: the items of a contract, the  *)
(* recipients and the labels of a mail, the pins of a planet, the title    *)
(* and the body that are rendered for a notification.                      *)
(***************************************************************************)
EXTENDS Integers, Sequences, FiniteSets, SequencesExt, FiniteSetsExt

CONSTANTS
    Items,      \* contracts, mails, planets, ... as ESI numbers them
    Notifiers,  \* goroutines that send desktop notifications
    Limit,      \* per section, the bounds of a run: the items and notifiers that take
                \* part, changes in the game and acts of the user, failed calls and
                \* ends of the process, and all of these together
    TwoLabels,  \* mails that have two labels
    Auctions    \* contracts that are auctions

ASSUME ItemAssumption == /\ IsFiniteSet(Items) /\ Items # {}
                         /\ TwoLabels \subseteq Items /\ Auctions \subseteq Items

\* One value that ESI always sends; rows that never change; rows that stay
\* when ESI no longer lists them; rows with parts.
Single == {"attributes", "location", "online", "ship", "wallet balance"}
Immutable == {"wallet journal", "wallet transactions", "mail lists"}
Keeping == Immutable \cup {"contracts", "mail labels", "mails", "notifications"}
Composed == {"contracts", "mails", "notifications", "planets"}
\* Sections whose data is, or is summed up, in the row of the character.
Columns == {"location", "online", "ship", "wallet balance"}
Summed == {"assets", "jump clones", "skills"}
Notifying == {"contracts", "mails", "notifications", "planets", "skill queue"}
CharacterSections ==
    Single \cup Keeping \cup Composed \cup Summed \cup Notifying \cup {"implants"}

\* Those of a run.
Sections == DOMAIN Limit
ASSUME BoundAssumption ==
    /\ Sections \subseteq CharacterSections
    /\ \A s \in Sections :
         /\ Limit[s].notifiers \subseteq Notifiers /\ Limit[s].items \subseteq Items
         /\ Limit[s].events \in Nat /\ Limit[s].faults \in Nat /\ Limit[s].all \in Nat

Versions == 1..2
NoRow == 0
One == CHOOSE i \in Items : TRUE
Nothing == [i \in Items |-> NoRow]
\* The two parts of a row, and whether they are there.
Pieces == 1..2
Whole(P) == {p[1] : p \in P} = Pieces
Each(S, Steps(_)) == LET s == SetToSeq(S) IN FlattenSeq([i \in 1..Len(s) |-> Steps(s[i])])

----------------------------------------------------------------------------
\* A step of a routine: what it does, to which item, with which version, and
\* what a failure does: end the routine, skip the item, or fail at the join.  A
\* step is a write together with the calls of ESI and of EveUniverseService that
\* come right before it: it fails when one of them does.
Do(op, i, v) == [op |-> op, item |-> i, v |-> v, onfail |-> "stop"]
Ask(i) == Do("ask", i, NoRow)   \* calls that fail in a way of their own
Tolerant(s, how) == [k \in 1..Len(s) |-> [s[k] EXCEPT !.onfail = how]]

\* Methods of the storage, as steps.
UpdateCharacterColumn(v) == Do("column", One, v)
UpdateOrCreateCharacterAttributes(v) == Do("upsert", One, v)
CreateCharacterAsset(i, v) == Do("create", i, v)
UpdateCharacterAsset(i, v) == Do("set", i, v)
DeleteCharacterAssets(S) == Do("delete", One, S)
UpdateCharacterHome(s) == Do("value", One, s)         \* and the last clone jump
UpdateCharacterSkillPoints(s) == Do("value", One, s)
UpdateAssetTotalValue == Do("value", One, Nothing)
CreateCharacterContract(i, v) == Do("create", i, v)
CreateCharacterContractItem(i, v, p) == Do("part", i, <<p, v>>)
UpdateCharacterContract(i, v) == Do("update", i, v)
CreateCharacterContractBid(i) == Do("bids", i, NoRow)  \* each that ESI has and is not stored
UpdateOrCreateCharacterMailLabel(i, v) == Do("upsert", i, v)
CreateCharacterMailList(i, v) == Do("upsert", i, v)
CreateCharacterMail(i, v) ==
    <<Do("create", i, v), Do("part", i, <<1, v>>), Do("label", i, <<2, v>>)>>
UpdateCharacterMail(i, v) == <<Do("update", i, v), Do("label", i, <<2, v>>)>>
CreateCharacterNotification(i, v) == Do("create", i, v)
GetCharacterNotification(i) == Do("get", i, NoRow)
UpdateCharacterNotification(i, v) == Do("update", i, v)
DeleteCharacterPlanet(S) == Do("delete", One, S)
UpdateOrCreateCharacterPlanet(i, v) == Do("upsert", i, v)
DeletePlanetPins(i) == Do("clear", i, NoRow)
CreatePlanetPin(i, v, p) == Do("part", i, <<p, v>>)
UpdateOrCreateCharacterSkill(i, v) == Do("upsert", i, v)
DeleteCharacterSkills(S) == Do("delete", One, S)
CreateCharacterWalletJournalEntry(i, v) == Do("create", i, v)
CreateCharacterWalletTransaction(i, v) == Do("create", i, v)
ReplaceCharacterJumpClones(s) == Do("replace", One, s)
ReplaceCharacterImplants(s) == Do("replace", One, s)
ReplaceCharacterSkillqueueItems(s) == Do("replace", One, s)

----------------------------------------------------------------------------
\* The update routines: s is what ESI has sent, have the items whose rows
\* were listed before.
Sent(s) == {i \in Items : s[i] # NoRow}
New(s, have) == Sent(s) \ have
Old(s, have) == Sent(s) \cap have

updateLocationESI(s) == <<UpdateCharacterColumn(s[One])>>
updateOnlineESI(s) == <<UpdateCharacterColumn(s[One])>>
updateShipESI(s) == <<UpdateCharacterColumn(s[One])>>
updateWalletBalanceESI(s) == <<UpdateCharacterColumn(s[One])>>
updateAttributesESI(s) == <<UpdateOrCreateCharacterAttributes(s[One])>>
updateImplantsESI(s) == <<ReplaceCharacterImplants(s)>>
updateJumpClonesESI(s) == <<UpdateCharacterHome(s), ReplaceCharacterJumpClones(s)>>
UpdateSkillqueueESI(s) == <<ReplaceCharacterSkillqueueItems(s)>>

updateSkillsESI(s, have) ==
    <<UpdateCharacterSkillPoints(s)>>
    \o Each(Sent(s), LAMBDA i : <<UpdateOrCreateCharacterSkill(i, s[i])>>)
    \o <<DeleteCharacterSkills(have \ Sent(s))>>
updateAssetsESI(s, have) ==
    Each(New(s, have), LAMBDA i : <<CreateCharacterAsset(i, s[i])>>)
    \o Each(Old(s, have), LAMBDA i : <<UpdateCharacterAsset(i, s[i])>>)
    \o <<UpdateAssetTotalValue, DeleteCharacterAssets(have \ Sent(s))>>
\* Mutant: obsolete planets stay.
updatePlanetsKeeping(s, have) ==
    Each(Sent(s), LAMBDA i :
           <<UpdateOrCreateCharacterPlanet(i, s[i]), DeletePlanetPins(i),
             CreatePlanetPin(i, s[i], 1), CreatePlanetPin(i, s[i], 2)>>)
updatePlanetsESI(s, have) ==
    <<DeleteCharacterPlanet(have \ Sent(s))>>
    \o Each(Sent(s), LAMBDA i :
           <<UpdateOrCreateCharacterPlanet(i, s[i]), DeletePlanetPins(i),
             CreatePlanetPin(i, s[i], 1), CreatePlanetPin(i, s[i], 2)>>)

\* Rows are only added.
updateWalletJournalEntryESI(s, have) ==
    Each(New(s, have), LAMBDA i : <<CreateCharacterWalletJournalEntry(i, s[i])>>)
updateWalletTransactionESI(s, have) ==
    Each(New(s, have), LAMBDA i :
           Tolerant(<<Ask(i)>>, "skip") \o <<CreateCharacterWalletTransaction(i, s[i])>>)
updateMailLabelsESI(s) == Each(Sent(s), LAMBDA i : <<UpdateOrCreateCharacterMailLabel(i, s[i])>>)
updateMailListsESI(s) == Each(Sent(s), LAMBDA i : <<CreateCharacterMailList(i, s[i])>>)
updateNotificationsESI(s, have) ==
    Each(Old(s, have), LAMBDA i :
           Tolerant(<<GetCharacterNotification(i)>>, "skip")
           \o <<UpdateCharacterNotification(i, s[i])>>)
    \o Each(New(s, have), LAMBDA i : <<CreateCharacterNotification(i, s[i])>>)

\* A contract that fails is logged and skipped, and so are the bids of an auction.
createNewContract(i, v) ==
    <<CreateCharacterContract(i, v),
      CreateCharacterContractItem(i, v, 1), CreateCharacterContractItem(i, v, 2)>>
updateContract(i, v) == <<UpdateCharacterContract(i, v)>>
updateContractBids(i) == <<CreateCharacterContractBid(i)>>
updateContractsESI(s, have) ==
    Each(New(s, have), LAMBDA i : Tolerant(createNewContract(i, s[i]), "skip"))
    \o Each(Old(s, have), LAMBDA i : Tolerant(updateContract(i, s[i]), "skip"))
    \o Each(Sent(s) \cap Auctions, LAMBDA i : Tolerant(updateContractBids(i), "skip"))

\* New mails are fetched in an errgroup: one that fails does not stop the
\* others, but the update.
fetchAndStoreMail(i, v) == CreateCharacterMail(i, v)
updateExistingMail(i, v) == <<Do("compare", i, v)>> \o UpdateCharacterMail(i, v)
updateMailsESI(s, have) ==
    Each(New(s, have), LAMBDA i : Tolerant(fetchAndStoreMail(i, s[i]), "join"))
    \o <<Do("join", One, NoRow)>>
    \o Each(Old(s, have), LAMBDA i : updateExistingMail(i, s[i]))

Program(section, s, have) ==
    CASE section = "assets" -> updateAssetsESI(s, have)
      [] section = "attributes" -> updateAttributesESI(s)
      [] section = "contracts" -> updateContractsESI(s, have)
      [] section = "implants" -> updateImplantsESI(s)
      [] section = "jump clones" -> updateJumpClonesESI(s)
      [] section = "location" -> updateLocationESI(s)
      [] section = "mail labels" -> updateMailLabelsESI(s)
      [] section = "mail lists" -> updateMailListsESI(s)
      [] section = "mails" -> updateMailsESI(s, have)
      [] section = "notifications" -> updateNotificationsESI(s, have)
      [] section = "online" -> updateOnlineESI(s)
      [] section = "planets" -> updatePlanetsESI(s, have)
      [] section = "ship" -> updateShipESI(s)
      [] section = "skill queue" -> UpdateSkillqueueESI(s)
      [] section = "skills" -> updateSkillsESI(s, have)
      [] section = "wallet balance" -> updateWalletBalanceESI(s)
      [] section = "wallet journal" -> updateWalletJournalEntryESI(s, have)
      [] section = "wallet transactions" -> updateWalletTransactionESI(s, have)

----------------------------------------------------------------------------
VARIABLES
    section,
    sent,      \* what ESI has, as versions
    offers,    \* how many bids ESI has of each auction
    character, \* whether the character is in the database
    stored,    \* the rows, as versions
    parts,     \* the parts of each row
    bids,      \* how many of its bids are stored
    total,     \* of Summed sections: what the sums in the row of the character are of
    known,     \* whether the labels of the mails have been stored
    hash,      \* what the recorded hash is of; <<>> when there is none
    at,        \* the updater: "idle", "fetch", "list", "work" or "same"
    snap,      \* what it has fetched
    todo,      \* the steps left to the updater and to the user
    broken,    \* a mail of its errgroup has failed
    notifier,  \* per notifier: what is left of its list, whether the first was told
    marked,    \* what is marked as notified
    faults, events,
    cut,       \* history: items given up, stored without text or deleted by the user, until
               \* stored anew
    unbid,     \* history: auctions whose bids were given up, until fetched again
    asked,     \* history: how many bids ESI had when the list with the auction was applied
    torn,      \* history: "yes" when an update ended in the middle, or the character was
               \* added again, and no update has stored the data since; "lost" when the
               \* character was deleted or added again in the middle of it
    told,      \* history: what the user was told last of each row that is there
    excused    \* history: items that two notifiers had listed at a time, that could not be
               \* marked as told, or that were listed while their pins were replaced

vars == <<section, sent, offers, character, stored, parts, bids, total, known, hash, at, snap, todo,
          broken, notifier, marked, faults, events, cut, unbid, asked, torn, told, excused>>
database == <<character, stored, parts, bids, total, hash, known, marked>>
esi == <<section, sent, offers>>
history == <<cut, unbid, asked, torn, told, excused>>
Idle == [list |-> <<>>, told |-> FALSE]
Workers == {"updater", "user"}

TypeOK ==
    /\ section \in Sections
    /\ sent \in [Items -> {NoRow} \cup Versions]
    /\ stored \in [Items -> {NoRow} \cup Versions]
    /\ \A i \in Items : stored[i] = NoRow => parts[i] = {} /\ bids[i] = 0 /\ marked[i] \in {0, 1}
    /\ \A i \in Items : bids[i] \in 0..offers[i] /\ asked[i] \in 0..offers[i]
    /\ at \in {"idle", "fetch", "list", "work", "same"}
    /\ at # "work" => todo["updater"] = <<>> /\ ~broken
    /\ ~character => stored = Nothing /\ hash = <<>>
    /\ \A n \in Notifiers : notifier[n].told => notifier[n].list # <<>>
    /\ faults \in 0..Limit[section].faults /\ events \in 0..Limit[section].events

Init ==
    /\ section \in Sections
    /\ sent \in {s \in [Items -> {NoRow, 1}] : Sent(s) \subseteq Limit[section].items}
    /\ section \in Single => sent = [Nothing EXCEPT ![One] = 1]
    /\ offers \in [Items -> 0..1]
    /\ \A i \in Items : offers[i] # 0 => section = "contracts" /\ i \in Auctions \cap Sent(sent)
    /\ character = TRUE /\ stored = Nothing /\ parts = [i \in Items |-> {}] /\ total = Nothing
    /\ bids = [i \in Items |-> 0] /\ unbid = {} /\ asked = [i \in Items |-> 0]
    /\ known = (section # "mails") /\ hash = <<>> /\ at = "idle" /\ snap = Nothing
    /\ todo = [w \in Workers |-> <<>>] /\ broken = FALSE
    /\ notifier = [n \in Notifiers |-> Idle]
    /\ marked = [i \in Items |-> IF section = "skill queue" THEN 1 ELSE 0]
    /\ faults = 0 /\ events = 0 /\ cut = {} /\ torn = "no" /\ told = {} /\ excused = {}

----------------------------------------------------------------------------
\* A call fails or the process ends.
Fault == /\ faults < Limit[section].faults /\ faults + events < Limit[section].all
         /\ faults' = faults + 1

\* The updater.
Begin ==
    /\ at = "idle" /\ character
    /\ at' = "fetch"
    /\ UNCHANGED <<esi, database, snap, todo, broken, notifier, faults, events, history>>

\* Nothing is stored when the hash is the recorded one, unless forced.
Fetch(force) ==
    /\ at = "fetch"
    /\ snap' = sent
    /\ at' = IF sent = hash /\ ~force THEN "same" ELSE "list"
    /\ UNCHANGED <<esi, database, todo, broken, notifier, faults, events, history>>

List ==
    /\ at = "list"
    /\ at' = "work"
    /\ todo' = [todo EXCEPT !["updater"] =
                  Program(section, snap, {i \in Items : stored[i] # NoRow})]
    /\ asked' = [i \in Items |-> IF i \in Sent(snap) THEN offers[i] ELSE asked[i]]
    /\ UNCHANGED <<esi, database, snap, broken, notifier, faults, events, cut, unbid, torn, told,
                   excused>>

\* Mutant: the value of the assets is not computed again at the end.
CompleteUnvalued(valued) ==
    /\ at \in {"work", "same"} /\ todo["updater"] = <<>>
    /\ at' = "idle"
    /\ hash' = IF character THEN snap ELSE hash
    /\ UNCHANGED total
    /\ IF valued THEN UNCHANGED faults ELSE Fault
    /\ torn' = IF torn = "lost" THEN "yes" ELSE IF at = "same" THEN torn ELSE "no"
    /\ UNCHANGED <<esi, character, stored, parts, bids, known, marked, snap, todo, broken,
                   notifier, events, cut, unbid, asked, told, excused>>

\* The status is recorded after the last step; the value of the assets is
\* computed once more, and a failure of that is only logged.
Complete(valued) ==
    /\ at \in {"work", "same"} /\ todo["updater"] = <<>>
    /\ at' = "idle"
    /\ hash' = IF character THEN snap ELSE hash
    /\ total' = IF section = "assets" /\ valued THEN stored ELSE total
    /\ IF valued THEN UNCHANGED faults ELSE Fault
    /\ torn' = IF torn = "lost" THEN "yes" ELSE IF at = "same" THEN torn ELSE "no"
    /\ UNCHANGED <<esi, character, stored, parts, bids, known, marked, snap, todo, broken,
                   notifier, events, cut, unbid, asked, told, excused>>

----------------------------------------------------------------------------
\* A step of the updater or of the user.
Now(w) == Head(todo[w])
Here(i) == stored[i] # NoRow
\* Whether it fails for good: UNIQUE, FOREIGN KEY, no such row, not at ESI.
Refused(s) ==
    CASE s.op = "create" -> ~character \/ Here(s.item)
      [] s.op = "upsert" -> ~character
      [] s.op \in {"get", "update", "part", "compare", "bids"} -> ~Here(s.item)
      [] s.op = "label" -> ~Here(s.item) \/ ~known
      [] s.op = "replace" -> ~character /\ s.v # Nothing
      [] s.op = "join" -> broken
      [] s.op = "put" -> sent[s.item] = NoRow
      [] OTHER -> FALSE
\* A mail that is read, or not, as before is left alone.
Same(s) == s.op = "compare" /\ stored[s.item] = s.v

\* The rows, their parts and the mails at ESI after a step.
Rows(s) ==
    CASE s.op \in {"create", "upsert", "update"} -> [stored EXCEPT ![s.item] = s.v]
      [] s.op = "set" -> [stored EXCEPT ![s.item] = IF Here(s.item) THEN s.v ELSE NoRow]
      [] s.op = "column" -> [stored EXCEPT ![s.item] = IF character THEN s.v ELSE NoRow]
      [] s.op = "delete" -> [i \in Items |-> IF i \in s.v THEN NoRow ELSE stored[i]]
      [] s.op = "replace" -> s.v
      [] OTHER -> stored
Renders(s) == section = "notifications" /\ s.op \in {"create", "update"}
Parts(s) ==
    CASE s.op \in {"part", "label"} -> [parts EXCEPT ![s.item] = {p \in @ : p[1] # s.v[1]} \cup {s.v}]
      [] s.op = "clear" -> [parts EXCEPT ![s.item] = {}]
      [] Renders(s) -> [parts EXCEPT ![s.item] = {<<p, s.v>> : p \in Pieces}]
      [] s.op = "delete" -> [i \in Items |-> IF i \in s.v THEN {} ELSE parts[i]]
      [] OTHER -> parts
\* Bids are fetched when they are stored.
Bids(s) == IF s.op = "bids" THEN [bids EXCEPT ![s.item] = offers[s.item]] ELSE bids
Sum(s) == CASE ~character -> Nothing [] section = "assets" -> stored [] OTHER -> s.v
AtEsi(s) == IF s.op \in {"post", "put", "remove"} THEN [sent EXCEPT ![s.item] = s.v] ELSE sent
\* What is left to do without the steps of the item at hand; its bids come later.
Without(w) ==
    LET s == todo[w]
        k == {n \in 2..Len(s) :
                 \A m \in 2..n : s[m].item = s[1].item /\ s[m].op \notin {"join", "bids"}}
    IN SubSeq(s, Cardinality(k) + 2, Len(s))

\* Who has listed an item.  Marks go by the key of the row, for planets by the
\* number of the planet: a row made later is not the one that was listed.
Listing(i) == {n \in Notifiers : \E k \in 1..Len(notifier[n].list) : notifier[n].list[k][1] = i}
Forget(S) ==
    /\ told' = {x \in told : x[1] \notin S}
    /\ excused' = excused \cup {i \in S : Listing(i) # {}}
    /\ notifier' = IF section \in {"planets", "skill queue"} THEN notifier
                   ELSE [n \in Notifiers |-> [notifier[n] EXCEPT !.list =
                           [k \in 1..Len(@) |-> IF @[k][1] \in S THEN <<@[k][1], NoRow>> ELSE @[k]]]]

\* Mutant: rows are made again, and with them what was marked.
WorkAnew(w) ==
    /\ todo[w] # <<>>
    /\ ~Refused(Now(w))
    /\ todo' = [todo EXCEPT ![w] = IF Same(Now(w)) THEN Without(w) ELSE Tail(@)]
    /\ stored' = Rows(Now(w)) /\ parts' = Parts(Now(w)) /\ bids' = Bids(Now(w))
    /\ sent' = AtEsi(Now(w))
    /\ total' = IF Now(w).op = "value" THEN Sum(Now(w)) ELSE total
    /\ marked' = IF Now(w).op \in {"update", "upsert"} THEN [marked EXCEPT ![Now(w).item] = 0] ELSE marked
    /\ IF Now(w).op = "delete" THEN Forget(Now(w).v) ELSE UNCHANGED <<notifier, told, excused>>
    /\ cut' = CASE Now(w).op = "create" \/ Renders(Now(w)) -> cut \ {Now(w).item}
                [] Now(w).op = "remove" -> cut \cup {Now(w).item}
                [] OTHER -> cut
    /\ unbid' = IF Now(w).op = "bids" THEN unbid \ {Now(w).item} ELSE unbid
    /\ UNCHANGED <<section, offers, character, known, hash, at, snap, broken, faults, events, asked,
                   torn>>

Work(w) ==
    /\ todo[w] # <<>>
    /\ ~Refused(Now(w))
    /\ todo' = [todo EXCEPT ![w] = IF Same(Now(w)) THEN Without(w) ELSE Tail(@)]
    /\ stored' = Rows(Now(w)) /\ parts' = Parts(Now(w)) /\ bids' = Bids(Now(w))
    /\ sent' = AtEsi(Now(w))
    /\ total' = IF Now(w).op = "value" THEN Sum(Now(w)) ELSE total
    /\ marked' = IF Now(w).op = "delete" THEN [i \in Items |-> IF i \in Now(w).v THEN 0 ELSE marked[i]]
                 ELSE marked
    /\ IF Now(w).op = "delete" THEN Forget(Now(w).v) ELSE UNCHANGED <<notifier, told, excused>>
    /\ cut' = CASE Now(w).op = "create" \/ Renders(Now(w)) -> cut \ {Now(w).item}
                [] Now(w).op = "remove" -> cut \cup {Now(w).item}
                [] OTHER -> cut
    /\ unbid' = IF Now(w).op = "bids" THEN unbid \ {Now(w).item} ELSE unbid
    /\ UNCHANGED <<section, offers, character, known, hash, at, snap, broken, faults, events, asked,
                   torn>>

\* A notification that cannot be rendered is stored without title and body; one
\* that had them loses them.
RenderFails ==
    /\ todo["updater"] # <<>>
    /\ Fault
    /\ LET s == Now("updater")
       IN /\ Renders(s) /\ ~Refused(s)
          /\ stored' = Rows(s) /\ parts' = [parts EXCEPT ![s.item] = {}] /\ cut' = cut \cup {s.item}
    /\ todo' = [todo EXCEPT !["updater"] = Tail(@)]
    /\ UNCHANGED <<esi, character, bids, total, known, hash, marked, at, snap, broken, notifier,
                   events, unbid, asked, torn, told, excused>>

\* The items that steps write the rows or parts of.
Touched(s) == {x.item : x \in {y \in Range(s) : y.op # "bids"}}
\* Bids may have been stored before the one that fails.
SomeBids(i, b) == b = bids[i] \/ (Here(i) /\ b \in bids[i] .. offers[i] - 1)

\* The step fails; what that means for the rest of the routine.
Fails(w) ==
    LET skips == todo[w] # <<>> /\ Now(w).onfail \in {"skip", "join"}
        rest == IF skips THEN Without(w) ELSE <<>>
        gone == SubSeq(todo[w], 1, Len(todo[w]) - Len(rest))
    IN /\ todo' = [todo EXCEPT ![w] = rest]
       /\ broken' = IF w = "updater" THEN skips /\ (broken \/ Now(w).onfail = "join") ELSE broken
       /\ at' = IF w = "updater" /\ ~skips THEN "idle" ELSE at
       /\ torn' = IF w = "updater" /\ ~skips /\ at = "work" THEN "yes" ELSE torn
       /\ cut' = IF skips \/ w = "user" \/ section = "mails" THEN cut \cup Touched(gone) ELSE cut
       /\ unbid' = IF skips /\ Now(w).op = "bids" THEN unbid \cup {Now(w).item} ELSE unbid
       /\ UNCHANGED <<esi, character, stored, parts, total, hash, known, marked, snap, notifier,
                      events, asked, told, excused>>
Refuse(w) ==
    /\ todo[w] # <<>>
    /\ Refused(Now(w))
    /\ Fails(w)
    /\ UNCHANGED <<bids, faults>>
Fail(w) ==
    /\ Fault
    /\ todo[w] # <<>> \/ (w = "updater" /\ at \in {"fetch", "list"})
    /\ Fails(w)
    /\ IF todo[w] # <<>> /\ Now(w).op = "bids"
       THEN \E b \in 0..offers[Now(w).item] :
              SomeBids(Now(w).item, b) /\ bids' = [bids EXCEPT ![Now(w).item] = b]
       ELSE UNCHANGED bids

----------------------------------------------------------------------------
\* The user's acts on mails, and on the character.
Act == /\ events < Limit[section].events /\ faults + events < Limit[section].all
       /\ events' = events + 1
Routine(s) == /\ section = "mails" /\ character /\ todo["user"] = <<>>
              /\ todo' = [todo EXCEPT !["user"] = s]
              /\ UNCHANGED <<esi, database, at, snap, broken, notifier, faults, history>>
UpdateMailRead(i) ==
    /\ stored[i] = 1
    /\ Act
    /\ Routine(<<Do("get", i, NoRow), Do("put", i, 2)>> \o UpdateCharacterMail(i, 2))
DeleteMail(i) ==
    /\ Here(i)
    /\ Act
    /\ Routine(<<Do("remove", i, NoRow), Do("delete", i, {i})>>)
SendMail(i) ==
    /\ sent[i] = NoRow /\ ~Here(i) /\ i \in Limit[section].items
    /\ Act
    /\ Routine(<<Do("post", i, 2), Do("create", i, 2),
                 Do("part", i, <<1, 2>>), Do("part", i, <<2, 2>>)>>)

DeleteCharacter ==
    /\ character /\ todo["user"] = <<>>
    /\ Act
    /\ character' = FALSE
    /\ stored' = Nothing /\ parts' = [i \in Items |-> {}] /\ total' = Nothing
    /\ bids' = [i \in Items |-> 0]
    /\ marked' = [i \in Items |-> IF section = "skill queue" THEN 1 ELSE 0]
    /\ known' = (section # "mails") /\ hash' = <<>>
    /\ Forget(Items) /\ cut' = {} /\ unbid' = {} /\ UNCHANGED asked
    /\ torn' = IF at = "idle" THEN "no" ELSE "lost"
    /\ UNCHANGED <<esi, at, snap, todo, broken, faults>>
\* Adding a character that is there already empties the columns of its row; the
\* recorded hashes stay.
UpdateOrCreateCharacterFromSSO ==
    /\ character' = TRUE
    /\ IF character THEN Act ELSE UNCHANGED events
    /\ stored' = IF section \in Columns THEN Nothing ELSE stored
    /\ total' = Nothing
    /\ marked' = IF section = "skill queue" THEN [i \in Items |-> 1] ELSE marked
    /\ torn' = CASE section \notin Columns \cup Summed \/ ~character -> torn
                 [] at \in {"work", "same"} -> "lost"
                 [] OTHER -> "yes"
    /\ UNCHANGED <<esi, parts, bids, known, hash, at, snap, todo, broken, notifier, faults,
                   cut, unbid, asked, told, excused>>

\* The update of another section has stored the labels.
LabelsArrive ==
    /\ ~known /\ character
    /\ known' = TRUE
    /\ UNCHANGED <<esi, character, stored, parts, bids, total, hash, marked, at, snap, todo,
                   broken, notifier, faults, events, history>>

\* Something changes in the game.
Change(i, v) ==
    /\ Act
    /\ v # sent[i] /\ i \in Limit[section].items
    /\ section \in Single => i = One /\ v # NoRow
    /\ section \in Immutable => v # 2
    /\ sent' = [sent EXCEPT ![i] = v]
    /\ UNCHANGED <<section, offers, database, at, snap, todo, broken, notifier, faults, history>>
\* Somebody bids; the contract in the list stays as it is.
Bid(i) ==
    /\ section = "contracts" /\ i \in Auctions /\ sent[i] # NoRow
    /\ Act
    /\ offers' = [offers EXCEPT ![i] = @ + 1]
    /\ UNCHANGED <<section, sent, database, at, snap, todo, broken, notifier, faults, history>>

----------------------------------------------------------------------------
\* Desktop notifications: list what is new, then tell and mark one by one.
\* The pins of a planet stop extracting at times of their own; a planet's
\* extraction is over with the latest of those that are stored.
Ends(p) == 2 * (p[2] - 1) + p[1]
ExtractionsExpiryTime(i) == Max({Ends(p) : p \in parts[i]} \cup {0})
ListCharacterContractsForNotify == {j \in Items : stored[j] = 2 /\ marked[j] # 2}
\* What each notifier would tell now: the item, and what it will be marked with.
NotifyUpdatedContracts == {<<i, 2>> : i \in ListCharacterContractsForNotify}
NotifyMails == {<<i, 1>> : i \in {j \in Items : Here(j) /\ marked[j] = 0}}
NotifyCommunications == {<<i, 1>> : i \in {j \in Items : Here(j) /\ marked[j] = 0}}
NotifyExpiredExtractions ==
    {<<i, ExtractionsExpiryTime(i)>> :
        i \in {j \in Items : ExtractionsExpiryTime(j) \notin {0, marked[j]}}}
NotifyExpiredTraining == {<<i, 1>> : i \in {j \in {One} : stored = Nothing /\ marked[j] = 0}}
Due == CASE section = "contracts" -> NotifyUpdatedContracts
         [] section = "mails" -> NotifyMails
         [] section = "notifications" -> NotifyCommunications
         [] section = "planets" -> NotifyExpiredExtractions
         [] section = "skill queue" -> NotifyExpiredTraining
         [] OTHER -> {}
\* One row for each label of a mail.
Listed(S) == Each(S, LAMBDA x : IF section = "mails" /\ x[1] \in TwoLabels THEN <<x, x>> ELSE <<x>>)

\* For planets: those whose extraction is over by now.
StartNotify(n, S) ==
    /\ n \in Limit[section].notifiers /\ notifier[n] = Idle
    /\ S # {} /\ (section # "planets" => S = Due)
    /\ notifier' = [notifier EXCEPT ![n].list = Listed(S)]
    /\ excused' = excused \cup {i \in {x[1] : x \in S} :
                     Listing(i) # {} \/ (section = "planets" /\ ~Whole(parts[i]))}
    /\ UNCHANGED <<esi, database, at, snap, todo, broken, faults, events, cut, unbid, asked, torn,
                   told>>
Notify(n) ==
    /\ notifier[n].list # <<>> /\ ~notifier[n].told
    /\ notifier' = [notifier EXCEPT ![n].told = TRUE]
    /\ LET x == Head(notifier[n].list)
       IN told' = IF x[2] = NoRow THEN told ELSE {y \in told : y[1] # x[1]} \cup {x}
    /\ UNCHANGED <<esi, database, at, snap, todo, broken, faults, events, cut, unbid, asked, torn,
                   excused>>
\* Mutant: what is marked is what is stored by then.
MarkCurrent(n) ==
    /\ notifier[n].told
    /\ LET x == Head(notifier[n].list)
       IN marked' = IF Here(x[1]) \/ section = "skill queue"
                    THEN [marked EXCEPT ![x[1]] = IF section = "contracts" THEN 2 ELSE 0] ELSE marked
    /\ notifier' = [notifier EXCEPT ![n] = [list |-> Tail(@.list), told |-> FALSE]]
    /\ UNCHANGED <<esi, character, stored, parts, bids, total, hash, known, at, snap, todo,
                   broken, faults, events, history>>
Mark(n) ==
    /\ notifier[n].told
    /\ LET x == Head(notifier[n].list)
       IN marked' = IF x[2] # NoRow /\ (Here(x[1]) \/ section = "skill queue")
                    THEN [marked EXCEPT ![x[1]] = x[2]] ELSE marked
    /\ notifier' = [notifier EXCEPT ![n] = [list |-> Tail(@.list), told |-> FALSE]]
    /\ UNCHANGED <<esi, character, stored, parts, bids, total, hash, known, at, snap, todo,
                   broken, faults, events, history>>
FailMark(n) ==
    /\ notifier[n].told
    /\ Fault
    /\ excused' = excused \cup {Head(notifier[n].list)[1]}
    /\ notifier' = [notifier EXCEPT ![n] = Idle]
    /\ UNCHANGED <<esi, database, at, snap, todo, broken, events, cut, unbid, asked, torn, told>>

\* The watcher is switched on again once something is trained.
EnableTrainingWatcher ==
    /\ section = "skill queue" /\ at = "idle" /\ character
    /\ marked[One] = 1 /\ stored # Nothing
    /\ marked' = [marked EXCEPT ![One] = 0]
    /\ Forget({One})
    /\ UNCHANGED <<esi, character, stored, parts, bids, total, hash, known, at, snap, todo,
                   broken, faults, events, cut, unbid, asked, torn>>

\* The process ends and is started again: only the database is left.
Restart ==
    /\ Fault
    /\ at' = "idle" /\ broken' = FALSE
    /\ todo' = [w \in Workers |-> <<>>]
    /\ notifier' = [n \in Notifiers |-> Idle]
    /\ torn' = IF at = "work" THEN "yes" ELSE torn
    /\ cut' = IF section \in {"contracts", "mails"}
              THEN cut \cup UNION {Touched(todo[w]) : w \in Workers} ELSE cut
    /\ excused' = excused \cup {Head(notifier[n].list)[1] : n \in {m \in Notifiers : notifier[m].told}}
    /\ UNCHANGED <<esi, database, snap, events, unbid, asked, told>>

Update == \/ Begin \/ List \/ (\E force \in BOOLEAN : Fetch(force)) \/ Complete(TRUE)
          \/ Work("updater") \/ Refuse("updater")
User == Work("user") \/ Refuse("user")
Notification(n) == (\E S \in SUBSET Due : StartNotify(n, S)) \/ Notify(n) \/ Mark(n)
Failure == \/ (\E w \in Workers : Fail(w)) \/ (\E n \in Notifiers : FailMark(n)) \/ Restart
           \/ RenderFails \/ (section = "assets" /\ Complete(FALSE))
Event == \/ \E i \in Items : UpdateMailRead(i) \/ DeleteMail(i) \/ SendMail(i)
         \/ \E i \in Items, v \in {NoRow} \cup Versions : Change(i, v)
         \/ \E i \in Items : Bid(i)
         \/ DeleteCharacter \/ UpdateOrCreateCharacterFromSSO
Next == \/ Update \/ User \/ (\E n \in Notifiers : Notification(n)) \/ EnableTrainingWatcher
        \/ LabelsArrive \/ Failure \/ Event

\* The ticker updates again and again and starts the notifiers; goroutines are
\* scheduled and calls come back.
Spec == /\ Init /\ [][Next]_vars /\ WF_vars(Update) /\ WF_vars(User) /\ WF_vars(LabelsArrive)
        /\ WF_vars(\E n \in Notifiers : Notification(n))

----------------------------------------------------------------------------
\* The row of an item is what ESI sent, with all its parts, and an auction has the
\* bids there were.  A mail that the user has read since is read.
Right(i, v) ==
    IF v = NoRow THEN ~Here(i) \/ section \in Keeping
    ELSE /\ \/ i \in cut
            \/ /\ stored[i] = v \/ (section = "mails" /\ stored[i] = 2)
               /\ section \in Composed => Whole(parts[i])
         /\ i \in unbid \/ bids[i] >= asked[i]

\* When an update has recorded its hash, the rows and the sums in the row of
\* the character are what ESI sent when it was fetched; an item is wrong only
\* when it was given up, or stored without its text, after a failure, and all are
\* only when the character was deleted or added again meanwhile.
RowsAreRight ==
    (at = "idle" /\ character /\ hash # <<>> /\ torn = "no" /\ todo["user"] = <<>>)
        => /\ \A i \in Items : Right(i, hash[i])
           /\ section \in Summed \ {"assets"} => total = hash

\* ... while every variable keeps its type.
HashStandsForRows == TypeOK /\ RowsAreRight

\* The user is told twice running the same of an item only when two notifiers had
\* listed it, when the mark was lost, when the pins of the planet were being
\* replaced or, for a mail, when it has two labels.
TellsOnce ==
    [][\A n \in Notifiers : (~notifier[n].told /\ notifier'[n].told) =>
          LET x == Head(notifier[n].list)
          IN x \in told => x[1] \in excused \/ (section = "mails" /\ x[1] \in TwoLabels)]_vars

\* Every update ends, and when nothing more changes the rows and sums after it are
\* what ESI has: unless an update that failed in the middle was followed by ESI
\* going back to what the hash is of, or the character was added again and ESI has
\* not changed since.  The value of the assets is that of the rows in any case.
RowsConverge ==
    /\ []<>(at = "idle")
    /\ <>[](character /\ at = "idle" =>
              /\ \/ torn # "no" /\ hash = sent
                 \/ /\ \A i \in Items : Right(i, sent[i])
                    /\ section \in Summed \ {"assets"} => total = sent
              /\ section = "assets" => total = stored)

\* Whatever the user is to be told is told and marked in the end.
NewsIsTold == section \in Notifying \ {"planets"} => []<>(Due = {})
=============================================================================
