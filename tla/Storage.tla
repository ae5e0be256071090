------------------------------- MODULE Storage --------------------------------
(***************************************************************************)
(* The methods of internal/app/storage that execute queries: each is the   *)
(* set of the queries that it, and the methods it calls, may execute.      *)
(***************************************************************************)
Q == INSTANCE Queries

\* characternotification.go
CountCharacterNotifications == {Q!CountCharacterNotifications}
GetCharacterNotification == {Q!GetCharacterNotification}
GetOrCreateNotificationType == {Q!GetNotificationTypeID, Q!CreateNotificationType}
CreateCharacterNotification ==
    {Q!CreateCharacterNotification} \cup GetOrCreateNotificationType
ListCharacterNotificationIDs == {Q!ListCharacterNotificationIDs}
ListCharacterNotificationsTypes == {Q!ListCharacterNotificationsTypes}
ListCharacterNotificationsAll == {Q!ListCharacterNotificationsAll}
ListCharacterNotificationsUnread == {Q!ListCharacterNotificationsUnread}
ListCharacterNotificationsUnprocessed == {Q!ListCharacterNotificationsUnprocessed}
UpdateCharacterNotification == {Q!UpdateCharacterNotification}
UpdateCharacterNotificationSetProcessed == {Q!UpdateCharacterNotificationSetProcessed}

\* characterasset.go
CreateCharacterAsset == {Q!CreateCharacterAsset}
DeleteCharacterAssets == {Q!DeleteCharacterAssets}
CalculateCharacterAssetTotalValue == {Q!CalculateCharacterAssetTotalValue}
ListCharacterAssetIDs == {Q!ListCharacterAssetIDs}
ListCharacterAssetsInShipHangar == {Q!ListCharacterAssetsInShipHangar}
ListCharacterAssetsInItemHangar == {Q!ListCharacterAssetsInItemHangar}
ListCharacterAssetsInLocation == {Q!ListCharacterAssetsInLocation}
UpdateCharacterAsset == {Q!UpdateCharacterAsset}
ListAllCharacterAssets == {Q!ListAllCharacterAssets}
ListCharacterAssets == {Q!ListCharacterAssets}

\* charactercontract.go
CreateCharacterContract == {Q!CreateCharacterContract}
GetCharacterContract == {Q!GetCharacterContract}
ListCharacterContractIDs == {Q!ListCharacterContractIDs}
ListCharacterContracts == {Q!ListCharacterContracts}
ListCharacterContractsForNotify == {Q!ListCharacterContractsForNotify}
UpdateCharacterContract == {Q!UpdateCharacterContract}
UpdateCharacterContractNotified == {Q!UpdateCharacterContractNotified}

\* characterskill.go
DeleteCharacterSkills == {Q!DeleteCharacterSkills}
GetCharacterSkill == {Q!GetCharacterSkill}
ListCharacterSkillIDs == {Q!ListCharacterSkillIDs}
ListCharacterSkillProgress == {Q!ListCharacterSkillProgress}
ListCharacterSkillGroupsProgress == {Q!ListCharacterSkillGroupsProgress}
UpdateOrCreateCharacterSkill == {Q!UpdateOrCreateCharacterSkill}

\* eveentity.go
GetOrCreateEveEntity == {Q!GetEveEntity, Q!CreateEveEntity}
GetEveEntity == {Q!GetEveEntity}
ListEveEntityIDs == {Q!ListEveEntityIDs}
ListEveEntitiesForIDs == {Q!ListEveEntitiesForIDs}
MissingEveEntityIDs == ListEveEntityIDs
UpdateOrCreateEveEntity == {Q!UpdateOrCreateEveEntity}

\* charactermail.go
updateCharacterMailLabels ==
    {Q!DeleteMailCharacterMailLabels, Q!GetCharacterMailLabel,
     Q!CreateMailCharacterMailLabel}
CreateCharacterMail ==
    {Q!CreateMail, Q!CreateMailRecipient} \cup GetEveEntity
      \cup updateCharacterMailLabels
GetCharacterMail == {Q!GetMail, Q!GetCharacterMailLabels, Q!GetMailRecipients}
GetCharacterMailUnreadCount == {Q!GetMailUnreadCount}
GetCharacterMailCount == {Q!GetMailCount}
DeleteCharacterMail == {Q!DeleteMail}
GetCharacterMailLabelUnreadCounts == {Q!GetCharacterMailLabelUnreadCounts}
GetCharacterMailListUnreadCounts == {Q!GetCharacterMailListUnreadCounts}
ListCharacterMailIDs == {Q!ListMailIDs}
ListCharacterMailListsOrdered == {Q!ListCharacterMailListsOrdered}
UpdateCharacterMail == {Q!UpdateCharacterMailIsRead} \cup updateCharacterMailLabels
UpdateCharacterMailSetProcessed == {Q!UpdateCharacterMailSetProcessed}

\* characterskillqueueitem.go
GetCharacterTotalTrainingTime == {Q!GetTotalTrainingTime}
createCharacterSkillqueueItem == {Q!CreateCharacterSkillqueueItem}
ListCharacterSkillqueueItems == {Q!ListCharacterSkillqueueItems}
ReplaceCharacterSkillqueueItems ==
    {Q!DeleteCharacterSkillqueueItems} \cup createCharacterSkillqueueItem

\* evecharacter.go
CreateEveCharacter == {Q!CreateEveCharacter}
GetEveCharacter == {Q!GetEveCharacter}
ListEveCharacterIDs == {Q!ListEveCharacterIDs}
UpdateEveCharacter == {Q!UpdateEveCharacter}

\* characterimplant.go
ListCharacterImplants == {Q!ListCharacterImplants}
createCharacterImplant == {Q!CreateCharacterImplant}
ReplaceCharacterImplants == {Q!DeleteCharacterImplants} \cup createCharacterImplant

\* charactermailheader.go
ListCharacterMailHeadersForLabelOrdered ==
    {Q!ListMailsOrdered, Q!ListMailsUnreadOrdered, Q!ListMailsNoLabelOrdered,
     Q!ListMailsForLabelOrdered}
ListCharacterMailHeadersForListOrdered == {Q!ListMailsForListOrdered}
ListCharacterMailHeadersForUnprocessed == {Q!ListMailsUnprocessed}

\* charactermaillabel.go
GetOrCreateCharacterMailLabel == {Q!GetCharacterMailLabel, Q!CreateCharacterMailLabel}
ListCharacterMailLabelsOrdered == {Q!ListCharacterMailLabelsOrdered}
UpdateOrCreateCharacterMailLabel == {Q!UpdateOrCreateCharacterMailLabel}

\* charactertoken.go
GetCharacterToken == {Q!GetCharacterToken, Q!ListCharacterTokenScopes}
getOrCreateScope == {Q!GetScope, Q!CreateScope}
UpdateOrCreateCharacterToken ==
    {Q!UpdateOrCreateCharacterToken, Q!ClearCharacterTokenScopes,
     Q!AddCharacterTokenScope} \cup getOrCreateScope

\* characterwalletjournal.go
CreateCharacterWalletJournalEntry == {Q!CreateCharacterWalletJournalEntry}
ListCharacterWalletJournalEntryIDs == {Q!ListCharacterWalletJournalEntryRefIDs}
ListCharacterWalletJournalEntries == {Q!ListCharacterWalletJournalEntries}

\* characterwallettransaction.go
CreateCharacterWalletTransaction == {Q!CreateCharacterWalletTransaction}
ListCharacterWalletTransactionIDs == {Q!ListCharacterWalletTransactionIDs}
ListCharacterWalletTransactions == {Q!ListCharacterWalletTransactions}

\* eveshipskill.go
createShipSkillIfExists == {Q!CreateShipSkill}
listShipSkillsMap ==
    {Q!Select({"eve_types", "eve_type_dogma_attributes"}, {"eve_groups"})}
UpdateEveShipSkills ==
    {Q!TruncateShipSkills} \cup listShipSkillsMap
      \cup createShipSkillIfExists

\* evetype.go
CreateEveType == {Q!CreateEveType}
GetEveType == {Q!GetEveType}
MissingEveTypes == {Q!ListEveTypeIDs}

\* planetpin.go
CreatePlanetPin == {Q!CreatePlanetPin}
DeletePlanetPins == {Q!DeletePlanetPins}
planetPinFromDBModel == GetEveType
ListPlanetPins == {Q!ListPlanetPins} \cup planetPinFromDBModel

\* characterplanet.go
DeleteCharacterPlanet == {Q!DeleteCharacterPlanets}
ListAllCharacterPlanets == {Q!ListAllCharacterPlanets} \cup ListPlanetPins
ListCharacterPlanets == {Q!ListCharacterPlanets} \cup ListPlanetPins
UpdateCharacterPlanetLastNotified == {Q!UpdateCharacterPlanetLastNotified}
UpdateOrCreateCharacterPlanet == {Q!UpdateOrCreateCharacterPlanet}

\* characterattributes.go
GetCharacterAttributes == {Q!GetCharacterAttributes}
UpdateOrCreateCharacterAttributes == {Q!UpdateOrCreateCharacterAttributes}

\* charactercontractbid.go
CreateCharacterContractBid == {Q!CreateCharacterContractBid}
ListCharacterContractBidIDs == {Q!ListCharacterContractBidIDs}

\* charactersectionstatus.go
GetCharacterSectionStatus == {Q!GetCharacterSectionStatus}
UpdateOrCreateCharacterSectionStatus ==
    {Q!GetCharacterSectionStatus, Q!UpdateOrCreateCharacterSectionStatus}

\* evecategory.go
CreateEveCategory == {Q!CreateEveCategory}
GetEveCategory == {Q!GetEveCategory}

\* eveconstellation.go
CreateEveConstellation == {Q!CreateEveConstellation}
GetEveConstellation == {Q!GetEveConstellation}

\* evedogmatattribute.go
CreateEveDogmaAttribute == {Q!CreateEveDogmaAttribute}
GetEveDogmaAttribute == {Q!GetEveDogmaAttribute}

\* evegroup.go
CreateEveGroup == {Q!CreateEveGroup}
GetEveGroup == {Q!GetEveGroup}

\* evemoon.go
CreateEveMoon == {Q!CreateEveMoon}
GetEveMoon == {Q!GetEveMoon}

\* eveplanet.go
CreateEvePlanet == {Q!CreateEvePlanet}
GetEvePlanet == {Q!GetEvePlanet}

\* everace.go
CreateEveRace == {Q!CreateEveRace}
GetEveRace == {Q!GetEveRace}

\* everegion.go
CreateEveRegion == {Q!CreateEveRegion}
GetEveRegion == {Q!GetEveRegion}

\* eveschematic.go
CreateEveSchematic == {Q!CreateEveSchematic}
GetEveSchematic == {Q!GetEveSchematic}

\* evesolarsystem.go
CreateEveSolarSystem == {Q!CreateEveSolarSystem}
GetEveSolarSystem == {Q!GetEveSolarSystem}

\* evelocation.go
UpdateOrCreateEveLocation == {Q!UpdateOrCreateLocation}
MissingEveLocations == {Q!ListLocationIDs}
eveLocationFromDBModel == GetEveType \cup GetEveSolarSystem \cup GetEveEntity
GetLocation == {Q!GetLocation} \cup eveLocationFromDBModel
ListEveLocation == {Q!ListEveLocations} \cup eveLocationFromDBModel

\* character.go
DeleteCharacter == {Q!DeleteCharacter}
ListCharactersShort == {Q!ListCharactersShort}
UpdateCharacterHome == {Q!UpdateCharacterHomeId}
UpdateCharacterIsTrainingWatched == {Q!UpdateCharacterIsTrainingWatched}
UpdateCharacterLastCloneJump == {Q!UpdateCharacterLastCloneJump}
UpdateCharacterLastLoginAt == {Q!UpdateCharacterLastLoginAt}
UpdateCharacterLocation == {Q!UpdateCharacterLocationID}
UpdateCharacterShip == {Q!UpdateCharacterShipID}
UpdateCharacterSkillPoints == {Q!UpdateCharacterSP}
UpdateCharacterWalletBalance == {Q!UpdateCharacterWalletBalance}
UpdateCharacterAssetValue == {Q!UpdateCharacterAssetValue}
UpdateOrCreateCharacter == {Q!UpdateOrCreateCharacter}
characterFromDBModel == GetLocation \cup GetEveType
GetCharacter == {Q!GetCharacter} \cup characterFromDBModel
ListCharacters == {Q!ListCharacters} \cup characterFromDBModel
GetCharacterAssetValue == {Q!GetCharacterAssetValue}

\* characterjumpclone.go
listCharacterJumpCloneImplants == {Q!ListCharacterJumpCloneImplant}
ListAllCharacterJumpClones == {Q!ListAllCharacterJumpClones} \cup eveLocationFromDBModel
ListCharacterJumpClones == {Q!ListCharacterJumpClones} \cup listCharacterJumpCloneImplants
createCharacterJumpClone ==
    {Q!CreateCharacterJumpClone, Q!CreateCharacterJumpCloneImplant}
ReplaceCharacterJumpClones == {Q!DeleteCharacterJumpClones} \cup createCharacterJumpClone

\* generalsectionstatus.go
GetGeneralSectionStatus == {Q!GetGeneralSectionStatus}
UpdateOrCreateGeneralSectionStatus ==
    {Q!GetGeneralSectionStatus, Q!UpdateOrCreateGeneralSectionStatus}

\* charactercontratitem.go
CreateCharacterContractItem == {Q!CreateCharacterContractItem}

\* charactermaillist.go
CreateCharacterMailList == {Q!CreateCharacterMailList}

\* charactershipskill.go
ListCharacterShipsAbilities == {Q!ListCharacterShipsAbilities}

\* evemarketprice.go
UpdateOrCreateEveMarketPrice == {Q!UpdateOrCreateEveMarketPrice}

\* evetypedogmaattribute.go
CreateEveTypeDogmaAttribute == {Q!CreateEveTypeDogmaAttribute}

\* evetypedogmaeffect.go
CreateEveTypeDogmaEffect == {Q!CreateEveTypeDogmaEffect}
===============================================================================
