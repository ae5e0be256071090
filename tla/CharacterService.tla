--------------------------- MODULE CharacterService ---------------------------
(***************************************************************************)
(* The operations of internal/app/characterservice that reach the storage: *)
(* each is the set of the queries that it may execute.  The notifications  *)
(* also go through internal/app/evenotification, which resolves what they  *)
(* are about.  The token that an update needs is that of                   *)
(* updateSectionIfChanged.                                                 *)
(***************************************************************************)
St == INSTANCE Storage
EUS == INSTANCE EveUniverseService
EN == INSTANCE EveNotification

\* asset.go
ListAssetsInShipHangar == St!ListCharacterAssetsInShipHangar
ListAssetsInItemHangar == St!ListCharacterAssetsInItemHangar
ListAssetsInLocation == St!ListCharacterAssetsInLocation
ListAssets == St!ListCharacterAssets
ListAllAssets == St!ListAllCharacterAssets
AssetTotalValue == St!GetCharacterAssetValue
UpdateAssetTotalValue ==
    St!CalculateCharacterAssetTotalValue \cup St!UpdateCharacterAssetValue
updateAssetsESI ==
    St!MissingEveLocations \cup St!ListCharacterAssetIDs \cup St!UpdateCharacterAsset
    \cup St!CreateCharacterAsset \cup St!DeleteCharacterAssets \cup UpdateAssetTotalValue
    \cup EUS!GetOrCreateLocationESI \cup EUS!AddMissingTypes

\* skill.go
GetSkill == St!GetCharacterSkill
ListSkillProgress == St!ListCharacterSkillProgress
ListSkillGroupsProgress == St!ListCharacterSkillGroupsProgress
updateSkillsESI ==
    St!UpdateCharacterSkillPoints \cup St!ListCharacterSkillIDs
    \cup St!UpdateOrCreateCharacterSkill \cup St!DeleteCharacterSkills
    \cup EUS!GetOrCreateTypeESI

\* jumpclone.go
ListAllJumpClones == St!ListAllCharacterJumpClones
ListJumpClones == St!ListCharacterJumpClones
calcNextCloneJump == GetSkill
updateJumpClonesESI ==
    St!UpdateCharacterHome \cup St!UpdateCharacterLastCloneJump
    \cup St!ReplaceCharacterJumpClones \cup EUS!GetOrCreateLocationESI
    \cup EUS!AddMissingTypes

\* attributes.go
GetAttributes == St!GetCharacterAttributes
updateAttributesESI == St!UpdateOrCreateCharacterAttributes

\* implant.go
ListImplants == St!ListCharacterImplants
updateImplantsESI == St!ReplaceCharacterImplants \cup EUS!GetOrCreateTypeESI

\* token.go
ensureValidCharacterToken == St!UpdateOrCreateCharacterToken
getValidCharacterToken == St!GetCharacterToken \cup ensureValidCharacterToken

\* mailupdate.go
updateMailLabelsESI == St!UpdateOrCreateCharacterMailLabel
updateMailListsESI == St!UpdateOrCreateEveEntity \cup St!CreateCharacterMailList
determineMailIDs == St!ListCharacterMailIDs
determineNewMail == determineMailIDs
resolveMailEntities == EUS!AddMissingEntities
fetchAndStoreMail == St!CreateCharacterMail
addNewMailsESI == fetchAndStoreMail
updateExistingMail == St!GetCharacterMail \cup St!UpdateCharacterMail
updateMailsESI ==
    determineNewMail \cup resolveMailEntities \cup addNewMailsESI \cup updateExistingMail
UpdateMailRead ==
    St!GetCharacterMail \cup St!UpdateCharacterMail \cup getValidCharacterToken

\* section.go
getSectionStatus == St!GetCharacterSectionStatus
UpdateSectionIfNeeded == St!UpdateOrCreateCharacterSectionStatus \cup getSectionStatus
updateSectionIfChanged ==
    St!UpdateOrCreateCharacterSectionStatus \cup getValidCharacterToken
    \cup getSectionStatus

\* walletjournal.go
ListWalletJournalEntries == St!ListCharacterWalletJournalEntries
updateWalletJournalEntryESI ==
    St!ListCharacterWalletJournalEntryIDs \cup St!CreateCharacterWalletJournalEntry
    \cup EUS!AddMissingEntities

\* wallettransaction.go
ListWalletTransactions == St!ListCharacterWalletTransactions
updateWalletTransactionESI ==
    St!ListCharacterWalletTransactionIDs \cup St!CreateCharacterWalletTransaction
    \cup EUS!AddMissingEntities \cup EUS!GetOrCreateTypeESI
    \cup EUS!GetOrCreateLocationESI

\* shipskill.go
ListShipsAbilities == St!ListCharacterShipsAbilities

\* character.go
DeleteCharacter == St!DeleteCharacter
GetCharacter == St!GetCharacter \cup calcNextCloneJump
getCharacterName == GetCharacter
ListCharacters == St!ListCharacters
ListCharactersShort == St!ListCharactersShort
UpdateIsTrainingWatched == St!UpdateCharacterIsTrainingWatched
UpdateOrCreateCharacterFromSSO ==
    St!UpdateOrCreateCharacter \cup St!UpdateOrCreateCharacterToken
    \cup EUS!GetOrCreateCharacterESI
updateLocationESI == St!UpdateCharacterLocation \cup EUS!GetOrCreateLocationESI
updateOnlineESI == St!UpdateCharacterLastLoginAt
updateShipESI == St!UpdateCharacterShip \cup EUS!GetOrCreateTypeESI
updateWalletBalanceESI == St!UpdateCharacterWalletBalance

\* mail.go
DeleteMail == St!DeleteCharacterMail \cup getValidCharacterToken
GetMailCounts == St!GetCharacterMailCount \cup St!GetCharacterMailUnreadCount
GetMailLabelUnreadCounts == St!GetCharacterMailLabelUnreadCounts
GetMailListUnreadCounts == St!GetCharacterMailListUnreadCounts
NotifyMails ==
    St!ListCharacterMailHeadersForUnprocessed \cup St!UpdateCharacterMailSetProcessed
    \cup getCharacterName
ListMailLists == St!ListCharacterMailListsOrdered
ListMailHeadersForLabelOrdered == St!ListCharacterMailHeadersForLabelOrdered
ListMailHeadersForListOrdered == St!ListCharacterMailHeadersForListOrdered
ListMailLabelsOrdered == St!ListCharacterMailLabelsOrdered
SendMail ==
    St!GetOrCreateCharacterMailLabel \cup St!CreateCharacterMail
    \cup getValidCharacterToken \cup EUS!AddMissingEntities

\* contract.go
NotifyUpdatedContracts ==
    St!ListCharacterContractsForNotify \cup St!UpdateCharacterContractNotified
    \cup getCharacterName
ListContracts == St!ListCharacterContracts
createNewContract ==
    St!CreateCharacterContract \cup St!CreateCharacterContractItem
    \cup EUS!GetOrCreateLocationESI \cup EUS!GetOrCreateTypeESI
updateContract == St!GetCharacterContract \cup St!UpdateCharacterContract
updateContractBids ==
    St!GetCharacterContract \cup St!ListCharacterContractBidIDs
    \cup St!CreateCharacterContractBid \cup EUS!AddMissingEntities
updateContractsESI ==
    St!ListCharacterContractIDs \cup createNewContract \cup updateContract
    \cup updateContractBids \cup EUS!AddMissingEntities

\* notification.go
CountNotifications == St!CountCharacterNotifications
NotifyCommunications ==
    St!ListCharacterNotificationsUnprocessed
    \cup St!UpdateCharacterNotificationSetProcessed \cup getCharacterName
ListNotificationsTypes == St!ListCharacterNotificationsTypes
ListNotificationsAll == St!ListCharacterNotificationsAll
ListNotificationsUnread == St!ListCharacterNotificationsUnread
updateNotificationsESI ==
    St!ListCharacterNotificationIDs \cup St!GetCharacterNotification
    \cup St!UpdateCharacterNotification \cup St!CreateCharacterNotification
    \cup EUS!AddMissingEntities \cup EN!RenderESI

\* planet.go
ListAllPlanets == St!ListAllCharacterPlanets
ListPlanets == St!ListCharacterPlanets
NotifyExpiredExtractions ==
    St!UpdateCharacterPlanetLastNotified \cup ListPlanets \cup getCharacterName
updatePlanetsESI ==
    St!ListCharacterPlanets \cup St!DeleteCharacterPlanet
    \cup St!UpdateOrCreateCharacterPlanet \cup St!DeletePlanetPins
    \cup St!CreatePlanetPin \cup EUS!GetOrCreatePlanetESI \cup EUS!GetOrCreateTypeESI
    \cup EUS!GetOrCreateSchematicESI

\* skillqueue.go
GetTotalTrainingTime == St!GetCharacterTotalTrainingTime
NotifyExpiredTraining ==
    GetCharacter \cup GetTotalTrainingTime \cup UpdateIsTrainingWatched
ListSkillqueueItems == St!ListCharacterSkillqueueItems
UpdateSkillqueueESI == St!ReplaceCharacterSkillqueueItems \cup EUS!GetOrCreateTypeESI

\* character.go
EnableTrainingWatcher ==
    GetCharacter \cup GetTotalTrainingTime \cup UpdateIsTrainingWatched
===============================================================================
