------------------------------- MODULE Queries --------------------------------
(***************************************************************************)
(* What the SQL queries of internal/app/storage/queries read and write.    *)
(*                                                                         *)
(* A query enumerates the rows of tables ("over": its FROM, joins that are *)
(* not on the primary key, subqueries) and looks up rows of others by      *)
(* their ID ("by").  It adds or removes rows ("rows") or changes the cells *)
(* of rows ("cells").  The tables characters and eve_characters are wide   *)
(* and written column by column: their cells are named by column.          *)
(* Conditions, order and values are abstracted.                            *)
(***************************************************************************)

ItemTables == {"eve_types", "eve_groups", "eve_categories"}
MapTables == {"eve_solar_systems", "eve_constellations", "eve_regions"}
CharacterColumns ==
    {"characters.asset_value", "characters.home_id", "characters.is_training_watched",
     "characters.last_clone_jump_at", "characters.last_login_at", "characters.location_id",
     "characters.ship_id", "characters.total_sp", "characters.unallocated_sp",
     "characters.wallet_balance"}
EveCharacterColumns ==
    {"eve_characters.alliance_id", "eve_characters.birthday", "eve_characters.corporation_id",
     "eve_characters.description", "eve_characters.faction_id", "eve_characters.gender",
     "eve_characters.name", "eve_characters.race_id", "eve_characters.security_status",
     "eve_characters.title"}
\* What is known of the game and shared by all characters.
UniverseTables ==
    ItemTables \cup MapTables \cup
    {"eve_characters", "eve_dogma_attributes", "eve_entities", "eve_locations",
     "eve_market_prices", "eve_moons", "eve_planets", "eve_races", "eve_schematics",
     "eve_ship_skills", "eve_type_dogma_attributes", "eve_type_dogma_effects",
     "notification_types", "scopes"}
\* What belongs to a character.
CharacterTables ==
    {"character_assets", "character_attributes", "character_contract_bids",
     "character_contract_items", "character_contracts", "character_implants",
     "character_jump_clone_implants", "character_jump_clones", "character_mail_labels",
     "character_mail_lists", "character_mail_mail_labels", "character_mails",
     "character_mails_recipients", "character_notifications", "character_planets",
     "character_section_status", "character_skillqueue_items", "character_skills",
     "character_token_scopes", "character_tokens", "character_wallet_journal_entries",
     "character_wallet_transactions", "planet_pins"}
\* ON DELETE CASCADE: the tables whose rows go with a row of t.
Cascade(t) ==
    CASE t = "characters" -> CharacterTables
      [] t = "character_mails" -> {"character_mail_mail_labels", "character_mails_recipients"}
      [] t = "character_jump_clones" -> {"character_jump_clone_implants"}
      [] t = "character_planets" -> {"planet_pins"}
      [] OTHER -> {}

Query(over, by, rows, cells) == [over |-> over, by |-> by, rows |-> rows, cells |-> cells]
Select(over, by) == Query(over, by, {}, {})
Insert(t) == Query({}, {}, {t}, {})
Upsert(t) == Query({}, {}, {t}, {t})
Update(cells) == Query({}, {}, {}, cells)
Delete(t) == Query({}, {}, {t} \cup Cascade(t), {})
DeleteBy(t, over) == Query(over, {}, {t} \cup Cascade(t), {})

\* character_assets.sql.go
CalculateCharacterAssetTotalValue == Select({"character_assets", "eve_market_prices"}, {})
CreateCharacterAsset == Insert("character_assets")
DeleteCharacterAssets == Delete("character_assets")
ListAllCharacterAssets == Select({"character_assets", "eve_market_prices"}, ItemTables)
ListCharacterAssetIDs == Select({"character_assets"}, {})
ListCharacterAssets == Select({"character_assets", "eve_market_prices"}, ItemTables)
ListCharacterAssetsInItemHangar ==
    Select({"character_assets", "eve_market_prices"}, ItemTables)
ListCharacterAssetsInLocation ==
    Select({"character_assets", "eve_market_prices"}, ItemTables)
ListCharacterAssetsInShipHangar ==
    Select({"character_assets", "eve_market_prices"}, ItemTables)
UpdateCharacterAsset == Update({"character_assets"})

\* character_attributes.sql.go
GetCharacterAttributes == Select({"character_attributes"}, {})
UpdateOrCreateCharacterAttributes == Upsert("character_attributes")

\* character_contract_bids.sql.go
CreateCharacterContractBid == Insert("character_contract_bids")
ListCharacterContractBidIDs == Select({"character_contract_bids"}, {})

\* character_contract_items.sql.go
CreateCharacterContractItem == Insert("character_contract_items")

\* character_contracts.sql.go
CreateCharacterContract == Insert("character_contracts")
GetCharacterContract ==
    Select({"character_contract_items", "character_contracts"},
           {"eve_types", "eve_entities", "eve_locations", "eve_solar_systems"})
ListCharacterContractIDs == Select({"character_contracts"}, {})
ListCharacterContracts ==
    Select({"character_contract_items", "character_contracts"},
           {"eve_types", "eve_entities", "eve_locations", "eve_solar_systems"})
ListCharacterContractsForNotify ==
    Select({"character_contract_items", "character_contracts"},
           {"eve_types", "eve_entities", "eve_locations", "eve_solar_systems"})
UpdateCharacterContract == Update({"character_contracts"})
UpdateCharacterContractNotified == Update({"character_contracts"})

\* character_implants.sql.go
CreateCharacterImplant == Insert("character_implants")
DeleteCharacterImplants == Delete("character_implants")
ListCharacterImplants ==
    Select({"character_implants", "eve_type_dogma_attributes"}, ItemTables)

\* character_jump_clones.sql.go
CreateCharacterJumpClone == Insert("character_jump_clones")
CreateCharacterJumpCloneImplant == Insert("character_jump_clone_implants")
DeleteCharacterJumpClones == Delete("character_jump_clones")
ListAllCharacterJumpClones ==
    Select({"character_jump_clone_implants", "character_jump_clones"},
           {"eve_locations", "eve_characters.name"})
ListCharacterJumpCloneImplant ==
    Select({"character_jump_clone_implants", "eve_type_dogma_attributes"}, ItemTables)
ListCharacterJumpClones ==
    Select({"character_jump_clone_implants", "character_jump_clones"},
           MapTables \cup {"eve_locations"})

\* character_mail_labels.sql.go
CreateCharacterMailLabel == Insert("character_mail_labels")
GetCharacterMailLabel == Select({"character_mail_labels"}, {})
ListCharacterMailLabelsOrdered == Select({"character_mail_labels"}, {})
UpdateOrCreateCharacterMailLabel == Upsert("character_mail_labels")

\* character_mail_lists.sql.go
CreateCharacterMailList == Insert("character_mail_lists")
ListCharacterMailListsOrdered == Select({"character_mail_lists"}, {"eve_entities"})

\* character_mails.sql.go
CreateMail == Insert("character_mails")
CreateMailCharacterMailLabel == Insert("character_mail_mail_labels")
CreateMailRecipient == Insert("character_mails_recipients")
DeleteMail == Delete("character_mails")
DeleteMailCharacterMailLabels == Delete("character_mail_mail_labels")
GetCharacterMailLabelUnreadCounts ==
    Select({"character_mail_labels", "character_mail_mail_labels"}, {"character_mails"})
GetCharacterMailLabels ==
    Select({"character_mail_labels", "character_mail_mail_labels"}, {})
GetCharacterMailListUnreadCounts ==
    Select({"character_mails", "character_mails_recipients"}, {"eve_entities"})
GetMail == Select({"character_mails"}, {"eve_entities"})
GetMailCount == Select({"character_mails"}, {})
GetMailRecipients == Select({"eve_entities", "character_mails_recipients"}, {})
GetMailUnreadCount == Select({"character_mails"}, {})
ListMailIDs == Select({"character_mails"}, {})
ListMailsForLabelOrdered ==
    Select({"character_mails", "character_mail_mail_labels"},
           {"eve_entities", "character_mail_labels"})
ListMailsForListOrdered ==
    Select({"character_mails", "character_mails_recipients"}, {"eve_entities"})
ListMailsNoLabelOrdered ==
    Select({"character_mails", "character_mail_mail_labels"}, {"eve_entities"})
ListMailsOrdered == Select({"character_mails"}, {"eve_entities"})
ListMailsUnprocessed ==
    Select({"character_mails", "character_mail_mail_labels"},
           {"eve_entities", "character_mail_labels"})
ListMailsUnreadOrdered == Select({"character_mails"}, {"eve_entities"})
UpdateCharacterMailIsRead == Update({"character_mails"})
UpdateCharacterMailSetProcessed == Update({"character_mails"})

\* character_notifications.sql.go
CountCharacterNotifications == Select({"character_notifications"}, {"notification_types"})
CreateCharacterNotification == Insert("character_notifications")
CreateNotificationType == Insert("notification_types")
GetCharacterNotification ==
    Select({"character_notifications"}, {"eve_entities", "notification_types"})
GetNotificationTypeID == Select({"notification_types"}, {})
ListCharacterNotificationIDs == Select({"character_notifications"}, {})
ListCharacterNotificationsAll ==
    Select({"character_notifications"}, {"eve_entities", "notification_types"})
ListCharacterNotificationsTypes ==
    Select({"character_notifications"}, {"eve_entities", "notification_types"})
ListCharacterNotificationsUnprocessed ==
    Select({"character_notifications"}, {"eve_entities", "notification_types"})
ListCharacterNotificationsUnread ==
    Select({"character_notifications"}, {"eve_entities", "notification_types"})
UpdateCharacterNotification == Update({"character_notifications"})
UpdateCharacterNotificationSetProcessed == Update({"character_notifications"})

\* character_planets.sql.go
DeleteCharacterPlanets == Delete("character_planets")
ListAllCharacterPlanets ==
    Select({"character_planets"}, ItemTables \cup MapTables \cup {"eve_planets"})
ListCharacterPlanets ==
    Select({"character_planets"}, ItemTables \cup MapTables \cup {"eve_planets"})
UpdateCharacterPlanetLastNotified == Update({"character_planets"})
UpdateOrCreateCharacterPlanet == Upsert("character_planets")

\* character_section_status.sql.go
GetCharacterSectionStatus == Select({"character_section_status"}, {})
UpdateOrCreateCharacterSectionStatus == Upsert("character_section_status")

\* character_skillqueue_items.sql.go
CreateCharacterSkillqueueItem == Insert("character_skillqueue_items")
DeleteCharacterSkillqueueItems == Delete("character_skillqueue_items")
GetTotalTrainingTime == Select({"character_skillqueue_items"}, {})
ListCharacterSkillqueueItems ==
    Select({"character_skillqueue_items"}, {"eve_types", "eve_groups"})

\* character_skills.sql.go
DeleteCharacterSkills == Delete("character_skills")
GetCharacterSkill == Select({"character_skills"}, ItemTables)
ListCharacterShipsAbilities ==
    Select({"eve_ship_skills", "character_skills"}, {"eve_types", "eve_groups"})
ListCharacterSkillGroupsProgress ==
    Select({"eve_types", "character_skills"}, {"eve_groups"})
ListCharacterSkillIDs == Select({"character_skills"}, {})
ListCharacterSkillProgress == Select({"eve_types", "character_skills"}, {})
UpdateOrCreateCharacterSkill == Upsert("character_skills")

\* character_tokens.sql.go
AddCharacterTokenScope == Insert("character_token_scopes")
ClearCharacterTokenScopes == DeleteBy("character_token_scopes", {"character_tokens"})
GetCharacterToken == Select({"character_tokens"}, {})
ListCharacterTokenScopes ==
    Select({"character_token_scopes"}, {"scopes", "character_tokens"})
UpdateOrCreateCharacterToken == Upsert("character_tokens")

\* character_wallet_journal.sql.go
CreateCharacterWalletJournalEntry == Insert("character_wallet_journal_entries")
ListCharacterWalletJournalEntries ==
    Select({"character_wallet_journal_entries"}, {"eve_entities"})
ListCharacterWalletJournalEntryRefIDs == Select({"character_wallet_journal_entries"}, {})

\* character_wallet_transactions.sql.go
CreateCharacterWalletTransaction == Insert("character_wallet_transactions")
ListCharacterWalletTransactionIDs == Select({"character_wallet_transactions"}, {})
ListCharacterWalletTransactions ==
    Select({"character_wallet_transactions"},
           {"eve_entities", "eve_types", "eve_locations", "eve_solar_systems"})

\* characters.sql.go
DeleteCharacter == Delete("characters")
GetCharacter ==
    Select({}, CharacterColumns \cup EveCharacterColumns \cup {"eve_entities", "eve_races"})
GetCharacterAssetValue == Select({}, {"characters.asset_value"})
ListCharacters ==
    Select({"characters"},
           CharacterColumns \cup EveCharacterColumns \cup {"eve_entities", "eve_races"})
ListCharactersShort == Select({"characters"}, {"eve_characters.name"})
UpdateCharacterAssetValue == Update({"characters.asset_value"})
\* Mutant: the home is stored as the location.
UpdateHomeIntoLocation == Update({"characters.location_id"})
UpdateCharacterHomeId == Update({"characters.home_id"})
UpdateCharacterIsTrainingWatched == Update({"characters.is_training_watched"})
UpdateCharacterLastCloneJump == Update({"characters.last_clone_jump_at"})
UpdateCharacterLastLoginAt == Update({"characters.last_login_at"})
UpdateCharacterLocationID == Update({"characters.location_id"})
UpdateCharacterSP == Update({"characters.total_sp", "characters.unallocated_sp"})
UpdateCharacterShipID == Update({"characters.ship_id"})
UpdateCharacterWalletBalance == Update({"characters.wallet_balance"})
UpdateOrCreateCharacter == Query({}, {}, {"characters"}, CharacterColumns)

\* eve_categories.sql.go
CreateEveCategory == Insert("eve_categories")
GetEveCategory == Select({}, {"eve_categories"})

\* eve_characters.sql.go
CreateEveCharacter == Insert("eve_characters")
GetEveCharacter == Select({}, EveCharacterColumns \cup {"eve_entities", "eve_races"})
ListEveCharacterIDs == Select({"eve_characters"}, {})
UpdateEveCharacter ==
    Update({"eve_characters.alliance_id", "eve_characters.corporation_id",
            "eve_characters.description", "eve_characters.faction_id",
            "eve_characters.name", "eve_characters.security_status",
            "eve_characters.title"})

\* eve_constellations.sql.go
CreateEveConstellation == Insert("eve_constellations")
GetEveConstellation == Select({}, {"eve_constellations", "eve_regions"})

\* eve_dogma_attributes.sql.go
CreateEveDogmaAttribute == Insert("eve_dogma_attributes")
GetEveDogmaAttribute == Select({}, {"eve_dogma_attributes"})

\* eve_entities.sql.go
CreateEveEntity == Insert("eve_entities")
GetEveEntity == Select({}, {"eve_entities"})
ListEveEntitiesForIDs == Select({"eve_entities"}, {})
ListEveEntityIDs == Select({"eve_entities"}, {})
UpdateOrCreateEveEntity == Upsert("eve_entities")

\* eve_groups.sql.go
CreateEveGroup == Insert("eve_groups")
GetEveGroup == Select({}, {"eve_groups", "eve_categories"})

\* eve_locations.sql.go
GetLocation == Select({}, {"eve_locations"})
ListEveLocations == Select({"eve_locations"}, {})
ListLocationIDs == Select({"eve_locations"}, {})
UpdateOrCreateLocation == Upsert("eve_locations")

\* eve_market_prices.sql.go
UpdateOrCreateEveMarketPrice == Upsert("eve_market_prices")

\* eve_moons.sql.go
CreateEveMoon == Insert("eve_moons")
GetEveMoon == Select({}, MapTables \cup {"eve_moons"})

\* eve_planets.sql.go
CreateEvePlanet == Insert("eve_planets")
GetEvePlanet == Select({}, ItemTables \cup MapTables \cup {"eve_planets"})

\* eve_races.sql.go
CreateEveRace == Insert("eve_races")
GetEveRace == Select({}, {"eve_races"})

\* eve_regions.sql.go
CreateEveRegion == Insert("eve_regions")
GetEveRegion == Select({}, {"eve_regions"})

\* eve_schematics.sql.go
CreateEveSchematic == Insert("eve_schematics")
GetEveSchematic == Select({}, {"eve_schematics"})

\* eve_ship_skills.sql.go
CreateShipSkill == Insert("eve_ship_skills")
TruncateShipSkills == Delete("eve_ship_skills")

\* eve_solar_systems.sql.go
CreateEveSolarSystem == Insert("eve_solar_systems")
GetEveSolarSystem == Select({}, MapTables)

\* eve_types.sql.go
CreateEveType == Insert("eve_types")
CreateEveTypeDogmaAttribute == Insert("eve_type_dogma_attributes")
CreateEveTypeDogmaEffect == Insert("eve_type_dogma_effects")
GetEveType == Select({}, ItemTables)
ListEveTypeIDs == Select({"eve_types"}, {})

\* general_section_status.sql.go
GetGeneralSectionStatus == Select({"general_section_status"}, {})
UpdateOrCreateGeneralSectionStatus == Upsert("general_section_status")

\* planet_pins.sql.go
CreatePlanetPin == Insert("planet_pins")
DeletePlanetPins == Delete("planet_pins")
ListPlanetPins == Select({"planet_pins"}, ItemTables \cup {"eve_schematics"})

\* scopes.sql.go
CreateScope == Insert("scopes")
GetScope == Select({"scopes"}, {})

----------------------------------------------------------------------------
\* What a set of queries, that is a procedure, reads and writes.
Over(S) == UNION {q.over : q \in S}
By(S) == UNION {q.by : q \in S}
Rows(S) == UNION {q.rows : q \in S}
Cells(S) == UNION {q.cells : q \in S}
===============================================================================
