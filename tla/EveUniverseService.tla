-------------------------- MODULE EveUniverseService --------------------------
(***************************************************************************)
(* The operations of internal/app/eveuniverseservice that reach the        *)
(* storage: each is the set of the queries that it may execute.            *)
(***************************************************************************)
St == INSTANCE Storage

\* entity.go
AddMissingEntities == St!MissingEveEntityIDs \cup St!GetOrCreateEveEntity
GetOrCreateEntityESI == St!GetEveEntity \cup AddMissingEntities
ToEntities == St!ListEveEntitiesForIDs \cup AddMissingEntities

\* dogmatattribute.go
createDogmaAttributeFromESI == St!CreateEveDogmaAttribute
GetOrCreateDogmaAttributeESI == St!GetEveDogmaAttribute \cup createDogmaAttributeFromESI

\* race.go
createRaceFromESI == St!CreateEveRace
GetOrCreateRaceESI == St!GetEveRace \cup createRaceFromESI

\* character.go
fetchCharacterfromESI == AddMissingEntities \cup GetOrCreateRaceESI
createCharacterFromESI ==
    St!CreateEveCharacter \cup St!GetEveCharacter \cup fetchCharacterfromESI
GetOrCreateCharacterESI == St!GetEveCharacter \cup createCharacterFromESI
updateCharacterESI ==
    St!GetEveCharacter \cup St!GetEveEntity \cup St!UpdateEveCharacter
    \cup AddMissingEntities
UpdateAllCharactersESI == St!ListEveCharacterIDs \cup updateCharacterESI

\* schematic.go
createSchematicFromESI == St!CreateEveSchematic
GetOrCreateSchematicESI == St!GetEveSchematic \cup createSchematicFromESI

\* marketprice.go
updateMarketPricesESI == St!UpdateOrCreateEveMarketPrice

\* map.go
createRegionFromESI == St!CreateEveRegion
GetOrCreateRegionESI == St!GetEveRegion \cup createRegionFromESI
createConstellationFromESI ==
    St!CreateEveConstellation \cup St!GetEveConstellation \cup GetOrCreateRegionESI
GetOrCreateConstellationESI == St!GetEveConstellation \cup createConstellationFromESI
createSolarSystemFromESI ==
    St!CreateEveSolarSystem \cup St!GetEveSolarSystem \cup GetOrCreateConstellationESI
GetOrCreateSolarSystemESI == St!GetEveSolarSystem \cup createSolarSystemFromESI
createMoonFromESI == St!CreateEveMoon \cup St!GetEveMoon \cup GetOrCreateSolarSystemESI
GetOrCreateMoonESI == St!GetEveMoon \cup createMoonFromESI

\* inventory.go
createCategoryFromESI == St!CreateEveCategory
GetOrCreateCategoryESI == St!GetEveCategory \cup createCategoryFromESI
createGroupFromESI == St!CreateEveGroup \cup St!GetEveGroup \cup GetOrCreateCategoryESI
GetOrCreateGroupESI == St!GetEveGroup \cup createGroupFromESI
UpdateShipSkills == St!UpdateEveShipSkills

\* location.go
GetLocation == St!GetLocation
ListLocations == St!ListEveLocation

\* sectionupdate.go
getSectionStatus == St!GetGeneralSectionStatus
UpdateSection == St!UpdateOrCreateGeneralSectionStatus \cup getSectionStatus

\* inventory.go
\* The value of an attribute may be the ID of a type: GetOrCreateTypeESI again.
createTypeFromESI ==
    St!CreateEveType \cup St!CreateEveTypeDogmaAttribute \cup St!CreateEveTypeDogmaEffect
    \cup St!GetEveType \cup GetOrCreateGroupESI \cup GetOrCreateDogmaAttributeESI
GetOrCreateTypeESI == St!GetEveType \cup createTypeFromESI
AddMissingTypes == St!MissingEveTypes \cup GetOrCreateTypeESI
UpdateCategoryWithChildrenESI == GetOrCreateTypeESI

\* location.go
updateOrCreateLocationESI ==
    St!UpdateOrCreateEveLocation \cup St!GetLocation \cup GetOrCreateTypeESI
    \cup GetOrCreateSolarSystemESI \cup AddMissingEntities
GetOrCreateLocationESI == St!GetLocation \cup updateOrCreateLocationESI

\* map.go
createPlanetFromESI ==
    St!CreateEvePlanet \cup St!GetEvePlanet \cup GetOrCreateSolarSystemESI
    \cup GetOrCreateTypeESI
GetOrCreatePlanetESI == St!GetEvePlanet \cup createPlanetFromESI

\* sectionupdate.go
updateCategories == UpdateCategoryWithChildrenESI \cup UpdateShipSkills
===============================================================================
