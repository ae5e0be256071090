--------------------------- MODULE EveNotification ---------------------------
(***************************************************************************)
(* The renderers of internal/app/evenotification: each is the set of the   *)
(* queries that it may execute to resolve what a notification is about.    *)
(* RenderESI is called for every notification of an update, the known ones *)
(* and the new ones.                                                       *)
(***************************************************************************)
EUS == INSTANCE EveUniverseService

\* billing.go
renderBilling ==
    EUS!ToEntities \cup EUS!GetOrCreateSolarSystemESI
    \cup EUS!GetOrCreateTypeESI

\* corporate.go
renderCorporate == EUS!ToEntities

\* moonmining.go
makeMoonMiningBaseText == EUS!GetOrCreateMoonESI
makeOreText == EUS!ToEntities
renderMoonMining ==
    makeMoonMiningBaseText \cup makeOreText \cup EUS!GetOrCreateEntityESI

\* orbital.go
makeOrbitalBaseText == EUS!GetOrCreateTypeESI \cup EUS!GetOrCreatePlanetESI
renderOrbital == makeOrbitalBaseText \cup EUS!ToEntities

\* sov.go
renderEntosisCaptureStarted ==
    EUS!GetOrCreateSolarSystemESI \cup EUS!GetOrCreateEntityESI
renderSovAllClaimAcquiredMsg ==
    EUS!GetOrCreateSolarSystemESI \cup EUS!GetOrCreateEntityESI
renderSovAllClaimLostMsg ==
    EUS!GetOrCreateSolarSystemESI \cup EUS!GetOrCreateEntityESI
renderSovStructureDestroyed ==
    EUS!GetOrCreateEntityESI \cup EUS!GetOrCreateSolarSystemESI
eventTypeIDToName == EUS!GetOrCreateEntityESI
renderSovCommandNodeEventStarted ==
    eventTypeIDToName \cup EUS!GetOrCreateSolarSystemESI
renderSovStructureReinforced ==
    eventTypeIDToName \cup EUS!GetOrCreateSolarSystemESI
renderSov ==
    renderEntosisCaptureStarted \cup renderSovAllClaimAcquiredMsg
    \cup renderSovAllClaimLostMsg \cup renderSovCommandNodeEventStarted
    \cup renderSovStructureDestroyed \cup renderSovStructureReinforced

\* structure.go
renderStructureImpendingAbandonmentAssetsAtRisk ==
    EUS!GetOrCreateSolarSystemESI
renderStructureItemsDelivered ==
    EUS!ToEntities \cup EUS!GetOrCreateSolarSystemESI
    \cup EUS!GetOrCreateLocationESI
renderStructureItemsMovedToSafety ==
    EUS!GetOrCreateSolarSystemESI \cup EUS!GetOrCreateEntityESI
renderStructuresReinforcementChanged == EUS!ToEntities
makeStructureBaseText ==
    EUS!GetOrCreateTypeESI \cup EUS!GetOrCreateSolarSystemESI
    \cup EUS!GetOrCreateLocationESI
renderOwnershipTransferred == EUS!ToEntities \cup makeStructureBaseText
renderStructureAnchoring == makeStructureBaseText
renderStructureDestroyed == makeStructureBaseText
renderStructureFuelAlert == makeStructureBaseText
renderStructureLostArmor == makeStructureBaseText
renderStructureLostShields == makeStructureBaseText
renderStructureOnline == makeStructureBaseText
renderStructureServicesOffline == EUS!ToEntities \cup makeStructureBaseText
renderStructureUnanchoring == makeStructureBaseText
renderStructureUnderAttack ==
    makeStructureBaseText \cup EUS!GetOrCreateEntityESI
renderStructureWentHighPower == makeStructureBaseText
renderStructureWentLowPower == makeStructureBaseText
renderStructure ==
    renderOwnershipTransferred \cup renderStructureAnchoring
    \cup renderStructureDestroyed \cup renderStructureFuelAlert
    \cup renderStructureImpendingAbandonmentAssetsAtRisk
    \cup renderStructureItemsDelivered \cup renderStructureItemsMovedToSafety
    \cup renderStructureLostArmor \cup renderStructureLostShields
    \cup renderStructureOnline \cup renderStructuresReinforcementChanged
    \cup renderStructureServicesOffline \cup renderStructureUnanchoring
    \cup renderStructureUnderAttack \cup renderStructureWentHighPower
    \cup renderStructureWentLowPower

\* tower.go
makeTowerBaseText == EUS!GetOrCreateTypeESI \cup EUS!GetOrCreateMoonESI
renderTowerAlertMsg == makeTowerBaseText \cup EUS!ToEntities
renderTowerResourceAlertMsg == makeTowerBaseText
renderTower == renderTowerAlertMsg \cup renderTowerResourceAlertMsg

\* war.go
renderAllWarSurrenderMsg == EUS!ToEntities
renderCorpWarSurrenderMsg == EUS!ToEntities
renderDeclareWar == EUS!ToEntities
renderWarAdopted == EUS!ToEntities
renderWarDeclared == EUS!ToEntities
renderWarHQRemovedFromSpace == EUS!ToEntities
renderWarInherited == EUS!ToEntities
renderWarInvalid == EUS!ToEntities
renderWarRetractedByConcord == EUS!ToEntities
renderWar ==
    renderAllWarSurrenderMsg \cup renderCorpWarSurrenderMsg
    \cup renderDeclareWar \cup renderWarAdopted \cup renderWarDeclared
    \cup renderWarHQRemovedFromSpace \cup renderWarInherited
    \cup renderWarInvalid \cup renderWarRetractedByConcord

\* evenotification.go
RenderESI ==
    renderBilling \cup renderCorporate \cup renderOrbital \cup renderMoonMining
    \cup renderStructure \cup renderTower \cup renderWar \cup renderSov
===============================================================================
