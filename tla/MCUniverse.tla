----------------------------- MODULE MCUniverse -----------------------------
(***************************************************************************)
(* A small universe: two solar systems of one constellation with a planet, *)
(* a moon, a station and a structure; a ship and a skill whose attribute   *)
(* values name each other; a character.                                    *)
(***************************************************************************)
EXTENDS Universe
CONSTANTS c1, c2

Root == <<"root", 1>>
Region == <<"region", 1>>
Constellation == <<"constellation", 1>>
S1 == <<"solar system", 1>>
S2 == <<"solar system", 2>>
Planet == <<"planet", 1>>
Moon == <<"moon", 1>>
Ships == <<"category", 1>>
Skills == <<"category", 2>>
ShipGroup == <<"group", 1>>
SkillGroup == <<"group", 2>>
Ship == <<"type", 1>>
Skill == <<"type", 2>>
Ball == <<"type", 3>>
Attribute == <<"attribute", 1>>
Effect == <<"effect", 1>>
Race == <<"race", 1>>
Corporation == <<"entity", 1>>
Character == <<"eve character", 1>>
Station == <<"station", 1>>
Structure == <<"structure", 1>>
Safety == <<"place", 1>>
Schematic == <<"schematic", 1>>

MCNames ==
    (Root :> {Ships, Skills}) @@ (Region :> {Constellation})
    @@ (Constellation :> {Region, S1, S2}) @@ (S1 :> {Constellation, Planet, S2, Corporation})
    @@ (S2 :> {Constellation}) @@ (Planet :> {S1, Ball}) @@ (Moon :> {S1})
    @@ (Ships :> {ShipGroup}) @@ (ShipGroup :> {Ships, Ship}) @@ (Ship :> {ShipGroup, Attribute})
    @@ (Skills :> {SkillGroup}) @@ (SkillGroup :> {Skills, Skill}) @@ (Skill :> {SkillGroup, Attribute})
    @@ (Ball :> {ShipGroup, Effect}) @@ (Effect :> {}) @@ (Attribute :> {}) @@ (Race :> {}) @@ (Corporation :> {})
    @@ (Character :> {Corporation, Race}) @@ (Station :> {S1, Ball, Corporation})
    @@ (Structure :> {S2, Ball, Corporation}) @@ (Safety :> {Ball}) @@ (Schematic :> {})
MCObjects == DOMAIN MCNames
MCMentions == [o \in MCObjects |-> CASE o = Ship -> {<<Attribute, Skill>>}
                                     [] o = Skill -> {<<Attribute, Ship>>}
                                     [] OTHER -> {}]
Both(j, k) == (c1 :> j) @@ (c2 :> k)
MCRequests ==
    { Both(<<"categories", Root>>, NoJob),
      Both(<<"get", Ship>>, <<"get", Skill>>),
      Both(<<"get", Moon>>, <<"systems", Constellation>>),
      Both(<<"planets", S1>>, <<"get", Region>>),
      Both(<<"get", Structure>>, <<"get", Race>>),
      Both(<<"character", Character>>, <<"get", Character>>),
      Both(<<"get", Safety>>, <<"get", Station>>),
      Both(<<"info", S1>>, <<"neighbours", S1>>),
      Both(<<"format", Attribute>>, <<"get", Schematic>>),
      Both(<<"entity", Corporation>>, <<"entity", Corporation>>) }
=============================================================================
