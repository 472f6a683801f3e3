SPECIFICATION Spec
CONSTANTS
  NoType = NoType
  NoSchema = NoSchema
  NoInstance = NoInstance
  NoTemplate = NoTemplate
  AllTypes = AllTypes
  Catalogue <- MCCatalogue
  Attributes <- MCAttributes
  Unknown <- MCUnknown
  Foreign <- MCForeign
  Instances = {"web", "disk"}
  MaxComponents = 2
INVARIANTS UsableWorkloads AllGenerated DanglingOnlyToSkipped ReadsAreDependencies
PROPERTIES NothingRefused GeneratorEnds
CHECK_DEADLOCK FALSE
