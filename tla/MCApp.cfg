SPECIFICATION AppSpec
CONSTANTS
  FixtureNames <- MCNames
  FixtureKinds <- MCKinds
  Manifests <- MCManifests
  Selectors = {"none", "good", "broken"}
  Payloads <- MCPayloads
  Providers = {"openai", "typesafe"}
  MaxEdits = 1
  Loads = {"updater", "listener"}
  Online = {"updater"}
  MaxStarts = 3
  MaxChunks = 2
  MaxFrames = 3
CHECK_DEADLOCK FALSE
INVARIANT NothingLeft
INVARIANT ReadyToServe
INVARIANT BestOwnServed
INVARIANT SchemasHold
INVARIANT OneSource
INVARIANT WellFormed
INVARIANT JudgmentsHold
INVARIANT SocketInOrder
PROPERTY KeepsContract
