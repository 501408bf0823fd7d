\* A person at the prompts of the three fronts, one group of commands at a time.
SPECIFICATION Spec
CONSTANTS
  Features <- MCFeatures
  Fixes <- MCFixes
  Fronts <- AllFronts
  Situations <- MCSituations
  MAX_ROUNDS_PER_ITEM = 2
  MAX_TURNS_PER_FEATURE_IDEA = 1
  MAX_FEATURES_PER_SESSION = 1
  MAX_RECOVERY_RETRIES = 2
  MaxTurns = 2
  MaxLog = 2
  MaxRetries = 3
  MaxTaskDepth = 2
  Takes <- MCTakes
  Guesses <- MCGuesses
  Names <- MCNames
  Folded <- MCFolded
  Starter <- MCStarter
  Authors <- MCAuthors
  Illegible <- MCIllegible
  SignalFiles <- MCSignalFiles
  Contents <- MCContents
  Declares <- MCDeclares
  Gathered <- MCGathered
  Layout <- MCLayout
  Fields <- MCFields
  Unreadable <- MCUnreadable
  Broken <- MCBroken
INVARIANTS
  TypeOk
  WorkedOnWasConfirmed
  TurnsAreKept
  DecisionsHaveOneHome
  NothingMalformed
  WaitsOnOwnFix
PROPERTIES
  NoFourthRetry
  DecisionsAreKept
  FactsOnlyGainStanding
  EndOfInputEndsIt
