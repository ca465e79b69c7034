CONSTANTS
    AclLines <- MCAclLines
    AuthModules <- MCAuthModules
    SiteDenies <- MCSiteDenies
    Realm = "R"
    MaxKvno = 65535
    Supported <- MCSupported
    DefaultAttrs <- MCDefaultAttrs
    RealmMaxLife = 10
    Words <- MCWords
    HookRefuses <- MCHookRefuses
    MaxAliasDepth = 10
    SeqWindow = 3
    MaxSeq = 8
    SeqBits = 8
    MaxTime = 2
    Scenes <- MCScenes
SPECIFICATION MCSpec
CHECK_DEADLOCK FALSE
INVARIANTS
    NoFailureForgotten
    CallsRunOnce
    
PROPERTIES
    StagedIsCurrent
    
    RightsHold
