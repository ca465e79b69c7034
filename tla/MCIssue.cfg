CONSTANTS
    Capaths <- MCCapaths
    MaxAddPathTotal = 40
    MaxTransitRealms = 5
    Width = 64
    Skew = 1
    RealmLife = 4
    RealmRenew = 7
    RestrictAnon = TRUE
    DisablePac = FALSE
    RejectBadTransit = FALSE
    Adjust <- MCAdjust
    Modules <- MCModules
    CookieLifetime = 1
    FreshnessLifetime = 1
    RequireFreshness = TRUE
    OptimisticSpake = TRUE
    ModuleIndicators <- MCModuleIndicators
    HostRealm <- MCHostRealm
    MaxKept = 2
    MaxTime = 6
    MaxTokens = 2
    Scenes <- MCScenes
SPECIFICATION Spec
CHECK_DEADLOCK FALSE
INVARIANTS
    TimesCarryOver
    RealmsCarryOver
    DelegationIsAuthorised
    ProofsCarryOver
