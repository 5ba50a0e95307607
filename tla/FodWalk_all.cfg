\* A FOD of any family, and up to two changes anywhere in the packages' part.
SPECIFICATION FairSpec
CONSTANTS
    Builtin = "builtin:fetchurl"
    AllowedPostfetch <- MCAllowed
    Suffix <- MCSuffix
    Drv <- Drv0
    Listed <- Listed0
    Fixed <- Fixed0
    Templates <- MCTemplates
    Catalogue <- MCCatalogue
    Initials <- MCInitials
    Texts <- MCTexts
    Builds <- MCBuilds
    Links <- MCLinks
    Scripts <- MCScripts
    MaxChanges = 2
INVARIANTS TypeOK UniverseIsReach GreenMeansKnown GreenMeansKnownHooks GenuineIsGreen
PROPERTY CheckEnds
CHECK_DEADLOCK FALSE
