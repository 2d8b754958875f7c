SPECIFICATION FairSpec
CONSTANTS
    Requests = {r1}
    Inbound <- MCInbound
    ClientIds <- MCClientIds
    Secrets <- MCSecrets
    Grants <- MCGrants
    Tickets <- MCTickets
    NoOne = NoOne
    Elsewhere = Elsewhere
    Configs <- MCConfigs
    StravaApp <- MCStravaApp
    ServerErrors <- MCServerErrors
    MaxConfigs = 3
INVARIANTS
    TypeOK
    CompleteIsWhole
    AccessRecords
    Accounted
    OneAttempt
    Substituted
    TokensNotCacheable
PROPERTIES
    RelayEnds
CHECK_DEADLOCK FALSE
