SPECIFICATION Spec
CONSTANTS
    Requests = {r1}
    Inbound <- MCInbound
    ClientIds <- MCClientIds
    Secrets <- MCSecrets
    Grants <- MCGrants
    Tickets <- MCTickets
    NoOne = NoOne
    Elsewhere = Elsewhere
    Configs <- MCConfigs
    StravaApp <- MCStravaApp
    ServerErrors <- MCServerErrors
    MaxConfigs = 2
INVARIANTS
    BodyByteForByte
CHECK_DEADLOCK FALSE
