SPECIFICATION Spec
CONSTANTS
    KIDs <- MCKIDs
    Materials <- MCMaterials
    Second = 1
    Skew = 1
    Garbage = Garbage
    ClientIds <- MCClientIds
    URIs <- MCURIs
    Secrets <- MCSecrets
    CallerStates <- MCStates
    NoState = NoState
    TooLong = TooLong
    NotUTF8 = NotUTF8
    Replaced = Replaced
    NoNonce = NoNonce
    NoCode = NoCode
    NoError = NoError
    Slots = {p1}
    Browsers = {b1}
    Configs <- ExchangeConfigs
    Queries <- StateQueries
    Credentials <- NoCredentials
    MaxTime = 1
    MaxConfigs = 1
    MaxFlows = 2
    MaxCodes = 1
    MaxRedirects = 2
INVARIANTS
    StateBitExact
