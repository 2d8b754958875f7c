SPECIFICATION Spec
CONSTANTS
    KIDs <- MCKIDs
    Materials <- MCMaterials
    Second = 2
    Skew = 1
    Garbage = Garbage
    ClientIds <- MCClientIds
    URIs <- MCURIs
    Secrets <- MCSecrets
    CallerStates <- MCStates
    NoState = NoState
    TooLong = TooLong
    NotUTF8 = NotUTF8
    Replaced = Replaced
    NoNonce = NoNonce
    NoCode = NoCode
    NoError = NoError
    Slots = {p1}
    Browsers = {b1}
    Configs <- ReloadConfigs
    Queries <- ReloadQueries
    Credentials <- ReloadCredentials
    MaxTime = 3
    MaxConfigs = 3
    MaxFlows = 1
    MaxCodes = 1
    MaxRedirects = 2
PROPERTIES
    RedirectRegistered
    HonestCallbackAccepted
    HonestExchangeSent
    AuthenticatedSend
