SPECIFICATION Spec
CONSTANTS
    KIDs <- MCKIDs
    Materials <- MCMaterials
    Second = 1
    Skew = 1
    Garbage = Garbage
    ClientIds <- MCClientIds
    URIs <- MCURIs
    Secrets <- MCSecrets
    CallerStates <- MCStates
    NoState = NoState
    TooLong = TooLong
    NotUTF8 = NotUTF8
    Replaced = Replaced
    NoNonce = NoNonce
    NoCode = NoCode
    NoError = NoError
    Slots = {p1, p2}
    Browsers = {b1, b2}
    Configs <- NonceConfigs
    Queries <- NonceQueries
    Credentials <- NoCredentials
    MaxTime = 1
    MaxConfigs = 1
    MaxFlows = 2
    MaxCodes = 1
    MaxRedirects = 1
SYMMETRY FullSymmetry
PROPERTIES
    NonceBinding
    HonestCallbackAccepted
