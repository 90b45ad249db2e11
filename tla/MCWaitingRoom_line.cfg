SPECIFICATION FairSpec
CONSTANTS
    Users <- TwoUsers
    Clients <- ThreeClients
    Caller <- ThreeCallers
    Pollers = {"b"}
    Replicas = {p1}
    Strategies <- BothStrategies
    MaxAdmitted = 2
    MaxClock = 2
    MaxSkew = 0
    Mishaps <- AllMishaps
    MaxMishaps = 1
CHECK_DEADLOCK FALSE
INVARIANT TypeOK
INVARIANT PlacesAreFixed
INVARIANT AdmittedWithinCounter
INVARIANT TokenAgreement
PROPERTY ImplementsLobby
PROPERTY ClientsGetIn
INVARIANT RoomInv
