SPECIFICATION FairSpec
CONSTANTS
    owner = owner
    stranger = stranger
    d1 = d1
    d2 = d2
    Devices = {d1, d2}
    Staff = {owner, stranger}
    Employed = {owner}
    LogsIn <- MCLogsIn
    Handlers = {h1, h2}
    TokenLife = 1
    MaxTime = 2
    MaxFaults = 1
INVARIANTS TypeOK LastSyncBacked
PROPERTIES RegistrationKeepsHistory PushNoted
CHECK_DEADLOCK FALSE
