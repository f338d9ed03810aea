SPECIFICATION Spec
CONSTANTS
    c1 = c1
    Clients = {c1}
    Settings <- MCSettings
    Greetings <- MCGreetings
    Logins <- MCLogins
    Requests <- MCRequests
INVARIANTS
    TypeOK
    SessionsAuthorized
    DialogueLegal
    LinksServed
PROPERTIES
    StopsWhenTold
    HealthRecovers
CHECK_DEADLOCK FALSE
