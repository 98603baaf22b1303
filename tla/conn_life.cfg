\* Two objects of each backend over three connections, with two names.
SPECIFICATION Spec
CONSTANTS
    o1 = o1
    o2 = o2
    c1 = c1
    c2 = c2
    c3 = c3
    n1 = n1
    n2 = n2
    q1 = q1
    q2 = q2
    NoConn = NoConn
    NoStmt = NoStmt
    NoQuery = NoQuery
    Objects <- MCObjects
    Conns <- MCConns
    Names <- MCNames
    Queries <- MCQueries
    TriedBackends = {"sqlite", "postgres", "mariadb"}
SYMMETRY MCSymmetry
INVARIANTS
    TypeOK
    StatementsLive
    EveryConnectionHasOneOwner
    ServerAgrees
PROPERTY FirstRegistrationWins
