\* Any sequence of Query, SilentQuery and Execute, with and without a logger.
SPECIFICATION Spec
INVARIANTS
    TypeOK
    ReadyBetweenCalls
    NothingHeld
    TransactionsAgree
    TruthfulSuccess
    TruthfulErrorUnlessWarned
    ChangesWarningsLogged
