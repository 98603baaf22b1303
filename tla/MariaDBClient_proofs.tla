-------------------------- MODULE MariaDBClient_proofs --------------------------
(***************************************************************************)
(* Theorems about MariaDBClient, which has no parameters: what TLC checks  *)
(* state by state is here argued from what each library call leaves to the *)
(* next.                                                                   *)
(***************************************************************************)
EXTENDS MariaDBClient, TLAPS

\* What is held before each library call.
HeldByStage ==
  /\ pc \notin {"prepare", "bind", "buffer", "fetch", "finish"} => held = {}
  /\ pc = "prepare" => held = {"stmt"}
  /\ pc \in {"bind", "buffer"} => held = {"metadata"}
  /\ pc = "fetch" => held = {"metadata", "rows"}
  /\ pc = "finish" => held \subseteq {"rows"}

\* How far the statement has come.
Progress ==
  /\ pc \in {"send", "init", "prepare", "reset", "execute"} => ~accepted
  /\ pc \in {"warnings", "store", "metadata", "bind", "buffer", "fetch"} => accepted
  /\ pc \notin {"idle", "finish"} => answer = "none"
  /\ pc \in {"metadata", "bind", "buffer", "fetch"} => call.statement.rows
  /\ call.statement.does # "work" => call.how = "SilentQuery"
  /\ Provokes(call.how, call.statement) => provoked

\* What is known of the result: everything before the warnings are logged, and
\* after that what SHOW WARNINGS did not replace.
ResultKnown ==
  /\ pc = "warnings" => client = AfterCommand(call.statement)
  /\ pc = "store" =>
       /\ client.unread => call.statement.rows
       /\ ~AsksForWarnings => client = AfterCommand(call.statement)
       /\ ~Provokes(call.how, call.statement) =>
            (client.unread <=> call.statement.rows) /\ (client.columns <=> call.statement.rows)
       /\ AsksForWarnings /\ ~call.statement.rows => logged \/ broken
  /\ pc = "finish" =>
       /\ answer \in {"rows", "empty", "error"}
       /\ answer \in {"rows", "empty"} =>
            accepted /\ (answer = "rows" <=> call.statement.rows)
       /\ answer = "error" => ~accepted \/ broken

\* Rows wait only between the statement that produced them and the call that
\* reads or discards them.
NothingWaits ==
  ~provoked =>
    (pc \in {"idle", "send", "init", "prepare", "reset", "execute"} \/ (pc = "finish" /\ ~accepted)
       => ~client.unread)

\* The handle is ahead of the server while BEGIN, COMMIT or ROLLBACK is on its
\* way, and at no other time.
SidesAgree ==
  ~provoked /\ ~strayed =>
    IF pc = "send" /\ call.statement.does # "work"
    THEN active = (call.statement.does = "begin") /\ open # active
    ELSE open = active

IInv ==
  /\ TypeOK
  /\ HeldByStage
  /\ Progress
  /\ ResultKnown
  /\ NothingWaits
  /\ SidesAgree
  /\ TruthfulSuccess
  /\ TruthfulErrorUnlessWarned
  /\ ChangesWarningsLogged

-----------------------------------------------------------------------------

USE DEF setup, transaction

Answer == {"none", "ok", "rows", "empty", "error"}

\* Whatever the library answers leaves a connection.
LEMMA ClientType ==
  ASSUME TypeOK
  PROVE  /\ Fresh \in Client
         /\ OutOfSync \in Client
         /\ AfterStore \in Client
         /\ \A s \in Statement : AfterCommand(s) \in Client
         /\ [client EXCEPT !.count = TRUE] \in Client
         /\ [client EXCEPT !.unread = FALSE] \in Client
<1>1. client \in Client
  BY DEF TypeOK
<1>2. Fresh \in Client
  BY DEF Fresh, Client
<1>3. OutOfSync \in Client
  BY <1>1 DEF OutOfSync, Client
<1>4. AfterStore \in Client
  BY <1>1 DEF AfterStore, Client
<1>5. \A s \in Statement : AfterCommand(s) \in Client
  BY DEF Statement, AfterCommand, Client
<1>6. [client EXCEPT !.count = TRUE] \in Client /\ [client EXCEPT !.unread = FALSE] \in Client
  BY <1>1 DEF Client
<1> QED
  BY <1>2, <1>3, <1>4, <1>5, <1>6

LEMMA InitHolds == Init => IInv
<1> SUFFICES ASSUME Init PROVE IInv
  OBVIOUS
<1>1. call \in Call /\ client \in Client /\ pc \in Stages(call.how)
  BY DEF Init, Call, Statement, Client, Fresh, Stages
<1>2. TypeOK
  BY <1>1 DEF Init, TypeOK
<1>3. HeldByStage /\ Progress
  BY DEF Init, HeldByStage, Progress, Provokes
<1>4. ResultKnown /\ NothingWaits /\ SidesAgree
  BY DEF Init, ResultKnown, NothingWaits, SidesAgree, Fresh
<1>5. TruthfulSuccess /\ TruthfulErrorUnlessWarned /\ ChangesWarningsLogged
  BY DEF Init, TruthfulSuccess, TruthfulErrorUnlessWarned, ChangesWarningsLogged, Returned
<1> QED
  BY <1>2, <1>3, <1>4, <1>5 DEF IInv

LEMMA StartStep ==
  ASSUME IInv, NEW how \in {"Query", "SilentQuery", "Prepare", "Execute"},
         NEW s \in Statement, Start(how, s)
  PROVE  IInv'
<1>1. TypeOK'
  <2>1. client' \in Client
    BY ClientType DEF IInv, TypeOK, Start
  <2>2. call' \in Call /\ pc' \in Stages(call'.how)
    BY DEF TypeOK, Call, Stages, Start, Return
  <2>3. held' \subseteq {"stmt", "metadata", "rows"}
    BY DEF IInv, TypeOK, Start
  <2>4. active' \in BOOLEAN /\ open' \in BOOLEAN /\ strayed' \in BOOLEAN
    BY DEF IInv, TypeOK, Start
  <2>5. /\ logger' \in BOOLEAN /\ forgets' \in BOOLEAN /\ provoked' \in BOOLEAN
        /\ accepted' \in BOOLEAN /\ broken' \in BOOLEAN /\ logged' \in BOOLEAN
    BY DEF IInv, TypeOK, Start, Provokes
  <2>6. stmt' \in {"none", "null", "ready"} /\ answer' \in Answer
    BY DEF IInv, TypeOK, Answer, Start, Return
  <2> QED
    BY <2>1, <2>2, <2>3, <2>4, <2>5, <2>6 DEF TypeOK, Answer
<1>2. HeldByStage'
  BY DEF IInv, HeldByStage, Start, Provokes, Return
<1>3. Progress'
  BY DEF TypeOK, Progress, Start, Provokes, Return, Statement
<1>4. ResultKnown'
  BY DEF TypeOK, Progress, ResultKnown, Start, Provokes, Return, Statement, Stages
<1>5. NothingWaits'
  BY DEF IInv, TypeOK, Progress, ResultKnown, NothingWaits, Start, Provokes, Return, Statement,
         Stages
<1>6. SidesAgree'
  BY DEF IInv, TypeOK, Progress, NothingWaits, SidesAgree, Start, Provokes, Return, Statement
<1>7. TruthfulSuccess'
  BY DEF TypeOK, Progress, ResultKnown, TruthfulSuccess, Start, Provokes, Return,
         Returned, Statement, Stages
<1>8. TruthfulErrorUnlessWarned'
  BY DEF TypeOK, Progress, ResultKnown, TruthfulErrorUnlessWarned, Start, Provokes,
         Return, Returned, Statement, Stages
<1>9. ChangesWarningsLogged'
  BY DEF TypeOK, Progress, ResultKnown, ChangesWarningsLogged, Start, Provokes, Return,
         Returned, Statement, Stages
<1> QED
  BY <1>1, <1>2, <1>3, <1>4, <1>5, <1>6, <1>7, <1>8, <1>9 DEF IInv

LEMMA SendStep ==
  ASSUME IInv, Send
  PROVE  IInv'
<1>1. TypeOK'
  <2>1. client' \in Client
    BY ClientType DEF IInv, TypeOK, Call, Send, Executes, Refuses, Unsent
  <2>2. call' \in Call /\ pc' \in Stages(call'.how)
    BY DEF IInv, TypeOK, Call, Stages, Send, Return, Goto
  <2>3. held' \subseteq {"stmt", "metadata", "rows"}
    BY DEF IInv, TypeOK, Send
  <2>4. active' \in BOOLEAN /\ open' \in BOOLEAN /\ strayed' \in BOOLEAN
    BY DEF IInv, TypeOK, Send, Executes, Refuses, Unsent
  <2>5. /\ logger' \in BOOLEAN /\ forgets' \in BOOLEAN /\ provoked' \in BOOLEAN
        /\ accepted' \in BOOLEAN /\ broken' \in BOOLEAN /\ logged' \in BOOLEAN
    BY DEF IInv, TypeOK, Send, Executes, Refuses, Unsent
  <2>6. stmt' \in {"none", "null", "ready"} /\ answer' \in Answer
    BY DEF IInv, TypeOK, Answer, Send, Return, Goto
  <2> QED
    BY <2>1, <2>2, <2>3, <2>4, <2>5, <2>6 DEF TypeOK, Answer
<1>2. HeldByStage'
  BY DEF IInv, HeldByStage, Send, Refuses, Unsent, Return, Goto, OutOfSync
<1>3. Progress'
  BY DEF IInv, TypeOK, Progress, Send, Executes, Refuses, Unsent, Return, Goto, OutOfSync,
         Statement, Provokes
<1>4. ResultKnown'
  BY DEF TypeOK, Progress, ResultKnown, Send, Executes, Refuses, Unsent, Return, Goto,
         OutOfSync, Provokes, Statement, Stages
<1>5. NothingWaits'
  BY DEF IInv, TypeOK, Progress, ResultKnown, NothingWaits, Send, Refuses, Unsent, Return, Goto,
         OutOfSync, Fresh, Provokes, Statement, Stages
<1>6. SidesAgree'
  BY DEF IInv, TypeOK, Progress, NothingWaits, SidesAgree, Send, Executes, Refuses, Unsent,
         Return, Goto, OutOfSync, Statement, Provokes
<1>7. TruthfulSuccess'
  BY DEF TypeOK, Progress, ResultKnown, TruthfulSuccess, Send, Refuses, Unsent, Return,
         Goto, OutOfSync, Returned, Provokes, Statement, Stages
<1>8. TruthfulErrorUnlessWarned'
  BY DEF IInv, TypeOK, Progress, ResultKnown, TruthfulErrorUnlessWarned, Send, Refuses, Unsent,
         Return, Goto, OutOfSync, Returned, Provokes, Statement, Stages
<1>9. ChangesWarningsLogged'
  BY DEF IInv, TypeOK, Progress, ResultKnown, ChangesWarningsLogged, Send, Refuses, Unsent,
         Return, Goto, OutOfSync, Returned, Provokes, Statement, Stages
<1> QED
  BY <1>1, <1>2, <1>3, <1>4, <1>5, <1>6, <1>7, <1>8, <1>9 DEF IInv

LEMMA LogWarningsStep ==
  ASSUME IInv, LogWarnings
  PROVE  IInv'
<1>1. TypeOK'
  <2>1. client' \in Client
    BY ClientType DEF IInv, TypeOK, LogWarnings
  <2>2. call' \in Call /\ pc' \in Stages(call'.how)
    BY DEF IInv, TypeOK, Call, Stages, LogWarnings, AfterWarnings, Return, Goto
  <2>3. held' \subseteq {"stmt", "metadata", "rows"}
    BY DEF IInv, TypeOK, LogWarnings
  <2>4. active' \in BOOLEAN /\ open' \in BOOLEAN /\ strayed' \in BOOLEAN
    BY DEF IInv, TypeOK, LogWarnings
  <2>5. /\ logger' \in BOOLEAN /\ forgets' \in BOOLEAN /\ provoked' \in BOOLEAN
        /\ accepted' \in BOOLEAN /\ broken' \in BOOLEAN /\ logged' \in BOOLEAN
    BY DEF IInv, TypeOK, LogWarnings
  <2>6. stmt' \in {"none", "null", "ready"} /\ answer' \in Answer
    BY DEF IInv, TypeOK, Answer, LogWarnings, AfterWarnings, Return, Goto
  <2> QED
    BY <2>1, <2>2, <2>3, <2>4, <2>5, <2>6 DEF TypeOK, Answer
<1>2. HeldByStage'
  BY DEF IInv, HeldByStage, LogWarnings, AfterWarnings, Return, Goto, OutOfSync
<1>3. Progress'
  BY DEF IInv, TypeOK, Progress, LogWarnings, AfterWarnings, Return, Goto, OutOfSync, Statement,
         Provokes
<1>4. ResultKnown'
  BY DEF IInv, TypeOK, Progress, ResultKnown, LogWarnings, AfterWarnings, Return, Goto,
         OutOfSync, Fresh, Provokes, AsksForWarnings, Statement, Stages, AfterCommand
<1>5. NothingWaits'
  BY DEF IInv, TypeOK, Progress, ResultKnown, NothingWaits, LogWarnings, AfterWarnings, Return,
         Goto, OutOfSync, Fresh, Provokes, Call, Statement, Stages, AfterCommand
<1>6. SidesAgree'
  BY DEF IInv, TypeOK, Progress, NothingWaits, SidesAgree, LogWarnings, AfterWarnings, Return,
         OutOfSync, Statement, Provokes
<1>7. TruthfulSuccess'
  BY DEF IInv, TypeOK, Progress, ResultKnown, TruthfulSuccess, LogWarnings, AfterWarnings,
         Return, Goto, OutOfSync, Returned, Provokes, Call, Statement, Stages
<1>8. TruthfulErrorUnlessWarned'
  BY DEF TypeOK, Progress, ResultKnown, TruthfulErrorUnlessWarned, LogWarnings,
         AfterWarnings, Return, Goto, OutOfSync, Returned, Provokes, Statement, Stages
<1>9. ChangesWarningsLogged'
  BY DEF IInv, TypeOK, Progress, ResultKnown, ChangesWarningsLogged, LogWarnings, Return,
         OutOfSync, Returned, AsksForWarnings, Provokes, Statement, Stages, AfterCommand
<1> QED
  BY <1>1, <1>2, <1>3, <1>4, <1>5, <1>6, <1>7, <1>8, <1>9 DEF IInv

LEMMA StoreStep ==
  ASSUME IInv, Store
  PROVE  IInv'
<1>1. TypeOK'
  <2>1. client' \in Client
    BY ClientType DEF IInv, TypeOK, Store
  <2>2. call' \in Call /\ pc' \in Stages(call'.how)
    BY DEF IInv, TypeOK, Call, Stages, Store, Return
  <2>3. held' \subseteq {"stmt", "metadata", "rows"}
    BY DEF IInv, TypeOK, Store
  <2>4. active' \in BOOLEAN /\ open' \in BOOLEAN /\ strayed' \in BOOLEAN
    BY DEF IInv, TypeOK, Store
  <2>5. /\ logger' \in BOOLEAN /\ forgets' \in BOOLEAN /\ provoked' \in BOOLEAN
        /\ accepted' \in BOOLEAN /\ broken' \in BOOLEAN /\ logged' \in BOOLEAN
    BY DEF IInv, TypeOK, Store
  <2>6. stmt' \in {"none", "null", "ready"} /\ answer' \in Answer
    BY DEF IInv, TypeOK, Answer, Store, Return
  <2> QED
    BY <2>1, <2>2, <2>3, <2>4, <2>5, <2>6 DEF TypeOK, Answer
<1>2. HeldByStage'
  BY DEF IInv, HeldByStage, Store, Return, Readable
<1>3. Progress'
  BY DEF IInv, TypeOK, Progress, Store, Return, Readable, Statement, Provokes
<1>4. ResultKnown'
  BY DEF TypeOK, Progress, ResultKnown, Store, Return, Readable, Provokes, Statement,
         Stages
<1>5. NothingWaits'
  BY DEF IInv, TypeOK, Progress, ResultKnown, NothingWaits, Store, Return, Readable, AfterStore,
         Client, Provokes, Statement, Stages
<1>6. SidesAgree'
  BY DEF IInv, TypeOK, Progress, NothingWaits, SidesAgree, Store, Return, Readable, Statement,
         Provokes
<1>7. TruthfulSuccess'
  BY DEF IInv, TypeOK, Progress, ResultKnown, TruthfulSuccess, Store, Return, Readable,
         Returned, Provokes, Statement, Stages
<1>8. TruthfulErrorUnlessWarned'
  BY DEF IInv, TypeOK, Progress, ResultKnown, TruthfulErrorUnlessWarned, Store, Return,
         Readable, Returned, AsksForWarnings, Provokes, Statement, Stages, AfterCommand
<1>9. ChangesWarningsLogged'
  BY DEF IInv, TypeOK, Progress, ResultKnown, ChangesWarningsLogged, Store, Return, Readable,
         Returned, AsksForWarnings, Provokes, Statement, Stages
<1> QED
  BY <1>1, <1>2, <1>3, <1>4, <1>5, <1>6, <1>7, <1>8, <1>9 DEF IInv

LEMMA StmtInitStep ==
  ASSUME IInv, StmtInit
  PROVE  IInv'
<1>1. TypeOK'
  <2>1. client' \in Client
    BY ClientType DEF IInv, TypeOK, StmtInit
  <2>2. call' \in Call /\ pc' \in Stages(call'.how)
    BY DEF IInv, TypeOK, Call, Stages, StmtInit, Goto
  <2>3. held' \subseteq {"stmt", "metadata", "rows"}
    BY DEF IInv, TypeOK, StmtInit
  <2>4. active' \in BOOLEAN /\ open' \in BOOLEAN /\ strayed' \in BOOLEAN
    BY DEF IInv, TypeOK, StmtInit
  <2>5. /\ logger' \in BOOLEAN /\ forgets' \in BOOLEAN /\ provoked' \in BOOLEAN
        /\ accepted' \in BOOLEAN /\ broken' \in BOOLEAN /\ logged' \in BOOLEAN
    BY DEF IInv, TypeOK, StmtInit
  <2>6. stmt' \in {"none", "null", "ready"} /\ answer' \in Answer
    BY DEF IInv, TypeOK, Answer, StmtInit, Goto, Registered
  <2> QED
    BY <2>1, <2>2, <2>3, <2>4, <2>5, <2>6 DEF TypeOK, Answer
<1>2. HeldByStage'
  BY DEF IInv, HeldByStage, StmtInit, Registered, Goto
<1>3. Progress'
  BY DEF IInv, TypeOK, Progress, StmtInit, Registered, Goto, Statement, Provokes
<1>4. ResultKnown'
  BY DEF TypeOK, Progress, ResultKnown, StmtInit, Registered, Goto, Provokes, Statement,
         Stages
<1>5. NothingWaits'
  BY DEF IInv, TypeOK, Progress, ResultKnown, NothingWaits, StmtInit, Registered, Provokes,
         Statement, Stages
<1>6. SidesAgree'
  BY DEF IInv, TypeOK, Progress, NothingWaits, SidesAgree, StmtInit, Registered, Goto,
         Statement, Provokes
<1>7. TruthfulSuccess'
  BY DEF IInv, TypeOK, Progress, ResultKnown, TruthfulSuccess, StmtInit, Registered, Goto,
         Returned, Provokes, Statement, Stages
<1>8. TruthfulErrorUnlessWarned'
  BY DEF IInv, TypeOK, Progress, ResultKnown, TruthfulErrorUnlessWarned, StmtInit, Registered,
         Returned, Provokes, Statement, Stages, Client
<1>9. ChangesWarningsLogged'
  BY DEF IInv, TypeOK, Progress, ResultKnown, ChangesWarningsLogged, StmtInit, Registered,
         Returned, Provokes, Statement, Stages, Client
<1> QED
  BY <1>1, <1>2, <1>3, <1>4, <1>5, <1>6, <1>7, <1>8, <1>9 DEF IInv

LEMMA StmtPrepareStep ==
  ASSUME IInv, StmtPrepare
  PROVE  IInv'
<1>1. TypeOK'
  <2>1. client' \in Client
    BY ClientType DEF IInv, TypeOK, StmtPrepare
  <2>2. call' \in Call /\ pc' \in Stages(call'.how)
    BY DEF IInv, TypeOK, Call, Stages, StmtPrepare, Goto
  <2>3. held' \subseteq {"stmt", "metadata", "rows"}
    BY DEF TypeOK, StmtPrepare
  <2>4. active' \in BOOLEAN /\ open' \in BOOLEAN /\ strayed' \in BOOLEAN
    BY DEF IInv, TypeOK, StmtPrepare
  <2>5. /\ logger' \in BOOLEAN /\ forgets' \in BOOLEAN /\ provoked' \in BOOLEAN
        /\ accepted' \in BOOLEAN /\ broken' \in BOOLEAN /\ logged' \in BOOLEAN
    BY DEF IInv, TypeOK, StmtPrepare
  <2>6. stmt' \in {"none", "null", "ready"} /\ answer' \in Answer
    BY DEF IInv, TypeOK, Answer, StmtPrepare, Goto, Registered
  <2> QED
    BY <2>1, <2>2, <2>3, <2>4, <2>5, <2>6 DEF TypeOK, Answer
<1>2. HeldByStage'
  BY DEF HeldByStage, StmtPrepare, Registered, Goto, OutOfSync
<1>3. Progress'
  BY DEF IInv, TypeOK, Progress, StmtPrepare, Registered, Goto, OutOfSync, Statement, Provokes
<1>4. ResultKnown'
  BY DEF TypeOK, Progress, ResultKnown, StmtPrepare, Registered, Goto, OutOfSync,
         Provokes, Statement, Stages
<1>5. NothingWaits'
  BY DEF IInv, TypeOK, Progress, ResultKnown, NothingWaits, StmtPrepare, Registered, OutOfSync,
         Fresh, Provokes, Statement, Stages
<1>6. SidesAgree'
  BY DEF IInv, TypeOK, Progress, NothingWaits, SidesAgree, StmtPrepare, Registered, Goto,
         OutOfSync, Statement, Provokes
<1>7. TruthfulSuccess'
  BY DEF IInv, TypeOK, Progress, ResultKnown, TruthfulSuccess, StmtPrepare, Registered, Goto,
         OutOfSync, Returned, Provokes, Statement, Stages
<1>8. TruthfulErrorUnlessWarned'
  BY DEF IInv, TypeOK, Progress, ResultKnown, TruthfulErrorUnlessWarned, StmtPrepare,
         Registered, OutOfSync, Returned, Provokes, Statement, Stages
<1>9. ChangesWarningsLogged'
  BY DEF IInv, TypeOK, Progress, ResultKnown, ChangesWarningsLogged, StmtPrepare, Registered,
         OutOfSync, Returned, Provokes, Statement, Stages
<1> QED
  BY <1>1, <1>2, <1>3, <1>4, <1>5, <1>6, <1>7, <1>8, <1>9 DEF IInv

LEMMA ResetStep ==
  ASSUME IInv, Reset
  PROVE  IInv'
<1>1. TypeOK'
  <2>1. client' \in Client
    BY ClientType DEF IInv, TypeOK, Reset
  <2>2. call' \in Call /\ pc' \in Stages(call'.how)
    BY DEF IInv, TypeOK, Call, Stages, Reset, Goto
  <2>3. held' \subseteq {"stmt", "metadata", "rows"}
    BY DEF IInv, TypeOK, Reset
  <2>4. active' \in BOOLEAN /\ open' \in BOOLEAN /\ strayed' \in BOOLEAN
    BY DEF IInv, TypeOK, Reset
  <2>5. /\ logger' \in BOOLEAN /\ forgets' \in BOOLEAN /\ provoked' \in BOOLEAN
        /\ accepted' \in BOOLEAN /\ broken' \in BOOLEAN /\ logged' \in BOOLEAN
    BY DEF IInv, TypeOK, Reset
  <2>6. stmt' \in {"none", "null", "ready"} /\ answer' \in Answer
    BY DEF IInv, TypeOK, Answer, Reset, Goto
  <2> QED
    BY <2>1, <2>2, <2>3, <2>4, <2>5, <2>6 DEF TypeOK, Answer
<1>2. HeldByStage'
  BY DEF IInv, HeldByStage, Reset, Goto
<1>3. Progress'
  BY DEF IInv, TypeOK, Progress, Reset, Goto, Statement, Provokes
<1>4. ResultKnown'
  BY DEF TypeOK, Progress, ResultKnown, Reset, Goto, Provokes, Statement, Stages
<1>5. NothingWaits'
  BY DEF IInv, TypeOK, Progress, ResultKnown, NothingWaits, Reset, Fresh, Provokes, Statement,
         Stages
<1>6. SidesAgree'
  BY DEF IInv, TypeOK, Progress, NothingWaits, SidesAgree, Reset, Goto, Statement, Provokes
<1>7. TruthfulSuccess'
  BY DEF TypeOK, Progress, ResultKnown, TruthfulSuccess, Reset, Goto, Returned, Provokes,
         Statement, Stages
<1>8. TruthfulErrorUnlessWarned'
  BY DEF IInv, TypeOK, Progress, ResultKnown, TruthfulErrorUnlessWarned, Reset, Returned,
         Provokes, Statement, Stages
<1>9. ChangesWarningsLogged'
  BY DEF IInv, TypeOK, Progress, ResultKnown, ChangesWarningsLogged, Reset, Returned, Provokes,
         Statement, Stages
<1> QED
  BY <1>1, <1>2, <1>3, <1>4, <1>5, <1>6, <1>7, <1>8, <1>9 DEF IInv

LEMMA StmtExecuteStep ==
  ASSUME IInv, StmtExecute
  PROVE  IInv'
<1>1. TypeOK'
  <2>1. client' \in Client
    BY ClientType DEF IInv, TypeOK, Call, StmtExecute, Executes, Refuses, Unsent
  <2>2. call' \in Call /\ pc' \in Stages(call'.how)
    BY DEF IInv, TypeOK, Call, Stages, StmtExecute, Leave, Goto
  <2>3. held' \subseteq {"stmt", "metadata", "rows"}
    BY DEF IInv, TypeOK, StmtExecute
  <2>4. active' \in BOOLEAN /\ open' \in BOOLEAN /\ strayed' \in BOOLEAN
    BY DEF IInv, TypeOK, StmtExecute, Executes, Refuses, Unsent
  <2>5. /\ logger' \in BOOLEAN /\ forgets' \in BOOLEAN /\ provoked' \in BOOLEAN
        /\ accepted' \in BOOLEAN /\ broken' \in BOOLEAN /\ logged' \in BOOLEAN
    BY DEF IInv, TypeOK, StmtExecute, Executes, Refuses, Unsent
  <2>6. stmt' \in {"none", "null", "ready"} /\ answer' \in Answer
    BY DEF IInv, TypeOK, Answer, StmtExecute, Leave, Goto
  <2> QED
    BY <2>1, <2>2, <2>3, <2>4, <2>5, <2>6 DEF TypeOK, Answer
<1>2. HeldByStage'
  BY DEF IInv, HeldByStage, StmtExecute, Refuses, Unsent, Leave, Goto, OutOfSync
<1>3. Progress'
  BY DEF IInv, TypeOK, Progress, StmtExecute, Executes, Refuses, Unsent, Leave, Goto, OutOfSync,
         Statement, Provokes, Stages
<1>4. ResultKnown'
  BY DEF IInv, TypeOK, Progress, ResultKnown, StmtExecute, Executes, Refuses, Unsent, Leave,
         Goto, OutOfSync, Provokes, Statement, Stages
<1>5. NothingWaits'
  BY DEF IInv, TypeOK, Progress, ResultKnown, NothingWaits, StmtExecute, Executes, Refuses,
         Unsent, Leave, Goto, OutOfSync, Fresh, Provokes, Statement, Stages
<1>6. SidesAgree'
  BY DEF IInv, TypeOK, Progress, NothingWaits, SidesAgree, StmtExecute, Executes, Refuses,
         Unsent, Leave, OutOfSync, Statement, Provokes, Stages
<1>7. TruthfulSuccess'
  BY DEF TypeOK, Progress, ResultKnown, TruthfulSuccess, StmtExecute, Refuses, Unsent,
         Leave, Goto, OutOfSync, Returned, Provokes, Statement, Stages
<1>8. TruthfulErrorUnlessWarned'
  BY DEF TypeOK, Progress, ResultKnown, TruthfulErrorUnlessWarned, StmtExecute, Refuses,
         Unsent, Leave, Goto, OutOfSync, Returned, Provokes, Statement, Stages
<1>9. ChangesWarningsLogged'
  BY DEF TypeOK, Progress, ResultKnown, ChangesWarningsLogged, StmtExecute, Refuses,
         Unsent, Leave, OutOfSync, Returned, Provokes, Statement, Stages
<1> QED
  BY <1>1, <1>2, <1>3, <1>4, <1>5, <1>6, <1>7, <1>8, <1>9 DEF IInv

LEMMA MetadataStep ==
  ASSUME IInv, Metadata
  PROVE  IInv'
<1>1. TypeOK'
  <2>1. client' \in Client
    BY ClientType DEF IInv, TypeOK, Metadata
  <2>2. call' \in Call /\ pc' \in Stages(call'.how)
    BY DEF IInv, TypeOK, Call, Stages, Metadata, Goto, Fails, Leave
  <2>3. held' \subseteq {"stmt", "metadata", "rows"}
    BY DEF IInv, TypeOK, Metadata
  <2>4. active' \in BOOLEAN /\ open' \in BOOLEAN /\ strayed' \in BOOLEAN
    BY DEF IInv, TypeOK, Metadata
  <2>5. /\ logger' \in BOOLEAN /\ forgets' \in BOOLEAN /\ provoked' \in BOOLEAN
        /\ accepted' \in BOOLEAN /\ broken' \in BOOLEAN /\ logged' \in BOOLEAN
    BY DEF IInv, TypeOK, Metadata, Fails
  <2>6. stmt' \in {"none", "null", "ready"} /\ answer' \in Answer
    BY DEF IInv, TypeOK, Answer, Metadata, Goto, Fails, Leave
  <2> QED
    BY <2>1, <2>2, <2>3, <2>4, <2>5, <2>6 DEF TypeOK, Answer
<1>2. HeldByStage'
  BY DEF IInv, HeldByStage, Metadata, Goto, Fails, Leave
<1>3. Progress'
  BY DEF IInv, TypeOK, Progress, Metadata, Goto, Fails, Leave, Statement, Provokes
<1>4. ResultKnown'
  BY DEF TypeOK, Progress, ResultKnown, Metadata, Goto, Fails, Leave, Provokes, Statement,
         Stages
<1>5. NothingWaits'
  BY DEF IInv, TypeOK, Progress, ResultKnown, NothingWaits, Metadata, Goto, Fails, Leave,
         Provokes, Statement, Stages
<1>6. SidesAgree'
  BY DEF IInv, TypeOK, Progress, NothingWaits, SidesAgree, Metadata, Leave, Statement, Provokes
<1>7. TruthfulSuccess'
  BY DEF TypeOK, Progress, ResultKnown, TruthfulSuccess, Metadata, Goto, Fails, Leave,
         Returned, Provokes, Statement, Stages
<1>8. TruthfulErrorUnlessWarned'
  BY DEF TypeOK, Progress, ResultKnown, TruthfulErrorUnlessWarned, Metadata, Goto, Fails,
         Leave, Returned, Provokes, Statement, Stages
<1>9. ChangesWarningsLogged'
  BY DEF IInv, TypeOK, Progress, ResultKnown, ChangesWarningsLogged, Metadata, Leave, Returned,
         Provokes, Statement, Stages
<1> QED
  BY <1>1, <1>2, <1>3, <1>4, <1>5, <1>6, <1>7, <1>8, <1>9 DEF IInv

LEMMA BindResultStep ==
  ASSUME IInv, BindResult
  PROVE  IInv'
<1>1. TypeOK'
  <2>1. client' \in Client
    BY ClientType DEF IInv, TypeOK, BindResult
  <2>2. call' \in Call /\ pc' \in Stages(call'.how)
    BY DEF IInv, TypeOK, Call, Stages, BindResult, Goto, Fails, Leave
  <2>3. held' \subseteq {"stmt", "metadata", "rows"}
    BY DEF IInv, TypeOK, BindResult
  <2>4. active' \in BOOLEAN /\ open' \in BOOLEAN /\ strayed' \in BOOLEAN
    BY DEF IInv, TypeOK, BindResult
  <2>5. /\ logger' \in BOOLEAN /\ forgets' \in BOOLEAN /\ provoked' \in BOOLEAN
        /\ accepted' \in BOOLEAN /\ broken' \in BOOLEAN /\ logged' \in BOOLEAN
    BY DEF IInv, TypeOK, BindResult, Fails
  <2>6. stmt' \in {"none", "null", "ready"} /\ answer' \in Answer
    BY DEF IInv, TypeOK, Answer, BindResult, Goto, Fails, Leave
  <2> QED
    BY <2>1, <2>2, <2>3, <2>4, <2>5, <2>6 DEF TypeOK, Answer
<1>2. HeldByStage'
  BY DEF IInv, HeldByStage, BindResult, Goto, Fails, Leave
<1>3. Progress'
  BY DEF IInv, TypeOK, Progress, BindResult, Goto, Fails, Leave, Statement, Provokes
<1>4. ResultKnown'
  BY DEF TypeOK, Progress, ResultKnown, BindResult, Goto, Fails, Leave, Provokes,
         Statement, Stages
<1>5. NothingWaits'
  BY DEF IInv, TypeOK, Progress, ResultKnown, NothingWaits, BindResult, Goto, Fails, Leave,
         Provokes, Statement, Stages
<1>6. SidesAgree'
  BY DEF IInv, TypeOK, Progress, NothingWaits, SidesAgree, BindResult, Leave, Statement,
         Provokes
<1>7. TruthfulSuccess'
  BY DEF TypeOK, Progress, ResultKnown, TruthfulSuccess, BindResult, Goto, Fails, Leave,
         Returned, Provokes, Statement, Stages
<1>8. TruthfulErrorUnlessWarned'
  BY DEF TypeOK, Progress, ResultKnown, TruthfulErrorUnlessWarned, BindResult, Goto,
         Fails, Leave, Returned, Provokes, Statement, Stages
<1>9. ChangesWarningsLogged'
  BY DEF IInv, TypeOK, Progress, ResultKnown, ChangesWarningsLogged, BindResult, Leave,
         Returned, Provokes, Statement, Stages
<1> QED
  BY <1>1, <1>2, <1>3, <1>4, <1>5, <1>6, <1>7, <1>8, <1>9 DEF IInv

LEMMA StoreResultStep ==
  ASSUME IInv, StoreResult
  PROVE  IInv'
<1>1. TypeOK'
  <2>1. client' \in Client
    BY ClientType DEF IInv, TypeOK, StoreResult
  <2>2. call' \in Call /\ pc' \in Stages(call'.how)
    BY DEF IInv, TypeOK, Call, Stages, StoreResult, Goto, Fails, Leave
  <2>3. held' \subseteq {"stmt", "metadata", "rows"}
    BY DEF IInv, TypeOK, StoreResult
  <2>4. active' \in BOOLEAN /\ open' \in BOOLEAN /\ strayed' \in BOOLEAN
    BY DEF IInv, TypeOK, StoreResult
  <2>5. /\ logger' \in BOOLEAN /\ forgets' \in BOOLEAN /\ provoked' \in BOOLEAN
        /\ accepted' \in BOOLEAN /\ broken' \in BOOLEAN /\ logged' \in BOOLEAN
    BY DEF IInv, TypeOK, StoreResult, Fails
  <2>6. stmt' \in {"none", "null", "ready"} /\ answer' \in Answer
    BY DEF IInv, TypeOK, Answer, StoreResult, Goto, Fails, Leave
  <2> QED
    BY <2>1, <2>2, <2>3, <2>4, <2>5, <2>6 DEF TypeOK, Answer
<1>2. HeldByStage'
  BY DEF IInv, HeldByStage, StoreResult, Goto, Fails, Leave
<1>3. Progress'
  BY DEF IInv, TypeOK, Progress, StoreResult, Goto, Fails, Leave, Statement, Provokes
<1>4. ResultKnown'
  BY DEF TypeOK, Progress, ResultKnown, StoreResult, Goto, Fails, Leave, Provokes,
         Statement, Stages
<1>5. NothingWaits'
  BY DEF IInv, TypeOK, Progress, ResultKnown, NothingWaits, StoreResult, Goto, Fails, Leave,
         Provokes, Statement, Stages
<1>6. SidesAgree'
  BY DEF IInv, TypeOK, Progress, NothingWaits, SidesAgree, StoreResult, Leave, Statement,
         Provokes
<1>7. TruthfulSuccess'
  BY DEF TypeOK, Progress, ResultKnown, TruthfulSuccess, StoreResult, Goto, Fails, Leave,
         Returned, Provokes, Statement, Stages
<1>8. TruthfulErrorUnlessWarned'
  BY DEF TypeOK, Progress, ResultKnown, TruthfulErrorUnlessWarned, StoreResult, Goto,
         Fails, Leave, Returned, Provokes, Statement, Stages
<1>9. ChangesWarningsLogged'
  BY DEF IInv, TypeOK, Progress, ResultKnown, ChangesWarningsLogged, StoreResult, Leave,
         Returned, Provokes, Statement, Stages
<1> QED
  BY <1>1, <1>2, <1>3, <1>4, <1>5, <1>6, <1>7, <1>8, <1>9 DEF IInv

LEMMA FetchStep ==
  ASSUME IInv, Fetch
  PROVE  IInv'
<1>1. TypeOK'
  <2>1. client' \in Client
    BY ClientType DEF IInv, TypeOK, Fetch
  <2>2. call' \in Call /\ pc' \in Stages(call'.how)
    BY DEF IInv, TypeOK, Call, Stages, Fetch, Fails, Leave
  <2>3. held' \subseteq {"stmt", "metadata", "rows"}
    BY DEF IInv, TypeOK, Fetch
  <2>4. active' \in BOOLEAN /\ open' \in BOOLEAN /\ strayed' \in BOOLEAN
    BY DEF IInv, TypeOK, Fetch
  <2>5. /\ logger' \in BOOLEAN /\ forgets' \in BOOLEAN /\ provoked' \in BOOLEAN
        /\ accepted' \in BOOLEAN /\ broken' \in BOOLEAN /\ logged' \in BOOLEAN
    BY DEF IInv, TypeOK, Fetch, Fails
  <2>6. stmt' \in {"none", "null", "ready"} /\ answer' \in Answer
    BY DEF IInv, TypeOK, Answer, Fetch, Fails, Leave
  <2> QED
    BY <2>1, <2>2, <2>3, <2>4, <2>5, <2>6 DEF TypeOK, Answer
<1>2. HeldByStage'
  BY DEF IInv, HeldByStage, Fetch, Fails, Leave
<1>3. Progress'
  BY DEF IInv, TypeOK, Progress, Fetch, Fails, Leave, Statement, Provokes
<1>4. ResultKnown'
  BY DEF IInv, TypeOK, Progress, ResultKnown, Fetch, Fails, Leave, Provokes, Statement, Stages
<1>5. NothingWaits'
  BY DEF IInv, TypeOK, Progress, ResultKnown, NothingWaits, Fetch, Fails, Leave, Provokes,
         Statement, Stages
<1>6. SidesAgree'
  BY DEF IInv, TypeOK, Progress, NothingWaits, SidesAgree, Fetch, Leave, Statement, Provokes
<1>7. TruthfulSuccess'
  BY DEF TypeOK, Progress, ResultKnown, TruthfulSuccess, Fetch, Fails, Leave, Returned,
         Provokes, Statement, Stages
<1>8. TruthfulErrorUnlessWarned'
  BY DEF TypeOK, Progress, ResultKnown, TruthfulErrorUnlessWarned, Fetch, Fails, Leave,
         Returned, Provokes, Statement, Stages
<1>9. ChangesWarningsLogged'
  BY DEF IInv, TypeOK, Progress, ResultKnown, ChangesWarningsLogged, Fetch, Leave, Returned,
         Provokes, Statement, Stages
<1> QED
  BY <1>1, <1>2, <1>3, <1>4, <1>5, <1>6, <1>7, <1>8, <1>9 DEF IInv

LEMMA FinishStep ==
  ASSUME IInv, Finish
  PROVE  IInv'
<1>1. TypeOK'
  <2>1. client' \in Client
    BY ClientType DEF IInv, TypeOK, Finish
  <2>2. call' \in Call /\ pc' \in Stages(call'.how)
    BY DEF IInv, TypeOK, Call, Stages, Finish
  <2>3. held' \subseteq {"stmt", "metadata", "rows"}
    BY DEF IInv, TypeOK, Finish
  <2>4. active' \in BOOLEAN /\ open' \in BOOLEAN /\ strayed' \in BOOLEAN
    BY DEF IInv, TypeOK, Finish
  <2>5. /\ logger' \in BOOLEAN /\ forgets' \in BOOLEAN /\ provoked' \in BOOLEAN
        /\ accepted' \in BOOLEAN /\ broken' \in BOOLEAN /\ logged' \in BOOLEAN
    BY DEF IInv, TypeOK, Finish
  <2>6. stmt' \in {"none", "null", "ready"} /\ answer' \in Answer
    BY DEF IInv, TypeOK, Answer, Finish
  <2> QED
    BY <2>1, <2>2, <2>3, <2>4, <2>5, <2>6 DEF TypeOK, Answer
<1>2. HeldByStage'
  BY DEF IInv, HeldByStage, Finish
<1>3. Progress'
  BY DEF IInv, TypeOK, Progress, Finish, Statement, Provokes
<1>4. ResultKnown'
  BY DEF TypeOK, Progress, ResultKnown, Finish, Provokes, Statement, Stages
<1>5. NothingWaits'
  BY DEF IInv, TypeOK, Progress, ResultKnown, NothingWaits, Finish, Fresh, Provokes, Statement,
         Stages
<1>6. SidesAgree'
  BY DEF IInv, TypeOK, Progress, NothingWaits, SidesAgree, Finish, Statement, Provokes
<1>7. TruthfulSuccess'
  BY DEF IInv, TypeOK, Progress, ResultKnown, TruthfulSuccess, Finish, Returned, Provokes,
         Statement, Stages
<1>8. TruthfulErrorUnlessWarned'
  BY DEF IInv, TypeOK, Progress, ResultKnown, TruthfulErrorUnlessWarned, Finish, Returned,
         Provokes, Statement, Stages
<1>9. ChangesWarningsLogged'
  BY DEF IInv, TypeOK, Progress, ResultKnown, ChangesWarningsLogged, Finish, Returned,
         AsksForWarnings, Provokes, Call, Statement, Stages
<1> QED
  BY <1>1, <1>2, <1>3, <1>4, <1>5, <1>6, <1>7, <1>8, <1>9 DEF IInv

LEMMA ReconnectStep ==
  ASSUME IInv, Reconnect
  PROVE  IInv'
<1>1. TypeOK'
  <2>1. client' \in Client
    BY ClientType DEF IInv, TypeOK, Reconnect
  <2>2. call' \in Call /\ pc' \in Stages(call'.how)
    BY DEF IInv, TypeOK, Stages, Reconnect
  <2>3. held' \subseteq {"stmt", "metadata", "rows"}
    BY DEF IInv, TypeOK, Reconnect
  <2>4. active' \in BOOLEAN /\ open' \in BOOLEAN /\ strayed' \in BOOLEAN
    BY DEF IInv, TypeOK, Reconnect
  <2>5. /\ logger' \in BOOLEAN /\ forgets' \in BOOLEAN /\ provoked' \in BOOLEAN
        /\ accepted' \in BOOLEAN /\ broken' \in BOOLEAN /\ logged' \in BOOLEAN
    BY DEF IInv, TypeOK, Reconnect
  <2>6. stmt' \in {"none", "null", "ready"} /\ answer' \in Answer
    BY DEF IInv, TypeOK, Answer, Reconnect
  <2> QED
    BY <2>1, <2>2, <2>3, <2>4, <2>5, <2>6 DEF TypeOK, Answer
<1>2. HeldByStage'
  BY DEF IInv, HeldByStage, Reconnect
<1>3. Progress'
  BY DEF IInv, TypeOK, Progress, Reconnect, Statement, Provokes
<1>4. ResultKnown'
  BY DEF TypeOK, Progress, ResultKnown, Reconnect, Provokes, Statement, Stages
<1>5. NothingWaits'
  BY DEF TypeOK, Progress, ResultKnown, NothingWaits, Reconnect, Fresh, Provokes,
         Statement, Stages
<1>6. SidesAgree'
  BY DEF IInv, TypeOK, Progress, NothingWaits, SidesAgree, Reconnect, Statement, Provokes
<1>7. TruthfulSuccess'
  BY DEF IInv, TypeOK, Progress, ResultKnown, TruthfulSuccess, Reconnect, Returned, Provokes,
         Statement, Stages
<1>8. TruthfulErrorUnlessWarned'
  BY DEF IInv, TypeOK, Progress, ResultKnown, TruthfulErrorUnlessWarned, Reconnect, Returned,
         AsksForWarnings, Provokes, Statement, Stages
<1>9. ChangesWarningsLogged'
  BY DEF IInv, TypeOK, Progress, ResultKnown, ChangesWarningsLogged, Reconnect, Returned,
         AsksForWarnings, Provokes, Statement, Stages
<1> QED
  BY <1>1, <1>2, <1>3, <1>4, <1>5, <1>6, <1>7, <1>8, <1>9 DEF IInv

-----------------------------------------------------------------------------

LEMMA StepHolds ==
  ASSUME IInv, [Next]_vars
  PROVE  IInv'
<1>1. CASE UNCHANGED vars
  BY <1>1 DEF vars, IInv, TypeOK, HeldByStage, Progress, ResultKnown, NothingWaits, SidesAgree,
         TruthfulSuccess, TruthfulErrorUnlessWarned, ChangesWarningsLogged, Returned,
         AsksForWarnings, Provokes
<1>2. CASE Next
  BY <1>2, StartStep, SendStep, LogWarningsStep, StoreStep, StmtInitStep, StmtPrepareStep,
     ResetStep, StmtExecuteStep, MetadataStep, BindResultStep, StoreResultStep, FetchStep,
     FinishStep, ReconnectStep DEF Next
<1> QED
  BY <1>1, <1>2

LEMMA AlwaysHolds == Spec => []IInv
  BY InitHolds, StepHolds, PTL DEF Spec

\* Every kind of call makes its own library calls, in order.
THEOREM ClientTypeCorrect == Spec => []TypeOK
<1>1. IInv => TypeOK
  BY DEF IInv
<1> QED
  BY <1>1, AlwaysHolds, PTL

\* After every call that did not provoke the connection, on every path out of
\* it, no rows wait and the next command will be taken.
THEOREM NextCommandTaken == Spec => []ReadyBetweenCalls
<1>1. IInv => ReadyBetweenCalls
  BY DEF IInv, NothingWaits, ReadyBetweenCalls
<1> QED
  BY <1>1, AlwaysHolds, PTL

\* Every path out of a call gives back the statement, the metadata and the
\* buffered rows it took.
THEOREM AllGivenBack == Spec => []NothingHeld
<1>1. IInv => NothingHeld
  BY DEF IInv, HeldByStage, NothingHeld
<1> QED
  BY <1>1, AlwaysHolds, PTL

\* No BEGIN, COMMIT or ROLLBACK is lost to what an earlier call left behind:
\* the server is in a transaction exactly while the handle is active.
THEOREM HandleAndServerAgree == Spec => []TransactionsAgree
<1>1. IInv => TransactionsAgree
  BY DEF IInv, SidesAgree, TransactionsAgree
<1> QED
  BY <1>1, AlwaysHolds, PTL

\* A call that reports success had its statement executed.
THEOREM SuccessIsTrue == Spec => []TruthfulSuccess
<1>1. IInv => TruthfulSuccess
  BY DEF IInv
<1> QED
  BY <1>1, AlwaysHolds, PTL

\* A call that reports an error, and did not ask for warnings, had its statement
\* refused, or a call of the client library failed.
THEOREM ErrorIsTrue == Spec => []TruthfulErrorUnlessWarned
<1>1. IInv => TruthfulErrorUnlessWarned
  BY DEF IInv
<1> QED
  BY <1>1, AlwaysHolds, PTL

\* The warnings of a change reach the logger, unless asking for them failed.
THEOREM WarningsReachLogger == Spec => []ChangesWarningsLogged
<1>1. IInv => ChangesWarningsLogged
  BY DEF IInv
<1> QED
  BY <1>1, AlwaysHolds, PTL

=============================================================================
