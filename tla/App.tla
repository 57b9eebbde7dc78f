--------------------------------- MODULE App ---------------------------------
(***************************************************************************)
(* The process and the accounts together: registrations and renames are    *)
(* requests of Server whose route is a handler of Accounts, the seed       *)
(* script runs beside them, and any other route does what it likes.        *)
(***************************************************************************)
EXTENDS Accounts, Naturals, Sequences

CONSTANTS
    Scripts,      \* the members of Requests that are runs of seed.py
    ExpiryTask,   \* the task of order_expiry_loop
    MaxLoops,     \* bound: event loops
    StoreErrors   \* bound: the business errors other routes raise

VARIABLES
    loop, phase, client, open, held, sweeper,
    stage, route, answer, counted

Clients == Requests \ Scripts

Srv == INSTANCE Server WITH Requests <- Clients

ASSUME AppAssumption ==
    /\ Scripts \subseteq Requests /\ MaxLoops \in Nat \ {0} /\ ExpiryTask \notin Requests
    /\ StoreErrors \subseteq DOMAIN Srv!status_code

serverVars == <<loop, phase, client, open, held, sweeper, stage, route, answer, counted>>
vars == <<accountVars, serverVars>>

AppInit == Init /\ Srv!Init

Handled(r) == route[r] \in {"register", "rename"}

(* A request arrives; the two auth routes start their handler.              *)
Arrive(r) == \E k \in Srv!Routes :
    /\ Srv!Receive(r, k)
    /\ IF k \in {"register", "rename"}
       THEN \E u \in Users, n \in Usernames : Start(r, k, u, n)
       ELSE UNCHANGED accountVars

(* 201 for a registration, 200 for a rename, DuplicateUsernameError.        *)
StatusOf(r) ==
    IF outcome[r] = "taken" THEN Srv!status_code.DuplicateUsernameError
    ELSE IF kind[r] = "register" THEN 201 ELSE 200

AccountAnswers(r) ==
    /\ Handled(r) /\ pc[r] = "answer" /\ UNCHANGED accountVars
    /\ IF outcome[r] = "error"
       THEN Srv!Raise(r)
       ELSE Srv!Respond(r, StatusOf(r))

(* A result, an error of the framework (404, 422), a business error, or an  *)
(* exception.                                                               *)
OtherAnswers(r) ==
    /\ route[r] \in {"scrape", "other"} /\ UNCHANGED accountVars
    /\ \/ Srv!Respond(r, 200)
       \/ route[r] = "other" /\ Srv!Respond(r, 422)
       \/ route[r] = "other" /\ \E e \in StoreErrors : Srv!Respond(r, Srv!status_code[e])
       \/ Srv!Raise(r)

Depart(r) ==
    /\ Srv!Leave(r)
    /\ IF Handled(r) THEN Answer(r) ELSE UNCHANGED accountVars

(* What a request in flight does next. *)
Progress(r) ==
    \/ (Step(r) \/ Break(r)) /\ UNCHANGED serverVars
    \/ AccountAnswers(r) \/ OtherAnswers(r)

Seed(r) ==
    /\ \/ \E u \in Users, n \in Usernames : Start(r, "seed", u, n)
       \/ Step(r) \/ Break(r) \/ Answer(r)
    /\ UNCHANGED serverVars

Process ==
    /\ \/ Srv!Startup \/ Srv!Shutdown \/ Srv!Closed \/ Srv!ForgetClient \/ Srv!NextLoop
       \/ Srv!SweeperStep
       \/ \E r \in Clients : Srv!RequestUsesRedis(r)
    /\ UNCHANGED accountVars

AppNext ==
    \/ Process
    \/ \E r \in Clients : Arrive(r) \/ Progress(r) \/ Depart(r)
    \/ \E r \in Scripts : Seed(r)

AppSpec == AppInit /\ [][AppNext]_vars

-----------------------------------------------------------------------------
(* Properties *)

TypeOK ==
    /\ AccountsTypeOK
    /\ loop \in 1..MaxLoops /\ client \in 0..loop /\ open \subseteq 1..loop
    /\ phase \in {"bare", "up", "closing", "down"} /\ sweeper \in {"none", "round", "sleep"}
    /\ held \in [Srv!Tasks -> 0..loop]
    /\ \A r \in Clients : Len(counted[r]) <= 1 /\ (Handled(r) <=> pc[r] # "idle")

(* What a client is told about its name is true and is what the metrics     *)
(* count: a 2xx means the account exists, a 409 that nothing was created,   *)
(* and an account whose request broke is a 500 in both.                     *)
AnswersTellTheTruth ==
    \A r \in Clients : stage[r] = "over" =>
        /\ Srv!Observed(r) => counted[r] \in {<<answer[r]>>, <<500>>}
        /\ route[r] = "register" =>
              /\ answer[r] = 201 => name[row[r]] # None
              /\ answer[r] = 409 => name[row[r]] = None
              /\ name[row[r]] # None => counted[r] \in {<<201>>, <<500>>}

(* Whoever has been given a client and may still send commands, a request   *)
(* or a round of the sweeper, finds it open and on the event loop that      *)
(* runs: no close_redis, lifespan or change of loop takes it away between   *)
(* get_redis and its last use.                                              *)
HeldClientsWork ==
    \A t \in Srv!Tasks : held[t] # 0 /\ (t = ExpiryTask => ~Srv!Cancelled) =>
        held[t] = loop /\ loop \in open

(* When a lifespan has ended no client of its loop is open or will be: the  *)
(* sweeper is cancelled before close_redis gives the loop away (lifespan).  *)
CleanShutdown == phase = "down" => client = 0 /\ loop \notin open
=============================================================================
