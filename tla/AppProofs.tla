------------------------------ MODULE AppProofs ------------------------------
(***************************************************************************)
(* Theorems about App: the accounts keep their promises inside the         *)
(* process, answers and metrics agree with the rows, and the Redis client  *)
(* follows the event loop and its shutdown.                                *)
(***************************************************************************)
EXTENDS App, AccountsProofs

-----------------------------------------------------------------------------
(* The accounts run inside the process as they run alone. *)

LEMMA AppStepsAccounts == AppNext => [Next]_accountVars
<1> SUFFICES ASSUME AppNext PROVE [Next]_accountVars
  OBVIOUS
<1>1. Clients \subseteq Requests /\ Scripts \subseteq Requests
  BY AppAssumption DEF Clients
<1>2. ASSUME NEW r \in Clients, Arrive(r) PROVE [Next]_accountVars
  BY <1>1, <1>2 DEF Arrive, Next
<1>3. ASSUME NEW r \in Clients, Progress(r) \/ Depart(r) PROVE [Next]_accountVars
  BY <1>1, <1>3 DEF Progress, Depart, AccountAnswers, OtherAnswers, Next
<1>4. ASSUME NEW r \in Scripts, Seed(r) PROVE [Next]_accountVars
  BY <1>1, <1>4 DEF Seed, Next
<1>5. CASE Process
  BY <1>5 DEF Process
<1> QED BY <1>2, <1>3, <1>4, <1>5 DEF AppNext

(* Whatever lifespans, loops, the sweeper and other requests do, the        *)
(* accounts behave as domains/auth alone: every theorem about Accounts      *)
(* holds of the application.                                                *)
THEOREM AppAccounts == AppSpec => Spec /\ RefinesNames
<1>1. AppInit => Init
  BY DEF AppInit
<1>2. [AppNext]_vars => [Next]_accountVars
  BY AppStepsAccounts DEF vars
<1> QED BY <1>1, <1>2, NamesAreAtomic, PTL DEF AppSpec, Spec

(* No two accounts of the application have the same name: the unique index  *)
(* of users.username, whatever else the process is doing.                   *)
THEOREM AppNamesUnique == AppSpec => []NamesUnique
  BY AppAccounts, UniqueNames, PTL

-----------------------------------------------------------------------------
(* The row of a registration *)

(* A registration has its row to itself until it commits, and for good if   *)
(* the name was taken; from the commit on the row exists.                   *)
RowsReserved == \A r \in Requests :
    /\ pc[r] = "load" => kind[r] = "rename"
    /\ pc[r] = "idle" <=> kind[r] = "none"
    /\ outcome[r] = "skipped" => kind[r] = "seed"
    /\ pc[r] = "refresh" \/ outcome[r] = "done" => name[row[r]] # None
    /\ /\ kind[r] \in {"register", "seed"}
       /\ pc[r] \in {"check", "flush", "commit"} \/ outcome[r] \in {"taken", "skipped"}
       => name[row[r]] = None /\ \A s \in Requests \ {r} : row[s] # row[r]

LEMMA RowsStayReserved ==
    ASSUME AInv, RowsReserved, Next
    PROVE  RowsReserved'
<1> USE AccountsAssumption DEF AInv, AccountsTypeOK, RowsReserved
<1>1. ASSUME NEW r \in Requests, NEW k \in {"register", "rename", "seed"},
             NEW u \in Users, NEW n \in Usernames, Start(r, k, u, n)
      PROVE  RowsReserved'
  <2>1. /\ name' = name /\ outcome' = outcome
        /\ \A s \in Requests \ {r} : pc'[s] = pc[s] /\ kind'[s] = kind[s] /\ row'[s] = row[s]
        /\ kind'[r] = k /\ row'[r] = u /\ pc'[r] = IF k = "rename" THEN "load" ELSE "check"
        /\ outcome[r] = "none"
        /\ k = "rename" => name[u] # None
        /\ k # "rename" => u \in Unused
    BY <1>1 DEF Start, Goto
  <2>2. k # "rename" => name[u] = None /\ \A s \in Requests : row[s] # u
    BY <2>1 DEF Unused
  <2> QED BY <2>1, <2>2
<1>2. ASSUME NEW r \in Requests, Load(r) \/ Check(r) \/ Flush(r) \/ Refresh(r) \/ Break(r)
      PROVE  RowsReserved'
  <2>1. /\ UNCHANGED <<name, kind, row>>
        /\ \A s \in Requests \ {r} : pc'[s] = pc[s] /\ outcome'[s] = outcome[s]
    BY <1>2 DEF Load, Check, Flush, Refresh, Break, Decide, Goto, request
  <2>2. CASE Load(r)
    BY <2>1, <2>2 DEF Load, Decide, Goto
  <2>3. CASE Check(r)
    BY <2>1, <2>3 DEF Check, Decide, Goto
  <2>4. CASE Flush(r)
    BY <2>1, <2>4 DEF Flush, Decide, Goto, OnConflict
  <2>5. CASE Refresh(r) \/ Break(r)
    BY <2>1, <2>5 DEF Refresh, Break, Decide, Goto
  <2> QED BY <1>2, <2>2, <2>3, <2>4, <2>5
<1>3. ASSUME NEW r \in Requests, Commit(r) PROVE RowsReserved'
  <2>1. /\ UNCHANGED <<kind, row, outcome>> /\ row[r] \in Users /\ want[r] \in Usernames
        /\ \A s \in Requests \ {r} : pc'[s] = pc[s]
        /\ pc[r] = "commit" /\ pc'[r] = "refresh" /\ outcome[r] = "none"
        /\ \A u \in Users : name'[u] = IF u = row[r] THEN want[r] ELSE name[u]
    BY <1>3 DEF Commit, Goto, request
  <2> QED BY <2>1
<1>4. ASSUME NEW r \in Requests, Answer(r) PROVE RowsReserved'
  <2>1. /\ name' = name
        /\ \A s \in Requests \ {r} : /\ pc'[s] = pc[s] /\ kind'[s] = kind[s] /\ row'[s] = row[s]
                                     /\ outcome'[s] = outcome[s]
        /\ pc'[r] = "idle" /\ kind'[r] = "none" /\ row'[r] = None /\ outcome'[r] = "none"
    BY <1>4 DEF Answer, Goto
  <2> QED BY <2>1
<1> QED BY <1>1, <1>2, <1>3, <1>4 DEF Next, Step

-----------------------------------------------------------------------------
(* The process: loops, lifespans, the Redis client and the sweeper *)

ProcessTypes ==
    /\ loop \in 1..MaxLoops /\ client \in 0..loop /\ open \subseteq 1..loop
    /\ phase \in {"bare", "up", "closing", "down"} /\ sweeper \in {"none", "round", "sleep"}
    /\ held \in [Srv!Tasks -> 0..loop] /\ DOMAIN stage = Clients

(* From the moment the lifespan is told to end nobody is left who would     *)
(* build a client: requests are answered and the sweeper is cancelled.      *)
ClosingIsQuiet ==
    phase \in {"closing", "down"} => client = 0 /\ \A r \in Clients : stage[r] = "idle"

(* Only a request on its way and a round of the sweeper hold a client, and  *)
(* the sweeper lives between the two ends of a lifespan.                    *)
HoldersRun ==
    /\ \A r \in Clients : held[r] # 0 => stage[r] = "in"
    /\ held[ExpiryTask] # 0 => sweeper = "round"
    /\ phase = "bare" => sweeper = "none"

PInv ==
    /\ ProcessTypes /\ ClosingIsQuiet /\ HoldersRun
    /\ HeldClientsWork /\ CleanShutdown

LEMMA TasksOfTheProcess ==
    /\ ExpiryTask \in Srv!Tasks /\ ExpiryTask \notin Clients
    /\ Clients \subseteq Srv!Tasks /\ Srv!Tasks = Clients \cup {ExpiryTask}
  BY AppAssumption DEF Srv!Tasks, Clients

(* When requests have gone and the sweeper is not in a round nobody holds.  *)
LEMMA NobodyHolds ==
    ASSUME PInv, \A r \in Clients : stage[r] = "idle", sweeper # "round"
    PROVE  \A t \in Srv!Tasks : held[t] = 0
  BY TasksOfTheProcess DEF PInv, HoldersRun

(* What a request does to the process: it lets go of its client, or nothing. *)
LEMMA RequestsAndTheProcess ==
    ASSUME PInv, NEW r \in Clients,
           Arrive(r) \/ Progress(r) \/ Depart(r)
    PROVE  PInv'
<1>1. UNCHANGED <<loop, phase, client, open, sweeper>>
  BY DEF Arrive, Progress, Depart, AccountAnswers, OtherAnswers, serverVars,
         Srv!Receive, Srv!Respond, Srv!Raise, Srv!Leave, Srv!process
<1>2. /\ DOMAIN stage' = Clients
      /\ \/ UNCHANGED <<stage, held>>
         \/ /\ \A s \in Clients \ {r} : stage'[s] = stage[s]
            /\ \/ stage[r] = "in" /\ held' = [held EXCEPT ![r] = 0]
               \/ stage[r] = "over" /\ held' = held
               \/ stage[r] = "idle" /\ held' = held /\ phase \in {"bare", "up"}
  <2>1. DOMAIN stage = Clients
    BY DEF PInv, ProcessTypes
  <2>2. CASE Arrive(r) \/ Depart(r)
    BY <2>1, <2>2 DEF Arrive, Depart, Srv!Receive, Srv!Leave
  <2>3. ASSUME NEW status, NEW count, Srv!Finish(r, status, count)
        PROVE  /\ DOMAIN stage' = Clients /\ \A s \in Clients \ {r} : stage'[s] = stage[s]
               /\ stage[r] = "in" /\ held' = [held EXCEPT ![r] = 0]
    BY <2>1, <2>3 DEF Srv!Finish, Srv!LetGo
  <2>4. CASE AccountAnswers(r) \/ OtherAnswers(r)
    BY <2>3, <2>4 DEF AccountAnswers, OtherAnswers, Srv!Respond, Srv!Raise
  <2>5. CASE UNCHANGED serverVars
    BY <2>1, <2>5 DEF serverVars
  <2> QED BY <2>2, <2>4, <2>5 DEF Progress
<1>3. ProcessTypes' /\ CleanShutdown'
  BY <1>1, <1>2 DEF PInv, ProcessTypes, CleanShutdown
<1>4. ClosingIsQuiet'
  BY <1>1, <1>2 DEF PInv, ClosingIsQuiet
<1>5. \A t \in Srv!Tasks : held'[t] # 0 => held'[t] = held[t]
  BY <1>2 DEF PInv, ProcessTypes
<1>6. HeldClientsWork'
  BY <1>1, <1>5 DEF PInv, HeldClientsWork, Srv!Cancelled
<1>7. HoldersRun'
  <2>1. held'[r] # 0 => UNCHANGED <<stage, held>>
    BY <1>2, TasksOfTheProcess DEF PInv, ProcessTypes, HoldersRun
  <2>2. \A s \in Clients : held'[s] # 0 => held[s] # 0 /\ stage'[s] = stage[s]
    BY <1>2, <1>5, <2>1, TasksOfTheProcess
  <2> QED BY <1>1, <1>5, <2>2, TasksOfTheProcess DEF PInv, HoldersRun
<1> QED BY <1>3, <1>4, <1>6, <1>7 DEF PInv

LEMMA RedisAndTheProcess ==
    ASSUME PInv, phase \notin {"closing", "down"}, NEW t \in Srv!Tasks, Srv!GetRedis(t),
           t \in Clients => stage[t] = "in", t = ExpiryTask => sweeper = "round",
           UNCHANGED <<loop, phase, sweeper, stage>>
    PROVE  PInv'
<1>1. /\ client' = loop /\ open' = open \cup {loop} /\ held' = [held EXCEPT ![t] = loop]
      /\ loop \in 1..MaxLoops
  BY DEF Srv!GetRedis, Srv!Usable, PInv, ProcessTypes
<1>2. ProcessTypes' /\ CleanShutdown' /\ ClosingIsQuiet'
  BY <1>1, AppAssumption DEF PInv, ProcessTypes, CleanShutdown, ClosingIsQuiet
<1>3. \A s \in Srv!Tasks : held'[s] = IF s = t THEN loop ELSE held[s]
  BY <1>1 DEF PInv, ProcessTypes
<1>4. HeldClientsWork'
  BY <1>1, <1>3 DEF PInv, HeldClientsWork, Srv!Cancelled
<1>5. HoldersRun'
  BY <1>3, TasksOfTheProcess DEF PInv, HoldersRun
<1> QED BY <1>2, <1>4, <1>5 DEF PInv

(* The sweeper lets go, or changes between its round and its sleep. *)
LEMMA SweeperAndTheProcess ==
    ASSUME PInv, sweeper # "none", UNCHANGED <<loop, phase, client, open, stage>>,
           \/ sweeper' \in {"none", "sleep"} /\ held' = [held EXCEPT ![ExpiryTask] = 0]
           \/ sweeper' = "round" /\ held' = held
    PROVE  PInv'
<1>1. \A t \in Srv!Tasks : held'[t] # 0 =>
        held'[t] = held[t] /\ (t = ExpiryTask => sweeper' = "round")
  BY DEF PInv, ProcessTypes
<1>2. ProcessTypes' /\ CleanShutdown' /\ ClosingIsQuiet'
  BY DEF PInv, ProcessTypes, CleanShutdown, ClosingIsQuiet
<1>3. HeldClientsWork'
  BY <1>1 DEF PInv, HeldClientsWork, Srv!Cancelled
<1>4. HoldersRun'
  BY <1>1, TasksOfTheProcess DEF PInv, HoldersRun
<1> QED BY <1>2, <1>3, <1>4 DEF PInv

LEMMA ProcessMoves ==
    ASSUME PInv, Process
    PROVE  PInv'
<1>1. CASE Srv!Startup
  <2>1. /\ phase = "bare" /\ phase' = "up" /\ client' = loop /\ open' = open \cup {loop}
        /\ sweeper' = "round" /\ UNCHANGED <<loop, held, stage>>
        /\ \A t \in Srv!Tasks : held[t] = 0
    BY <1>1, NobodyHolds DEF Srv!Startup, Srv!Usable, Srv!Quiet, Srv!pipeline, PInv, HoldersRun
  <2> QED BY <2>1, TasksOfTheProcess
          DEF PInv, ProcessTypes, ClosingIsQuiet, HoldersRun, HeldClientsWork, CleanShutdown
<1>2. CASE Srv!Shutdown
  <2>1. /\ phase = "up" /\ phase' = "closing" /\ client' = 0
        /\ UNCHANGED <<loop, open, sweeper, held, stage>>
        /\ \A r \in Clients : stage[r] = "idle" /\ held[r] = 0
    BY <1>2 DEF Srv!Shutdown, Srv!Quiet, Srv!pipeline, PInv, HoldersRun
  <2> QED BY <2>1, TasksOfTheProcess
          DEF PInv, ProcessTypes, ClosingIsQuiet, HoldersRun, HeldClientsWork, CleanShutdown,
              Srv!Cancelled
<1>3. CASE Srv!Closed
  <2>1. /\ phase = "closing" /\ phase' = "down" /\ open' = open \ {loop}
        /\ UNCHANGED <<loop, client, sweeper, held, stage>>
        /\ \A r \in Clients : held[r] = 0
    BY <1>3 DEF Srv!Closed, Srv!pipeline, PInv, ClosingIsQuiet, HoldersRun
  <2> QED BY <2>1, TasksOfTheProcess
          DEF PInv, ProcessTypes, ClosingIsQuiet, HoldersRun, HeldClientsWork, CleanShutdown,
              Srv!Cancelled
<1>4. CASE Srv!ForgetClient
  <2>1. /\ phase = "bare" /\ client' = 0 /\ open' \subseteq open
        /\ UNCHANGED <<loop, phase, sweeper, held, stage>>
        /\ \A t \in Srv!Tasks : held[t] = 0
    BY <1>4, NobodyHolds DEF Srv!ForgetClient, Srv!Quiet, Srv!pipeline, PInv, HoldersRun
  <2> QED BY <2>1
          DEF PInv, ProcessTypes, ClosingIsQuiet, HoldersRun, HeldClientsWork, CleanShutdown
<1>5. CASE Srv!NextLoop
  <2>1. /\ loop' = loop + 1 /\ loop < MaxLoops /\ phase' = "bare" /\ sweeper = "none"
        /\ UNCHANGED <<client, open, sweeper, held, stage>>
        /\ \A t \in Srv!Tasks : held[t] = 0
    BY <1>5, NobodyHolds DEF Srv!NextLoop, Srv!Quiet, Srv!pipeline
  <2> QED BY <2>1, AppAssumption, TasksOfTheProcess
          DEF PInv, ProcessTypes, ClosingIsQuiet, HoldersRun, HeldClientsWork, CleanShutdown
<1>6. CASE Srv!SweeperStep
  <2>1. CASE Srv!SweeperInvalidates
    BY <2>1, RedisAndTheProcess, TasksOfTheProcess
       DEF Srv!SweeperInvalidates, Srv!Cancelled, Srv!pipeline
  <2>2. CASE Srv!SweeperRound \/ Srv!SweeperWakes \/ Srv!SweeperEnds
    BY <2>2, SweeperAndTheProcess
       DEF Srv!SweeperRound, Srv!SweeperWakes, Srv!SweeperEnds, Srv!LetGo, Srv!pipeline
  <2> QED BY <1>6, <2>1, <2>2 DEF Srv!SweeperStep
<1>7. ASSUME NEW r \in Clients, Srv!RequestUsesRedis(r) PROVE PInv'
  <2>1. /\ Srv!GetRedis(r) /\ UNCHANGED <<loop, phase, sweeper, stage>> /\ stage[r] = "in"
        /\ phase \notin {"closing", "down"}
    BY <1>7 DEF Srv!RequestUsesRedis, PInv, ClosingIsQuiet, Srv!pipeline
  <2> QED BY <2>1, RedisAndTheProcess, TasksOfTheProcess
<1> QED BY <1>1, <1>2, <1>3, <1>4, <1>5, <1>6, <1>7 DEF Process

LEMMA ProcessInvariant == AppSpec => []PInv
<1>1. AppInit => PInv
  BY AppAssumption, TasksOfTheProcess
     DEF AppInit, Srv!Init, PInv, ProcessTypes, ClosingIsQuiet, HoldersRun, HeldClientsWork,
         CleanShutdown
<1>2. PInv /\ [AppNext]_vars => PInv'
  <2>1. ASSUME PInv, UNCHANGED serverVars PROVE PInv'
    BY <2>1 DEF serverVars, PInv, ProcessTypes, ClosingIsQuiet, HoldersRun, HeldClientsWork,
                CleanShutdown, Srv!Cancelled
  <2>2. ASSUME PInv, AppNext PROVE PInv'
    BY <2>1, <2>2, RequestsAndTheProcess, ProcessMoves DEF AppNext, Seed
  <2> QED BY <2>1, <2>2 DEF vars
<1> QED BY <1>1, <1>2, PTL DEF AppSpec

(* A client that a request or a round of the sweeper got from get_redis is  *)
(* open and on the running loop as long as the task may use it, in whatever *)
(* order loops, lifespans and close_redis follow each other.                *)
THEOREM RedisFollowsTheLoop == AppSpec => []HeldClientsWork
<1>1. PInv => HeldClientsWork
  BY DEF PInv
<1> QED BY <1>1, ProcessInvariant, PTL

(* A lifespan that has ended leaves no client of its loop open: cancel()    *)
(* comes before close_redis (lifespan).                                     *)
THEOREM ShutdownIsClean == AppSpec => []CleanShutdown
<1>1. PInv => CleanShutdown
  BY DEF PInv
<1> QED BY <1>1, ProcessInvariant, PTL

-----------------------------------------------------------------------------
(* The way of a request, and its answer *)

PipelineTypes ==
    /\ stage \in [Clients -> {"idle", "in", "over"}]
    /\ route \in [Clients -> Srv!Routes \cup {"none"}]
    /\ answer \in [Clients -> Nat] /\ DOMAIN counted = Clients

(* The metrics have counted nothing before the answer, and afterwards the   *)
(* status of the answer or the 500 of an exception behind it.               *)
CountedOnce == \A r \in Clients :
    /\ stage[r] # "over" \/ ~Srv!Observed(r) => counted[r] = <<>>
    /\ stage[r] = "over" /\ Srv!Observed(r) => counted[r] \in {<<answer[r]>>, <<500>>}

(* The handler of an account request and its place in the pipeline agree.   *)
HandlersMatch == \A r \in Clients :
    /\ stage[r] = "idle" => route[r] = "none"
    /\ stage[r] = "in" => route[r] \notin {"none", "preflight"}
    /\ Handled(r) <=> pc[r] # "idle"
    /\ Handled(r) => kind[r] = route[r]
    /\ stage[r] = "over" /\ Handled(r) => pc[r] = "answer"

(* What the client of a registration was told is its outcome.               *)
OutcomesAreTold == \A r \in Clients :
    stage[r] = "over" /\ route[r] = "register" =>
        \/ outcome[r] = "done" /\ answer[r] = 201
        \/ outcome[r] = "taken" /\ answer[r] = 409
        \/ outcome[r] = "error" /\ answer[r] = 500

QInv == PipelineTypes /\ CountedOnce /\ HandlersMatch /\ OutcomesAreTold

LEMMA OneCount == \A n : /\ <<>> \o <<n>> = <<n>>
                        /\ Len(<<n>>) <= 1 /\ Len(<<>>) <= 1
  OBVIOUS

(* The one step that answers request r. *)
LEMMA Finishes ==
    ASSUME QInv, NEW r \in Clients, NEW status \in Nat,
           NEW count \in {status, 500}, Srv!Finish(r, status, count),
           UNCHANGED <<route, accountVars>>,
           Handled(r) => pc[r] = "answer",
           route[r] = "register" => \/ outcome[r] = "done" /\ status = 201
                                    \/ outcome[r] = "taken" /\ status = 409
                                    \/ outcome[r] = "error" /\ status = 500
    PROVE  QInv'
<1>1. /\ stage[r] = "in" /\ stage'[r] = "over" /\ answer'[r] = status
      /\ \A s \in Clients \ {r} : /\ stage'[s] = stage[s] /\ answer'[s] = answer[s]
                                  /\ counted'[s] = counted[s]
      /\ UNCHANGED <<route, pc, kind, outcome>>
  BY DEF Srv!Finish, QInv, PipelineTypes, accountVars, request
<1>2. counted'[r] = IF Srv!Observed(r) THEN <<count>> ELSE <<>>
  <2>1. counted[r] = <<>> /\ r \in DOMAIN counted
    BY <1>1 DEF QInv, PipelineTypes, CountedOnce
  <2>2. counted'[r] = IF Srv!Observed(r) THEN counted[r] \o <<count>> ELSE counted[r]
    BY <2>1 DEF Srv!Finish, Srv!Observe
  <2> QED BY <2>1, <2>2, OneCount
<1>3. \A s \in Clients : Srv!Observed(s)' = Srv!Observed(s) /\ Handled(s)' = Handled(s)
  BY <1>1 DEF Srv!Observed, Handled
<1>4. PipelineTypes'
  BY DEF Srv!Finish, QInv, PipelineTypes
<1>5. CountedOnce'
  BY <1>1, <1>2, <1>3 DEF QInv, CountedOnce
<1>6. HandlersMatch'
  BY <1>1, <1>3 DEF QInv, HandlersMatch
<1>7. OutcomesAreTold'
  BY <1>1 DEF QInv, OutcomesAreTold
<1> QED BY <1>4, <1>5, <1>6, <1>7 DEF QInv

LEMMA ResponseKeepsQ ==
    ASSUME QInv, NEW r \in Clients, NEW status \in Nat,
           Srv!Respond(r, status) \/ (status = 500 /\ Srv!Raise(r)), UNCHANGED accountVars,
           Handled(r) => pc[r] = "answer",
           route[r] = "register" => \/ outcome[r] = "done" /\ status = 201
                                    \/ outcome[r] = "taken" /\ status = 409
                                    \/ outcome[r] = "error" /\ status = 500
    PROVE  QInv'
<1>1. UNCHANGED route
  BY DEF Srv!Respond, Srv!Raise
<1>2. \E count \in {status, 500} : Srv!Finish(r, status, count)
  BY DEF Srv!Respond, Srv!Raise, Srv!CountedOnException
<1> QED BY <1>1, <1>2, Finishes

LEMMA AccountAnswersKeepQ ==
    ASSUME AInv, RowsReserved, QInv, NEW r \in Clients, AccountAnswers(r)
    PROVE  QInv'
<1>1. /\ r \in Requests /\ kind[r] = route[r] /\ pc[r] = "answer"
      /\ outcome[r] \in {"done", "taken", "skipped", "error"} /\ kind[r] \in {"register", "rename"}
  BY DEF AccountAnswers, QInv, HandlersMatch, Handled, AInv, AccountsTypeOK, Clients
<1>2. outcome[r] # "skipped"
  BY <1>1 DEF RowsReserved
<1>3. CASE outcome[r] = "error"
  BY <1>1, <1>3, ResponseKeepsQ DEF AccountAnswers
<1>4. CASE outcome[r] = "taken"
  BY <1>1, <1>4, ResponseKeepsQ DEF AccountAnswers, StatusOf, Srv!status_code
<1>5. CASE outcome[r] = "done"
  BY <1>1, <1>5, ResponseKeepsQ DEF AccountAnswers, StatusOf
<1> QED BY <1>1, <1>2, <1>3, <1>4, <1>5

LEMMA OtherAnswersKeepQ ==
    ASSUME QInv, NEW r \in Clients, OtherAnswers(r)
    PROVE  QInv'
<1>1. ~Handled(r) /\ route[r] # "register" /\ UNCHANGED accountVars
  BY DEF OtherAnswers, Handled
<1>2. PICK status \in Nat :
        Srv!Respond(r, status) \/ (status = 500 /\ Srv!Raise(r))
  <2>1. \A e \in StoreErrors : Srv!status_code[e] \in Nat
    BY AppAssumption DEF Srv!status_code
  <2> QED BY <2>1 DEF OtherAnswers
<1> QED BY <1>1, <1>2, ResponseKeepsQ

(* A statement of a handler: its request is on its way.                     *)
LEMMA StatementsKeepQ ==
    ASSUME AInv, QInv, NEW r \in Requests, Step(r) \/ Break(r), UNCHANGED serverVars
    PROVE  QInv'
<1>1. /\ pc[r] \notin {"idle", "answer"} /\ pc'[r] # "idle" /\ kind' = kind
      /\ \A s \in Requests \ {r} : pc'[s] = pc[s] /\ outcome'[s] = outcome[s]
  BY DEF AInv, AccountsTypeOK, Step, Break, Load, Check, Flush, Commit, Refresh, Decide, Goto,
         request
<1>2. UNCHANGED <<stage, route, answer, counted>> /\ Clients \subseteq Requests
  BY DEF serverVars, Clients
<1>3. \A s \in Clients : Srv!Observed(s)' = Srv!Observed(s) /\ Handled(s)' = Handled(s)
  BY <1>2 DEF Srv!Observed, Handled
<1>4. PipelineTypes' /\ CountedOnce'
  BY <1>2, <1>3 DEF QInv, PipelineTypes, CountedOnce
<1>5. HandlersMatch'
  BY <1>1, <1>2, <1>3 DEF QInv, HandlersMatch
<1>6. \A s \in Clients : stage[s] = "over" /\ route[s] = "register" => s # r
  BY <1>1 DEF QInv, HandlersMatch, Handled
<1>7. OutcomesAreTold'
  BY <1>1, <1>2, <1>6 DEF QInv, OutcomesAreTold
<1> QED BY <1>4, <1>5, <1>7 DEF QInv

(* Steps that touch no client's request. *)
LEMMA OthersKeepQ ==
    ASSUME QInv, UNCHANGED <<stage, route, answer, counted>>,
           \A s \in Clients : pc'[s] = pc[s] /\ kind'[s] = kind[s] /\ outcome'[s] = outcome[s]
    PROVE  QInv'
<1>1. \A s \in Clients : Srv!Observed(s)' = Srv!Observed(s) /\ Handled(s)' = Handled(s)
  BY DEF Srv!Observed, Handled
<1>2. PipelineTypes' /\ CountedOnce'
  BY <1>1 DEF QInv, PipelineTypes, CountedOnce
<1>3. HandlersMatch'
  BY <1>1 DEF QInv, HandlersMatch
<1>4. OutcomesAreTold'
  BY DEF QInv, OutcomesAreTold
<1> QED BY <1>2, <1>3, <1>4 DEF QInv

LEMMA SeedsKeepQ ==
    ASSUME AInv, QInv, NEW r \in Scripts, Seed(r)
    PROVE  QInv'
<1>1. r \in Requests /\ r \notin Clients /\ Clients \subseteq Requests
  BY AppAssumption DEF Clients
<1>2. CASE Step(r) \/ Break(r)
  BY <1>1, <1>2, StatementsKeepQ DEF Seed
<1>3. CASE Answer(r) \/ \E u \in Users, n \in Usernames : Start(r, "seed", u, n)
  <2>1. \A s \in Clients : pc'[s] = pc[s] /\ kind'[s] = kind[s] /\ outcome'[s] = outcome[s]
    BY <1>1, <1>3 DEF AInv, AccountsTypeOK, Answer, Start, Goto
  <2> QED BY <2>1, OthersKeepQ DEF Seed, serverVars
<1> QED BY <1>2, <1>3 DEF Seed

LEMMA ArrivalsKeepQ ==
    ASSUME AInv, QInv, NEW r \in Clients, Arrive(r)
    PROVE  QInv'
<1>1. PICK k \in Srv!Routes :
        /\ Srv!Receive(r, k)
        /\ IF k \in {"register", "rename"}
           THEN \E u \in Users, n \in Usernames : Start(r, k, u, n)
           ELSE UNCHANGED accountVars
  BY DEF Arrive
<1>2. /\ stage[r] = "idle" /\ route[r] = "none" /\ pc[r] = "idle" /\ r \in Requests
      /\ Clients \subseteq Requests
  BY <1>1 DEF Srv!Receive, QInv, HandlersMatch, Handled, Clients
<1>3. /\ route'[r] = k /\ stage'[r] = (IF k = "preflight" THEN "over" ELSE "in")
      /\ answer'[r] = (IF k = "preflight" THEN 200 ELSE 0)
      /\ \A s \in Clients \ {r} :
           route'[s] = route[s] /\ stage'[s] = stage[s] /\ answer'[s] = answer[s]
      /\ counted' = counted
  BY <1>1 DEF Srv!Receive, QInv, PipelineTypes
<1>4. /\ \A s \in Clients \ {r} : pc'[s] = pc[s] /\ kind'[s] = kind[s] /\ outcome'[s] = outcome[s]
      /\ IF k \in {"register", "rename"} THEN pc'[r] # "idle" /\ kind'[r] = k ELSE pc'[r] = "idle"
  <2>1. CASE k \in {"register", "rename"}
    BY <1>1, <1>2, <2>1 DEF Start, Goto, AInv, AccountsTypeOK
  <2>2. CASE k \notin {"register", "rename"}
    BY <1>1, <1>2, <2>2 DEF accountVars, request
  <2> QED BY <2>1, <2>2
<1>5. PipelineTypes'
  BY <1>1 DEF Srv!Receive, QInv, PipelineTypes
<1>6. CountedOnce'
  BY <1>2, <1>3 DEF QInv, CountedOnce, Srv!Observed
<1>7. HandlersMatch'
  BY <1>1, <1>2, <1>3, <1>4 DEF QInv, HandlersMatch, Handled, Srv!Routes
<1>8. OutcomesAreTold'
  BY <1>3, <1>4 DEF QInv, OutcomesAreTold
<1> QED BY <1>5, <1>6, <1>7, <1>8 DEF QInv

LEMMA DeparturesKeepQ ==
    ASSUME AInv, QInv, NEW r \in Clients, Depart(r)
    PROVE  QInv'
<1>1. /\ stage'[r] = "idle" /\ route'[r] = "none" /\ counted'[r] = <<>>
      /\ \A s \in Clients \ {r} : /\ stage'[s] = stage[s] /\ route'[s] = route[s]
                                  /\ answer'[s] = answer[s] /\ counted'[s] = counted[s]
  BY DEF Depart, Srv!Leave, QInv, PipelineTypes
<1>2. /\ \A s \in Clients \ {r} : pc'[s] = pc[s] /\ kind'[s] = kind[s] /\ outcome'[s] = outcome[s]
      /\ pc'[r] = "idle"
  <2>1. Clients \subseteq Requests
    BY DEF Clients
  <2>2. CASE Handled(r)
    BY <2>1, <2>2 DEF Depart, Answer, Goto, AInv, AccountsTypeOK
  <2>3. CASE ~Handled(r)
    BY <2>3 DEF Depart, QInv, HandlersMatch, accountVars, request
  <2> QED BY <2>2, <2>3
<1>3. PipelineTypes'
  BY DEF Depart, Srv!Leave, QInv, PipelineTypes
<1>4. CountedOnce'
  BY <1>1 DEF QInv, CountedOnce, Srv!Observed
<1>5. HandlersMatch'
  BY <1>1, <1>2 DEF QInv, HandlersMatch, Handled
<1>6. OutcomesAreTold'
  BY <1>1, <1>2 DEF QInv, OutcomesAreTold
<1> QED BY <1>3, <1>4, <1>5, <1>6 DEF QInv

LEMMA PipelineInvariant == AppSpec => [](AInv /\ RowsReserved /\ QInv)
<1>1. AppInit => AInv /\ RowsReserved /\ QInv
  <2>1. Init => RowsReserved
    BY DEF Init, RowsReserved
  <2>2. Init /\ Srv!Init => QInv
    BY DEF Init, Srv!Init, QInv, PipelineTypes, CountedOnce, HandlersMatch, OutcomesAreTold,
           Handled, Srv!Observed, Clients
  <2> QED BY <2>1, <2>2, InitAInv DEF AppInit
<1>2. AInv /\ RowsReserved /\ QInv /\ [AppNext]_vars => (AInv /\ RowsReserved /\ QInv)'
  <2> SUFFICES ASSUME AInv, RowsReserved, QInv, [AppNext]_vars PROVE (AInv /\ RowsReserved /\ QInv)'
    OBVIOUS
  <2>1. [Next]_accountVars
    BY AppStepsAccounts DEF vars
  <2>2. AInv'
    BY <2>1, NextAInv
  <2>3. RowsReserved'
    <3>1. CASE Next
      BY <3>1, RowsStayReserved
    <3>2. CASE UNCHANGED accountVars
      BY <3>2 DEF accountVars, request, RowsReserved
    <3> QED BY <2>1, <3>1, <3>2
  <2>4. QInv'
    <3>1. CASE Process \/ UNCHANGED vars
      <4>1. UNCHANGED <<stage, route, answer, counted, pc, kind, outcome>>
        BY <3>1 DEF Process, vars, serverVars, accountVars, request, Srv!Startup, Srv!Shutdown,
                    Srv!Closed, Srv!ForgetClient, Srv!NextLoop, Srv!SweeperStep,
                    Srv!SweeperInvalidates, Srv!SweeperWakes, Srv!SweeperEnds, Srv!SweeperRound,
                    Srv!RequestUsesRedis, Srv!pipeline
      <4> QED BY <4>1, OthersKeepQ
    <3>2. ASSUME NEW r \in Clients, Progress(r) PROVE QInv'
      <4>1. r \in Requests
        BY DEF Clients
      <4> QED BY <3>2, <4>1, StatementsKeepQ, AccountAnswersKeepQ, OtherAnswersKeepQ DEF Progress
    <3> QED BY <3>1, <3>2, ArrivalsKeepQ, DeparturesKeepQ, SeedsKeepQ DEF AppNext
  <2> QED BY <2>2, <2>3, <2>4
<1> QED BY <1>1, <1>2, PTL DEF AppSpec

(* What a client of /register is told is true of the rows as long as it can *)
(* read the answer, and the metrics count that status or the 500 of a       *)
(* session that failed to close behind it: no row appears or disappears     *)
(* under an answer (register, save, and MetricsMiddleware).                 *)
THEOREM TruthfulAnswers == AppSpec => []AnswersTellTheTruth
<1>1. RowsReserved /\ QInv => AnswersTellTheTruth
  <2> SUFFICES ASSUME RowsReserved, QInv, NEW r \in Clients, stage[r] = "over"
               PROVE  /\ Srv!Observed(r) => counted[r] \in {<<answer[r]>>, <<500>>}
                      /\ route[r] = "register" =>
                            /\ answer[r] = 201 => name[row[r]] # None
                            /\ answer[r] = 409 => name[row[r]] = None
                            /\ name[row[r]] # None => counted[r] \in {<<201>>, <<500>>}
    BY DEF AnswersTellTheTruth
  <2>1. Srv!Observed(r) => counted[r] \in {<<answer[r]>>, <<500>>}
    BY DEF QInv, CountedOnce
  <2>2. ASSUME route[r] = "register"
        PROVE  /\ answer[r] = 201 => name[row[r]] # None
               /\ answer[r] = 409 => name[row[r]] = None
               /\ name[row[r]] # None => counted[r] \in {<<201>>, <<500>>}
    <3>1. r \in Requests /\ Srv!Observed(r) /\ kind[r] = "register"
      BY <2>2 DEF Srv!Observed, QInv, HandlersMatch, Handled, Clients
    <3>2. \/ outcome[r] = "done" /\ answer[r] = 201
          \/ outcome[r] = "taken" /\ answer[r] = 409
          \/ outcome[r] = "error" /\ answer[r] = 500
      BY <2>2 DEF QInv, OutcomesAreTold
    <3>3. /\ outcome[r] = "done" => name[row[r]] # None
          /\ outcome[r] = "taken" => name[row[r]] = None
      BY <3>1 DEF RowsReserved
    <3> QED BY <2>1, <3>1, <3>2, <3>3
  <2> QED BY <2>1, <2>2
<1> QED BY <1>1, PipelineInvariant, PTL

(* Types of the accounts, the process and the pipeline; a request is        *)
(* counted at most once, and a handler runs exactly for its route.          *)
THEOREM AppTypes == AppSpec => []TypeOK
<1>1. AInv /\ PInv /\ QInv => TypeOK
  <2> SUFFICES ASSUME AInv, PInv, QInv PROVE TypeOK
    OBVIOUS
  <2>1. \A r \in Clients : Len(counted[r]) <= 1 /\ (Handled(r) <=> pc[r] # "idle")
    <3>1. \A r \in Clients : counted[r] = <<>> \/ \E n : counted[r] = <<n>>
      BY DEF QInv, CountedOnce
    <3>3. \A r \in Clients : Len(counted[r]) <= 1
      BY <3>1, OneCount
    <3>4. \A r \in Clients : Handled(r) <=> pc[r] # "idle"
      BY DEF QInv, HandlersMatch
    <3> QED BY <3>3, <3>4
  <2> QED BY <2>1 DEF AInv, PInv, ProcessTypes, TypeOK
<1> QED BY <1>1, ProcessInvariant, PipelineInvariant, PTL
=============================================================================
