-------------------------------- MODULE Server -------------------------------
(***************************************************************************)
(* One process of the application: the lifespan of main.py with the expiry *)
(* task, the Redis client of core/redis.py, and the way of a request       *)
(* through the middleware (outermost first: the 500 handler, CORS,         *)
(* metrics, request id, the handlers of business errors, the route).       *)
(* Uvicorn answers what is in flight before it ends the lifespan; tests    *)
(* run the application without a lifespan, each call on a loop of its own. *)
(***************************************************************************)
EXTENDS Naturals, Sequences

CONSTANTS
    Requests,   \* HTTP requests in flight
    ExpiryTask, \* the task of order_expiry_loop
    MaxLoops    \* bound: event loops the process goes through

VARIABLES
    loop,       \* the event loop that runs
    phase,      \* of the lifespan on it: "bare" (none), "up", "closing", "down"
    client,     \* _redis and _loop: the loop of the client, 0 for None
    open,       \* loops whose client is not closed
    held,       \* task -> loop of the client it got from get_redis and may yet use
    sweeper,    \* order_expiry_loop: "none", "round" or "sleep"
    stage,      \* request -> "idle", "in" or "over"
    route,      \* request -> what it asks for
    answer,     \* request -> the status the client got, 0 before
    counted     \* request -> the statuses REQUESTS_TOTAL counted for it

process == <<loop, phase, client, open, sweeper>>
pipeline == <<stage, route, answer, counted>>
serverVars == <<process, held, pipeline>>

Tasks == Requests \cup {ExpiryTask}

(* "other" is any route that is not told apart here.                        *)
Routes == {"preflight", "scrape", "other", "register", "rename"}

(* The subclasses of AppError and the status each is answered with.         *)
status_code ==
    [NotFoundError |-> 404, ConflictError |-> 409, UnauthorizedError |-> 401,
     ForbiddenError |-> 403, BadRequestError |-> 400, TooManyRequestsError |-> 429,
     InvalidCredentialsError |-> 401, InvalidTokenError |-> 401, DuplicateUsernameError |-> 409,
     ProductNotFoundError |-> 404, ProductDelistedError |-> 410,
     InsufficientStockError |-> 409, OrderNotFoundError |-> 404,
     InvalidOrderStateError |-> 409]

Init ==
    /\ loop = 1 /\ phase = "bare" /\ client = 0 /\ open = {} /\ sweeper = "none"
    /\ held = [t \in Tasks |-> 0]
    /\ stage = [r \in Requests |-> "idle"] /\ route = [r \in Requests |-> "none"]
    /\ answer = [r \in Requests |-> 0] /\ counted = [r \in Requests |-> <<>>]

-----------------------------------------------------------------------------
(* core/redis.py *)

(* Mutant: a client is built once and kept for ever. *)
UsableOnce == client # 0

Usable == client = loop

(* redis = await get_redis(): commands on it may follow until the task lets *)
(* go of it, other tasks running in between.                                *)
GetRedis(t) ==
    /\ client' = IF Usable THEN client ELSE loop
    /\ open' = open \cup {client'}
    /\ held' = [held EXCEPT ![t] = client']

LetGo(t) == held' = [held EXCEPT ![t] = 0]

Quiet == \A r \in Requests : stage[r] = "idle"

(* lifespan, up to its yield. *)
Startup ==
    /\ phase = "bare" /\ Quiet
    /\ phase' = "up" /\ sweeper' = "round"
    /\ client' = IF Usable THEN client ELSE loop
    /\ open' = open \cup {client'}
    /\ UNCHANGED <<loop, held, pipeline>>

(* lifespan after its yield, to the await of aclose(): the task is told to  *)
(* end and close_redis forgets the client.                                  *)
Shutdown ==
    /\ phase = "up" /\ Quiet
    /\ phase' = "closing" /\ client' = 0
    /\ UNCHANGED <<loop, open, sweeper, held, pipeline>>

(* Mutant: Redis is closed first and the task cancelled when that is done. *)
CancelledLate == phase = "down"

(* expiry_task.cancel() was called. *)
Cancelled == phase \in {"closing", "down"}

(* aclose() is done. *)
Closed ==
    /\ phase = "closing"
    /\ phase' = "down" /\ open' = open \ {loop}
    /\ UNCHANGED <<loop, client, sweeper, held, pipeline>>

(* close_redis on a loop that is not the client's: forgotten, not closed.   *)
ForgetClient ==
    /\ phase = "bare" /\ Quiet /\ client # 0
    /\ client' = 0
    /\ open' = IF client = loop THEN open \ {client} ELSE open
    /\ UNCHANGED <<loop, phase, sweeper, held, pipeline>>

(* asyncio.run ends and another one begins.                                 *)
NextLoop ==
    /\ phase \in {"bare", "down"} /\ Quiet /\ sweeper = "none" /\ loop < MaxLoops
    /\ loop' = loop + 1 /\ phase' = "bare"
    /\ UNCHANGED <<client, open, sweeper, held, pipeline>>

-----------------------------------------------------------------------------
(* store/tasks.py *)

(* cancel_expired may invalidate cached products. *)
SweeperInvalidates ==
    /\ sweeper = "round" /\ ~Cancelled
    /\ GetRedis(ExpiryTask)
    /\ UNCHANGED <<loop, phase, sweeper, pipeline>>

(* The round is over, or failed and was logged: the loop goes on to sleep.  *)
SweeperRound ==
    /\ sweeper = "round" /\ ~Cancelled
    /\ sweeper' = "sleep" /\ LetGo(ExpiryTask)
    /\ UNCHANGED <<loop, phase, client, open, pipeline>>

SweeperWakes ==
    /\ sweeper = "sleep" /\ ~Cancelled
    /\ sweeper' = "round"
    /\ UNCHANGED <<loop, phase, client, open, held, pipeline>>

(* CancelledError: caught in a round, out of the sleep it ends the task.    *)
SweeperEnds ==
    /\ sweeper # "none" /\ Cancelled
    /\ sweeper' = "none" /\ LetGo(ExpiryTask)
    /\ UNCHANGED <<loop, phase, client, open, pipeline>>

SweeperStep == SweeperInvalidates \/ SweeperRound \/ SweeperWakes \/ SweeperEnds

-----------------------------------------------------------------------------
(* The pipeline of a request *)

(* Only what passes the metrics is observed, and /api/metrics is exempt.    *)
Observed(r) == route[r] \notin {"preflight", "scrape"}

(* CORS answers a preflight itself. *)
Receive(r, k) ==
    /\ stage[r] = "idle" /\ phase \in {"bare", "up"}
    /\ route' = [route EXCEPT ![r] = k]
    /\ stage' = [stage EXCEPT ![r] = IF k = "preflight" THEN "over" ELSE "in"]
    /\ answer' = [answer EXCEPT ![r] = IF k = "preflight" THEN 200 ELSE 0]
    /\ UNCHANGED <<process, held, counted>>

RequestUsesRedis(r) ==
    /\ stage[r] = "in" /\ route[r] \in {"other", "rename"}
    /\ GetRedis(r)
    /\ UNCHANGED <<loop, phase, sweeper, pipeline>>

(* Mutant: the except block counts, and the finally block again. *)
ObserveTwice(status) == <<status, status>>

Observe(status) == <<status>>

(* What the metrics count when an exception passes them.                    *)
CountedOnException == 500

(* The client gets its answer and the metrics observe the request.          *)
Finish(r, status, count) ==
    /\ stage[r] = "in"
    /\ stage' = [stage EXCEPT ![r] = "over"] /\ LetGo(r)
    /\ answer' = [answer EXCEPT ![r] = status]
    /\ counted' = [counted EXCEPT ![r] = IF Observed(r) THEN @ \o Observe(count) ELSE @]

(* The route returned, or raised an error that has a handler.  get_session  *)
(* closes the session of a route that returned after the answer; if that    *)
(* fails, an exception passes the metrics although the client has its       *)
(* answer.                                                                  *)
Respond(r, status) == \E fails \in BOOLEAN :
    /\ fails => Observed(r) /\ status \in {200, 201}
    /\ Finish(r, status, IF fails THEN CountedOnException ELSE status)
    /\ UNCHANGED <<process, route>>

(* Any other exception passes the metrics on its way to handle_unhandled.   *)
Raise(r) ==
    /\ Observed(r)
    /\ Finish(r, 500, CountedOnException)
    /\ UNCHANGED <<process, route>>

Leave(r) ==
    /\ stage[r] = "over"
    /\ stage' = [stage EXCEPT ![r] = "idle"] /\ route' = [route EXCEPT ![r] = "none"]
    /\ answer' = [answer EXCEPT ![r] = 0] /\ counted' = [counted EXCEPT ![r] = <<>>]
    /\ UNCHANGED <<process, held>>
=============================================================================
