------------------------------ MODULE Sessions ------------------------------
(***************************************************************************)
(* The sessions of one user (domains/auth, core/ratelimit.py): login,      *)
(* logout, change of password and any other authenticated request.  The    *)
(* password is in PostgreSQL; the token version, the blacklist and the     *)
(* counter of the login rate limit are in Redis.  Their keys carry the     *)
(* user, the token or the client, so one user and one client address stand *)
(* for all.  One action is one command to Redis or one statement.          *)
(***************************************************************************)
EXTENDS Integers, FiniteSets

CONSTANTS
    Requests,      \* concurrent requests
    Tokens,        \* bound: the tokens (their jti) that matter at a time
    MaxPwd,        \* bound: passwords the user goes through
    Limit,         \* LOGIN_RATE_LIMIT
    ClientOps,     \* what clients send
    SerialChanges, \* TRUE: the user changes the password once at a time
    Crashes,       \* TRUE: a request may die between two commands
    None           \* no token

ASSUME SessionsAssumption ==
    /\ MaxPwd \in Nat \ {0} /\ Limit \in Nat \ {0}
    /\ ClientOps \subseteq {"access", "logout", "change"}
    /\ SerialChanges \in BOOLEAN /\ Crashes \in BOOLEAN
    /\ IsFiniteSet(Requests) /\ IsFiniteSet(Tokens) /\ None \notin Tokens

VARIABLES
    pwd,        \* users.password_hash, as a revision
    lastPwd,    \* the last revision somebody chose
    epoch,      \* auth:user:{id}:ver, 0 when the key is missing
    blacklist,  \* jtis with a jwt:blacklist key
    version,    \* issued token -> the ver it carries
    expired,    \* tokens past their exp
    count,      \* rate:{path}:{ip}, at most Limit + 1 counts (0: no key)
    window,     \* TRUE when that key has a TTL
    pc,         \* request -> where it stands
    op, token,  \* request -> the operation, the token it carries
    guess,      \* request -> the password in its body
    found,      \* request -> the token version or password hash it loaded
    loggedOut,  \* history: tokens whose logout was answered
    outdated,   \* history: tokens issued before an answered change of password
    late,       \* history: request -> which of the two held when it arrived
    stale,      \* history: tokens issued before the last change of the password
    orphaned    \* history: what a request that died still owed: the counter its
                \* TTL ("window"), a new password its version ("version")

durable == <<pwd, lastPwd>>
redis == <<epoch, blacklist, count, window>>
issued == <<version, expired>>
local == <<op, token, guess, found, late>>
history == <<loggedOut, outdated, stale, orphaned>>
vars == <<durable, redis, issued, pc, local, history>>

Issued == DOMAIN version

(* get_user_epoch *)
Epoch == IF epoch = 0 THEN 1 ELSE epoch

Init ==
    /\ pwd = 1 /\ lastPwd = 1
    /\ epoch = 0 /\ blacklist = {}
    /\ version = [j \in {} |-> 0] /\ expired = {}
    /\ count = 0 /\ window = FALSE
    /\ pc = [t \in Requests |-> "idle"]
    /\ op = [t \in Requests |-> "none"]
    /\ token = [t \in Requests |-> None]
    /\ guess = [t \in Requests |-> 0]
    /\ found = [t \in Requests |-> 0]
    /\ late = [t \in Requests |-> {}]
    /\ loggedOut = {} /\ outdated = {} /\ stale = {} /\ orphaned = {}

Goto(t, place) == pc' = [pc EXCEPT ![t] = place]

Finish(t) ==
    /\ Goto(t, "idle")
    /\ op' = [op EXCEPT ![t] = "none"]
    /\ token' = [token EXCEPT ![t] = None]
    /\ guess' = [guess EXCEPT ![t] = 0]
    /\ found' = [found EXCEPT ![t] = 0]
    /\ late' = [late EXCEPT ![t] = {}]

-----------------------------------------------------------------------------
(* POST /auth/login, behind rate_limit *)

StartLogin(t, g) ==
    /\ pc[t] = "idle"
    /\ op' = [op EXCEPT ![t] = "login"]
    /\ guess' = [guess EXCEPT ![t] = g]
    /\ Goto(t, "incr")
    /\ UNCHANGED <<durable, redis, issued, token, found, late, history>>

(* Mutant: the second request of a window sets the TTL. *)
SecondInWindow == count = 1

FirstInWindow == count = 0

(* INCR; the first request of a window sets its TTL next, one above the     *)
(* limit is answered 429.                                                   *)
Incr(t) ==
    /\ pc[t] = "incr"
    /\ count' = IF count > Limit THEN count ELSE count + 1
    /\ IF count + 1 > Limit
       THEN Finish(t)
       ELSE /\ Goto(t, IF FirstInWindow THEN "expire" ELSE "authenticate")
            /\ UNCHANGED local
    /\ UNCHANGED <<durable, epoch, blacklist, window, issued, history>>

SetWindow(t) ==
    /\ pc[t] = "expire"
    /\ window' = (count # 0)
    /\ Goto(t, "authenticate")
    /\ UNCHANGED <<durable, epoch, blacklist, count, issued, local, history>>

Authenticate(t) ==
    /\ pc[t] = "authenticate"
    /\ IF guess[t] = pwd
       THEN Goto(t, "issue") /\ UNCHANGED local
       ELSE Finish(t)
    /\ UNCHANGED <<durable, redis, issued, history>>

(* A jti that nobody can tell from a new one: not issued, or expired and    *)
(* neither blacklisted nor carried by a request.                            *)
Fresh(j) ==
    /\ j \notin (Issued \ expired) \cup blacklist
    /\ \A t \in Requests : token[t] # j

(* get_user_epoch, then the token is signed and returned. *)
Issue(t) ==
    /\ pc[t] = "issue"
    /\ \E j \in Tokens :
        /\ Fresh(j)
        /\ version' = [k \in Issued \cup {j} |-> IF k = j THEN Epoch ELSE version[k]]
        /\ expired' = expired \ {j}
        /\ loggedOut' = loggedOut \ {j}
        /\ outdated' = outdated \ {j}
        /\ stale' = stale \ {j}
    /\ Finish(t)
    /\ UNCHANGED <<durable, redis, orphaned>>

-----------------------------------------------------------------------------
(* get_current_user, in front of every authenticated request *)

StartRequest(t, o, j, g) ==
    /\ pc[t] = "idle"
    /\ j \in Issued \ expired
    /\ o = "change" => /\ lastPwd + Cardinality({s \in Requests : op[s] = "change"}) < MaxPwd
                       /\ SerialChanges => \A s \in Requests : op[s] # "change"
    /\ op' = [op EXCEPT ![t] = o]
    /\ token' = [token EXCEPT ![t] = j]
    /\ guess' = [guess EXCEPT ![t] = IF o = "change" THEN g ELSE 0]
    /\ late' = [late EXCEPT ![t] = {h \in {"loggedOut", "outdated"} :
                    j \in IF h = "loggedOut" THEN loggedOut ELSE outdated}]
    /\ Goto(t, "revoked")
    /\ UNCHANGED <<durable, redis, issued, found, history>>

(* is_token_revoked: EXISTS jwt:blacklist:{jti} *)
CheckRevoked(t) ==
    /\ pc[t] = "revoked"
    /\ IF token[t] \in blacklist THEN Finish(t) ELSE Goto(t, "version") /\ UNCHANGED local
    /\ UNCHANGED <<durable, redis, issued, history>>

(* Mutant: a token of any version up to the current one is good. *)
NotAhead(j) == version[j] <= Epoch

Current(j) == version[j] = Epoch

(* verify_token_valid: the version must be the current one. *)
CheckVersion(t) ==
    /\ pc[t] = "version"
    /\ IF Current(token[t])
       THEN Goto(t, "load") /\ UNCHANGED local
       ELSE Finish(t)
    /\ UNCHANGED <<durable, redis, issued, history>>

(* Mutant: the version moves before the old password is compared. *)
PlaceMovingFirst(o) == [access |-> "serve", logout |-> "blacklist", change |-> "bump"][o]

(* Where the handler of an operation begins. *)
PlaceOf(o) == [access |-> "serve", logout |-> "blacklist", change |-> "commit"][o]

(* The user is loaded; an ordinary request is served with it. *)
LoadUser(t) ==
    /\ pc[t] = "load"
    /\ found' = [found EXCEPT ![t] = pwd]
    /\ Goto(t, PlaceOf(op[t]))
    /\ UNCHANGED <<durable, redis, issued, op, token, guess, late, history>>

Serve(t) ==
    /\ pc[t] = "serve"
    /\ Finish(t)
    /\ UNCHANGED <<durable, redis, issued, history>>

(* logout: SET jwt:blacklist:{jti} EX remaining.  The token is decoded once *)
(* more (401 if it has expired); with no second left, EX 0 is an error.     *)
Logout(t) ==
    /\ pc[t] = "blacklist"
    /\ IF token[t] \in expired
       THEN UNCHANGED <<blacklist, loggedOut>>
       ELSE /\ blacklist' = blacklist \cup {token[t]}
            /\ loggedOut' = loggedOut \cup {token[t]}
    /\ Finish(t)
    /\ UNCHANGED <<durable, epoch, count, window, issued, outdated, stale, orphaned>>

(* update_password: the old password is compared with the loaded hash, the  *)
(* new one committed unconditionally.                                       *)
CommitPassword(t) ==
    /\ pc[t] = "commit"
    /\ IF guess[t] = found[t]
       THEN /\ lastPwd' = lastPwd + 1
            /\ pwd' = lastPwd'
            /\ stale' = Issued
            /\ Goto(t, "bump")
            /\ UNCHANGED local
       ELSE Finish(t) /\ UNCHANGED <<durable, stale>>
    /\ UNCHANGED <<redis, issued, loggedOut, outdated, orphaned>>

ReadEpoch(t) ==
    /\ pc[t] = "bump"
    /\ found' = [found EXCEPT ![t] = Epoch]
    /\ Goto(t, "write")
    /\ UNCHANGED <<durable, redis, issued, op, token, guess, late, history>>

(* Mutant: INCR, which starts a missing key at 1. *)
Incremented(t) == epoch + 1

NextVersion(t) == found[t] + 1

(* SET auth:user:{id}:ver, then the answer. *)
WriteEpoch(t) ==
    /\ pc[t] = "write"
    /\ epoch' = NextVersion(t)
    /\ outdated' = outdated \cup Issued
    /\ orphaned' = orphaned \ {"version"}
    /\ Finish(t)
    /\ UNCHANGED <<durable, blacklist, count, window, issued, loggedOut, stale>>

-----------------------------------------------------------------------------
(* Time and failures *)

TokenExpires(j) ==
    /\ j \in Issued \ expired
    /\ expired' = expired \cup {j}
    /\ UNCHANGED <<durable, redis, version, pc, local, history>>

(* Mutant: the blacklist key has a TTL of its own. *)
AnyTime(j) == TRUE

TokenIsOver(j) == j \in expired

(* The TTL of a blacklist key, the token's remaining life rounded up.       *)
BlacklistEntryExpires(j) ==
    /\ j \in blacklist /\ TokenIsOver(j)
    /\ blacklist' = blacklist \ {j}
    /\ UNCHANGED <<durable, epoch, count, window, issued, pc, local, history>>

WindowEnds ==
    /\ window
    /\ count' = 0 /\ window' = FALSE
    /\ orphaned' = orphaned \ {"window"}
    /\ UNCHANGED <<durable, epoch, blacklist, issued, pc, local, loggedOut, outdated, stale>>

Crash(t) ==
    /\ Crashes
    /\ pc[t] # "idle"
    /\ Finish(t)
    /\ orphaned' = orphaned \cup (CASE pc[t] = "expire" -> {"window"}
                                     [] pc[t] \in {"bump", "write"} -> {"version"}
                                     [] OTHER -> {})
    /\ UNCHANGED <<durable, redis, issued, loggedOut, outdated, stale>>

Step(t) ==
    \/ Incr(t) \/ SetWindow(t) \/ Authenticate(t) \/ Issue(t)
    \/ CheckRevoked(t) \/ CheckVersion(t) \/ LoadUser(t) \/ Serve(t) \/ Logout(t)
    \/ CommitPassword(t) \/ ReadEpoch(t) \/ WriteEpoch(t)

Next ==
    \/ \E t \in Requests :
        \/ \E g \in 1..lastPwd : StartLogin(t, g)
        \/ \E o \in ClientOps, j \in Issued, g \in 1..lastPwd : StartRequest(t, o, j, g)
        \/ Step(t) \/ Crash(t)
    \/ \E j \in Tokens : TokenExpires(j) \/ BlacklistEntryExpires(j)
    \/ WindowEnds

Spec == Init /\ [][Next]_vars

-----------------------------------------------------------------------------
(* Properties *)

(* Type invariant; the token version never runs ahead of the passwords.     *)
TypeOK ==
    /\ lastPwd \in 1..MaxPwd /\ pwd \in 1..lastPwd
    /\ epoch \in 0..lastPwd
    /\ Issued \subseteq Tokens /\ \A j \in Issued : version[j] \in 1..MaxPwd
    /\ blacklist \subseteq Issued /\ expired \subseteq Issued
    /\ count \in 0..Limit + 1 /\ window \in BOOLEAN
    /\ token \in [Requests -> Tokens \cup {None}]
    /\ found \in [Requests -> 0..MaxPwd + 1]

(* Places behind get_current_user: the request was let in. *)
Admitted(t) == pc[t] \in {"load", "serve", "blacklist", "commit", "bump", "write"}

(* Once a logout was answered, no request that arrives later is let in with *)
(* its token while the token lives: the blacklist key lives as long as the  *)
(* token (service.logout).                                                  *)
LogoutIsFinal ==
    \A t \in Requests : Admitted(t) /\ token[t] \notin expired => "loggedOut" \notin late[t]

(* Once a change of password was answered, no request that arrives later is *)
(* let in with a token issued before it, as long as the changes themselves  *)
(* do not overlap (update_password moves the version after its commit).     *)
PasswordChangeRevokes ==
    SerialChanges => \A t \in Requests : Admitted(t) => "outdated" \notin late[t]

(* A token that would be let in was not issued before the last change of    *)
(* the password, unless the change is between its commit and the new        *)
(* version or died there.  So an old password outlives a change only in a   *)
(* login that was checked before the commit and signed after it (login).    *)
TokensProveThePassword ==
    SerialChanges => \A j \in stale \ (expired \cup blacklist) :
        Current(j) => "version" \in orphaned \/ \E t \in Requests : pc[t] \in {"bump", "write"}

(* A counter of logins has a TTL or is about to get one, so a client is     *)
(* never locked out for good, unless exactly the request that owed the TTL  *)
(* died (rate_limit's INCR and EXPIRE).                                     *)
WindowIsBounded ==
    count # 0 /\ ~window => "window" \in orphaned \/ \E t \in Requests : pc[t] = "expire"

(* What the two Redis keys and the exp of a token say of it together. *)
Life(j) ==
    CASE j \notin Issued -> "unused"
      [] j \in expired -> "lapsed"
      [] j \in Issued \ expired /\ (j \in blacklist \/ ~Current(j)) -> "revoked"
      [] OTHER -> "good"

(* Where a request stands before get_current_user, and what it may expect. *)
Gate(t) ==
    CASE Admitted(t) -> "in"
      [] pc[t] \in {"revoked", "version"} -> IF late[t] = {} THEN "welcome" ELSE "barred"
      [] OTHER -> "out"

Door == INSTANCE Admission WITH
    life <- [j \in Tokens |-> Life(j)],
    gate <- [t \in Requests |-> Gate(t)]

(* The blacklist and the version act as one register: whatever the commands *)
(* of other requests do between the two looks, a request is let in by what  *)
(* held when it arrived, a logout revokes its own token only, a change of   *)
(* password all of them at once, and nothing else revokes or revives one.   *)
RefinesAdmission == Door!Spec

(* The comment in update_password: "under concurrency the version only gets *)
(* larger".                                                                 *)
EpochNeverDecreases == [][epoch' >= epoch]_vars
=============================================================================
