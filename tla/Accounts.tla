------------------------------- MODULE Accounts ------------------------------
(***************************************************************************)
(* User names (domains/auth: register, update_username, save; seed.py).    *)
(* The check and the write are two transactions' worth apart, so it is the *)
(* unique index of users.username that decides.  One action is one         *)
(* statement or commit; what follows the last one is Answer.               *)
(***************************************************************************)
CONSTANTS
    Requests,   \* concurrent requests, and runs of the seed script
    Users,      \* rows of users that may come to exist
    Usernames,
    Faults,     \* TRUE: a connection may break at any step
    None

ASSUME AccountsAssumption == None \notin Usernames \cup Users /\ Faults \in BOOLEAN

VARIABLES
    name,     \* committed rows: user -> username, None while there is no row
    pc,       \* request -> its next statement
    kind,     \* request -> "register", "rename" or "seed"
    row,      \* request -> the row it inserts or updates
    want,     \* request -> the new name
    outcome   \* request -> how it will be answered

accountVars == <<name, pc, kind, row, want, outcome>>
request == <<kind, row, want>>

Init ==
    /\ name = [u \in Users |-> None]
    /\ pc = [r \in Requests |-> "idle"]
    /\ kind = [r \in Requests |-> "none"]
    /\ row = [r \in Requests |-> None]
    /\ want = [r \in Requests |-> None]
    /\ outcome = [r \in Requests |-> "none"]

Goto(r, place) == pc' = [pc EXCEPT ![r] = place]

(* The request is over but for its answer. *)
Decide(r, o) == Goto(r, "answer") /\ outcome' = [outcome EXCEPT ![r] = o]

(* Ids no row has and no request is about to use.                           *)
Unused == {u \in Users : name[u] = None /\ \A s \in Requests : row[s] # u}

(* A new account gets the next id; a rename comes from its owner.           *)
Start(r, k, u, n) ==
    /\ pc[r] = "idle"
    /\ IF k = "rename"
       THEN name[u] # None /\ Goto(r, "load")
       ELSE u \in Unused /\ u = (CHOOSE v \in Unused : TRUE) /\ Goto(r, "check")
    /\ kind' = [kind EXCEPT ![r] = k]
    /\ row' = [row EXCEPT ![r] = u]
    /\ want' = [want EXCEPT ![r] = n]
    /\ UNCHANGED <<name, outcome>>

(* get_current_user loads the row; update_username is done if the loaded    *)
(* name is the new one.                                                     *)
Load(r) ==
    /\ pc[r] = "load"
    /\ IF name[row[r]] = want[r] THEN Decide(r, "done") ELSE Goto(r, "check") /\ UNCHANGED outcome
    /\ UNCHANGED <<name, request>>

(* Mutant: exclude_user_id is forgotten. *)
TakenByAnyone(r) == \E u \in Users : name[u] = want[r]

Taken(r) == \E u \in Users \ {row[r]} : name[u] = want[r]

(* is_username_taken, and get_by_username in the seed script, which skips.  *)
Check(r) ==
    /\ pc[r] = "check"
    /\ IF Taken(r)
       THEN Decide(r, IF kind[r] = "seed" THEN "skipped" ELSE "taken")
       ELSE Goto(r, "flush") /\ UNCHANGED outcome
    /\ UNCHANGED <<name, request>>

(* The INSERT or UPDATE waits for a transaction that wrote the same name,   *)
(* the same row, or the row that has the name.                              *)
Waits(r) == \E s \in Requests \ {r} :
    /\ pc[s] = "commit"
    /\ want[s] = want[r] \/ row[s] = row[r] \/ name[row[s]] = want[r]

(* Mutant: no unique index behind the check. *)
Unconstrained(r) == FALSE

(* The unique index refuses the statement. *)
Conflicts(r) == Taken(r)

(* Mutant: save() swallows the IntegrityError. *)
Swallowed == "done"

(* save: an IntegrityError is rolled back and raised as 409. *)
OnConflict == "taken"

Flush(r) ==
    /\ pc[r] = "flush" /\ ~Waits(r)
    /\ IF Conflicts(r) THEN Decide(r, OnConflict) ELSE Goto(r, "commit") /\ UNCHANGED outcome
    /\ UNCHANGED <<name, request>>

Commit(r) ==
    /\ pc[r] = "commit"
    /\ name' = [name EXCEPT ![row[r]] = want[r]]
    /\ Goto(r, "refresh")
    /\ UNCHANGED <<request, outcome>>

Refresh(r) ==
    /\ pc[r] = "refresh"
    /\ Decide(r, "done")
    /\ UNCHANGED <<name, request>>

(* A statement fails; the session rolls back what is not committed.         *)
Break(r) ==
    /\ Faults /\ pc[r] \in {"load", "check", "flush", "commit", "refresh"}
    /\ Decide(r, "error")
    /\ UNCHANGED <<name, request>>

Answer(r) ==
    /\ pc[r] = "answer"
    /\ Goto(r, "idle")
    /\ kind' = [kind EXCEPT ![r] = "none"]
    /\ row' = [row EXCEPT ![r] = None]
    /\ want' = [want EXCEPT ![r] = None]
    /\ outcome' = [outcome EXCEPT ![r] = "none"]
    /\ UNCHANGED name

Step(r) == Load(r) \/ Check(r) \/ Flush(r) \/ Commit(r) \/ Refresh(r)

Next == \E r \in Requests :
    \/ \E k \in {"register", "rename", "seed"}, u \in Users, n \in Usernames : Start(r, k, u, n)
    \/ Step(r) \/ Break(r) \/ Answer(r)

Spec == Init /\ [][Next]_accountVars

-----------------------------------------------------------------------------
(* Properties *)

AccountsTypeOK ==
    /\ name \in [Users -> Usernames \cup {None}]
    /\ pc \in [Requests -> {"idle", "load", "check", "flush", "commit", "refresh", "answer"}]
    /\ kind \in [Requests -> {"none", "register", "rename", "seed"}]
    /\ \A r \in Requests : IF pc[r] = "idle" THEN row[r] = None /\ want[r] = None
                                             ELSE row[r] \in Users /\ want[r] \in Usernames
    /\ row \in [Requests -> Users \cup {None}] /\ want \in [Requests -> Usernames \cup {None}]
    /\ outcome \in [Requests -> {"none", "done", "taken", "skipped", "error"}]
    /\ \A r \in Requests : pc[r] = "answer" <=> outcome[r] # "none"

(* No two accounts have the same name, however registrations, renames and   *)
(* seeds of one name overlap between is_username_taken and the commit.      *)
NamesUnique == \A u, v \in Users : u # v /\ name[u] = name[v] => name[u] = None

(* How a request stands in the registry: decided once its transaction has   *)
(* committed, or at the statement that found the name taken or unchanged.   *)
Stands(place, o) ==
    CASE place = "idle" -> "idle"
      [] place \in {"load", "check", "flush", "commit"} -> "open"
      [] place = "refresh" \/ o = "done" -> "granted"
      [] o \in {"taken", "skipped"} -> "refused"
      [] OTHER -> "error"

state == [r \in Requests |-> Stands(pc[r], outcome[r])]

Registry == INSTANCE Names WITH state <- state

(* Registration and renaming are atomic: 201, 200 and 409 are the answers   *)
(* of a registry that decided at one moment of the request (register,       *)
(* update_username and save, with their answers).                           *)
RefinesNames == Registry!Spec
=============================================================================
