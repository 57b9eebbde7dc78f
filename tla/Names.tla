-------------------------------- MODULE Names --------------------------------
(***************************************************************************)
(* What domains/auth promises about user names: they behave like one       *)
(* registry in which a name is granted or refused at a single moment       *)
(* between the request and its answer, and a name belongs to one account   *)
(* at a time.  A request that breaks is answered with an error whether or  *)
(* not the name had been granted.                                          *)
(***************************************************************************)
CONSTANTS Requests, Users, Usernames, None

VARIABLES
    name,   \* account -> its user name, None while there is no such account
    row,    \* request -> the account it creates or renames
    want,   \* request -> the name it asks for
    state   \* request -> "idle", "open", "granted", "refused" or "error"

vars == <<name, row, want, state>>

Taken(u, n) == \E v \in Users \ {u} : name[v] = n

Init ==
    /\ name = [u \in Users |-> None]
    /\ row = [r \in Requests |-> None] /\ want = [r \in Requests |-> None]
    /\ state = [r \in Requests |-> "idle"]

Becomes(r, s) == state' = [state EXCEPT ![r] = s]

Ask(r, u, n) ==
    /\ state[r] = "idle" /\ Becomes(r, "open")
    /\ row' = [row EXCEPT ![r] = u] /\ want' = [want EXCEPT ![r] = n]
    /\ UNCHANGED name

Grant(r) ==
    /\ state[r] = "open" /\ ~Taken(row[r], want[r])
    /\ Becomes(r, "granted")
    /\ name' = [name EXCEPT ![row[r]] = want[r]]
    /\ UNCHANGED <<row, want>>

Refuse(r) ==
    /\ state[r] = "open" /\ Taken(row[r], want[r])
    /\ Becomes(r, "refused")
    /\ UNCHANGED <<name, row, want>>

Break(r) ==
    /\ state[r] \in {"open", "granted"}
    /\ Becomes(r, "error")
    /\ UNCHANGED <<name, row, want>>

Answer(r) ==
    /\ state[r] \in {"granted", "refused", "error"} /\ Becomes(r, "idle")
    /\ row' = [row EXCEPT ![r] = None] /\ want' = [want EXCEPT ![r] = None]
    /\ UNCHANGED name

Next == \E r \in Requests :
    \/ \E u \in Users, n \in Usernames : Ask(r, u, n)
    \/ Grant(r) \/ Refuse(r) \/ Break(r) \/ Answer(r)

Spec == Init /\ [][Next]_vars
=============================================================================
