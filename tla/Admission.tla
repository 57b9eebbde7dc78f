------------------------------ MODULE Admission ------------------------------
(***************************************************************************)
(* What the sessions of a user promise: one register says of every token   *)
(* whether it is good, a request is let in by what the register said when  *)
(* it arrived, and a logout or a change of password revokes in one atomic  *)
(* step.  Sessions.tla implements this with a blacklist and a version that *)
(* are read one after the other and written without a lock.                *)
(***************************************************************************)
CONSTANTS
    Requests,
    Tokens,
    None       \* no token

VARIABLES
    life,    \* token -> "unused", "good", "revoked" or "lapsed"
    gate,    \* request -> "out", "welcome", "barred" or "in"
    token    \* request -> the token it carries

vars == <<life, gate, token>>

Init ==
    /\ life = [j \in Tokens |-> "unused"]
    /\ gate = [r \in Requests |-> "out"]
    /\ token = [r \in Requests |-> None]

(* A token is signed; a lapsed name that no request carries may be used again. *)
Issue(j) ==
    /\ life[j] \in {"unused", "lapsed"}
    /\ \A r \in Requests : token[r] # j
    /\ life' = [life EXCEPT ![j] = "good"]
    /\ UNCHANGED <<gate, token>>

Lapse(j) ==
    /\ life[j] \in {"good", "revoked"}
    /\ life' = [life EXCEPT ![j] = "lapsed"]
    /\ UNCHANGED <<gate, token>>

(* A request arrives: from now on it is known whether it may be let in. *)
Ask(r, j) ==
    /\ gate[r] = "out"
    /\ life[j] \in {"good", "revoked"}
    /\ gate' = [gate EXCEPT ![r] = IF life[j] = "good" THEN "welcome" ELSE "barred"]
    /\ token' = [token EXCEPT ![r] = j]
    /\ UNCHANGED life

(* A barred request may get in only when its token has run out meanwhile:   *)
(* nobody remembers a revocation longer than the token lives.               *)
Enter(r) ==
    /\ \/ gate[r] = "welcome"
       \/ gate[r] = "barred" /\ life[token[r]] = "lapsed"
    /\ gate' = [gate EXCEPT ![r] = "in"]
    /\ UNCHANGED <<life, token>>

Leave(r) ==
    /\ gate' = [gate EXCEPT ![r] = "out"]
    /\ token' = [token EXCEPT ![r] = None]

(* A request is refused, served without effect on the tokens, or dies. *)
Dismiss(r) ==
    /\ gate[r] # "out"
    /\ Leave(r)
    /\ UNCHANGED life

(* A logout revokes the token it was sent with, and no other. *)
Logout(r) ==
    /\ gate[r] = "in"
    /\ life' = [life EXCEPT ![token[r]] = IF @ = "good" THEN "revoked" ELSE @]
    /\ Leave(r)

(* A change of password revokes every token at once. *)
ChangePassword(r) ==
    /\ gate[r] = "in"
    /\ life' = [j \in Tokens |-> IF life[j] = "good" THEN "revoked" ELSE life[j]]
    /\ Leave(r)

Next ==
    \/ \E r \in Requests :
        \/ \E j \in Tokens : Ask(r, j)
        \/ Enter(r) \/ Dismiss(r) \/ Logout(r) \/ ChangePassword(r)
    \/ \E j \in Tokens : Issue(j) \/ Lapse(j)

Spec == Init /\ [][Next]_vars
=============================================================================
