---------------------------- MODULE AccountsProofs ---------------------------
(***************************************************************************)
(* Proofs about Accounts: user names are unique, and registration and      *)
(* renaming implement the registry of Names.                               *)
(***************************************************************************)
EXTENDS Accounts, TLAPS

(* What a transaction that wrote knows until it commits: nobody else has    *)
(* the name it wrote, and nobody else is about to commit that name or row.  *)
Claimed ==
    /\ \A r \in Requests : pc[r] = "commit" => ~Taken(r)
    /\ \A r, s \in Requests : r # s /\ pc[r] = "commit" /\ pc[s] = "commit" =>
          want[r] # want[s] /\ row[r] # row[s]

AInv == AccountsTypeOK /\ NamesUnique /\ Claimed

LEMMA InitAInv == Init => AInv
  BY DEF Init, AInv, AccountsTypeOK, NamesUnique, Claimed, Taken

(* A step of request r that leaves the rows alone, and brings r to "commit" *)
(* only past the unique index.                                              *)
LEMMA SameRows ==
  ASSUME AInv, NEW r \in Requests, name' = name, UNCHANGED <<row, want>>,
         NEW place \in {"check", "flush", "commit", "answer"}, Goto(r, place),
         place = "commit" => ~Taken(r) /\ ~Waits(r)
  PROVE  NamesUnique' /\ Claimed'
<1>1. NamesUnique'
  BY DEF AInv, NamesUnique
<1>2. \A s \in Requests : pc'[s] = IF s = r THEN place ELSE pc[s]
  BY DEF AInv, AccountsTypeOK, Goto
<1>3. ASSUME NEW s \in Requests, pc'[s] = "commit" PROVE ~Taken(s)'
  BY <1>2, <1>3 DEF AInv, Claimed, Taken
<1>4. ASSUME NEW s \in Requests, NEW t \in Requests, s # t,
             pc'[s] = "commit", pc'[t] = "commit"
      PROVE  want'[s] # want'[t] /\ row'[s] # row'[t]
  BY <1>2, <1>4 DEF AInv, Claimed, Waits
<1> QED
  BY <1>1, <1>3, <1>4 DEF Claimed

LEMMA StartAInv ==
  ASSUME AInv, NEW r \in Requests, NEW k \in {"register", "rename", "seed"},
         NEW u \in Users, NEW n \in Usernames, Start(r, k, u, n)
  PROVE  AInv'
<1>1. AccountsTypeOK'
  BY AccountsAssumption DEF AInv, AccountsTypeOK, Start, Goto, Unused
<1>2. /\ name' = name
      /\ \A s \in Requests : pc'[s] = "commit" =>
            pc[s] = "commit" /\ row'[s] = row[s] /\ want'[s] = want[s]
  BY DEF AInv, AccountsTypeOK, Start, Goto
<1>3. NamesUnique' /\ Claimed'
  BY <1>2 DEF AInv, NamesUnique, Claimed, Taken
<1> QED
  BY <1>1, <1>3 DEF AInv

LEMMA StepAInv ==
  ASSUME AInv, NEW r \in Requests, Step(r) \/ Break(r)
  PROVE  AInv'
<1>1. CASE Load(r)
  <2>1. AccountsTypeOK'
    BY <1>1 DEF AInv, AccountsTypeOK, Load, Decide, Goto, request
  <2>2. NamesUnique' /\ Claimed'
    BY <1>1, SameRows DEF Load, Decide, request
  <2> QED BY <2>1, <2>2 DEF AInv
<1>2. CASE Check(r)
  <2>1. AccountsTypeOK'
    BY <1>2 DEF AInv, AccountsTypeOK, Check, Decide, Goto, request
  <2>2. NamesUnique' /\ Claimed'
    BY <1>2, SameRows DEF Check, Decide, request
  <2> QED BY <2>1, <2>2 DEF AInv
<1>3. CASE Flush(r)
  <2>1. AccountsTypeOK'
    BY <1>3 DEF AInv, AccountsTypeOK, Flush, Decide, Goto, request, OnConflict
  <2>2. NamesUnique' /\ Claimed'
    BY <1>3, SameRows DEF Flush, Decide, request, Conflicts
  <2> QED BY <2>1, <2>2 DEF AInv
<1>4. CASE Commit(r)
  <2>1. AccountsTypeOK'
    BY <1>4 DEF AInv, AccountsTypeOK, Commit, Goto, request
  <2>2. /\ row[r] \in Users /\ want[r] \in Usernames
        /\ \A u \in Users : name'[u] = IF u = row[r] THEN want[r] ELSE name[u]
    BY <1>4 DEF AInv, AccountsTypeOK, Commit
  <2>3. \A u \in Users \ {row[r]} : name[u] # want[r]
    BY <1>4 DEF AInv, Claimed, Taken, Commit
  <2>4. NamesUnique'
    BY <2>2, <2>3 DEF AInv, NamesUnique
  <2>5. \A s \in Requests : pc'[s] = "commit" => s # r /\ pc[s] = "commit"
    BY <1>4 DEF AInv, AccountsTypeOK, Commit, Goto
  <2>6. \A s \in Requests : pc'[s] = "commit" => want[s] # want[r] /\ row[s] # row[r] /\ ~Taken(s)
    BY <1>4, <2>5 DEF AInv, Claimed, Commit
  <2>7. UNCHANGED <<row, want>>
    BY <1>4 DEF Commit, request
  <2>8. Claimed'
    BY <2>2, <2>5, <2>6, <2>7 DEF AInv, Claimed, Taken
  <2> QED BY <2>1, <2>4, <2>8 DEF AInv
<1>5. CASE Refresh(r)
  <2>1. AccountsTypeOK'
    BY <1>5 DEF AInv, AccountsTypeOK, Refresh, Decide, Goto, request
  <2>2. NamesUnique' /\ Claimed'
    BY <1>5, SameRows DEF Refresh, Decide, request
  <2> QED BY <2>1, <2>2 DEF AInv
<1>6. CASE Break(r)
  <2>1. AccountsTypeOK'
    BY <1>6 DEF AInv, AccountsTypeOK, Break, Decide, Goto, request
  <2>2. NamesUnique' /\ Claimed'
    BY <1>6, SameRows DEF Break, Decide, request
  <2> QED BY <2>1, <2>2 DEF AInv
<1> QED
  BY <1>1, <1>2, <1>3, <1>4, <1>5, <1>6 DEF Step

LEMMA AnswerAInv ==
  ASSUME AInv, NEW r \in Requests, Answer(r)
  PROVE  AInv'
<1>1. AccountsTypeOK'
  BY DEF AInv, AccountsTypeOK, Answer, Goto
<1>2. /\ name' = name
      /\ \A s \in Requests : pc'[s] = "commit" =>
            pc[s] = "commit" /\ row'[s] = row[s] /\ want'[s] = want[s]
  BY DEF AInv, AccountsTypeOK, Answer, Goto
<1>3. NamesUnique' /\ Claimed'
  BY <1>2 DEF AInv, NamesUnique, Claimed, Taken
<1> QED
  BY <1>1, <1>3 DEF AInv

LEMMA NextAInv == AInv /\ [Next]_accountVars => AInv'
<1> SUFFICES ASSUME AInv, [Next]_accountVars PROVE AInv'
  OBVIOUS
<1>1. CASE Next
  BY <1>1, StartAInv, StepAInv, AnswerAInv DEF Next
<1>2. CASE UNCHANGED accountVars
  BY <1>2 DEF accountVars, AInv, AccountsTypeOK, NamesUnique, Claimed, Taken
<1> QED
  BY <1>1, <1>2

(* The invariant holds in every reachable state. *)
LEMMA AccountsInvariant == Spec => []AInv
  BY InitAInv, NextAInv, PTL DEF Spec

(* No two accounts ever have the same name, for any number of requests,     *)
(* accounts and names (the unique index behind is_username_taken).          *)
THEOREM UniqueNames == Spec => []NamesUnique
<1>1. AInv => NamesUnique
  BY DEF AInv
<1> QED
  BY <1>1, AccountsInvariant, PTL

-----------------------------------------------------------------------------
(* A step of request r moves its entry of the mapped state and no other.    *)
LEMMA StateMoves ==
  ASSUME NEW r \in Requests,
         \A s \in Requests \ {r} : pc'[s] = pc[s] /\ outcome'[s] = outcome[s]
  PROVE  state' = [state EXCEPT ![r] = Stands(pc'[r], outcome'[r])]
  BY DEF state

(* What of a step leaves the rows and the requests' fields alone is a step  *)
(* of the registry when the entry moves as Refuse, Break or nothing does,   *)
(* or as Grant does for a name the row already has.                         *)
LEMMA StepRefines ==
  ASSUME AInv, NEW r \in Requests, Step(r) \/ Break(r)
  PROVE  [Registry!Next]_(Registry!vars)
<1> DEFINE after == Stands(pc'[r], outcome'[r])
<1>1. /\ pc[r] # "idle" /\ row[r] \in Users /\ want[r] \in Usernames
      /\ \A s \in Requests \ {r} : pc'[s] = pc[s] /\ outcome'[s] = outcome[s]
      /\ UNCHANGED <<row, want>>
  BY DEF AInv, AccountsTypeOK, Step, Load, Check, Flush, Commit, Refresh, Break,
         Goto, Decide, request
<1>2. state' = [state EXCEPT ![r] = after] /\ state = [state EXCEPT ![r] = state[r]]
  BY <1>1, StateMoves DEF state
<1>3. Registry!Taken(row[r], want[r]) <=> Taken(r)
  BY DEF Registry!Taken, Taken
<1>4. CASE name' = name /\ after = state[r]
  BY <1>1, <1>2, <1>4 DEF Registry!vars
<1>5. CASE name' = name /\ state[r] = "open" /\ after = "refused" /\ Taken(r)
  BY <1>1, <1>2, <1>3, <1>5 DEF Registry!Next, Registry!Refuse, Registry!Becomes
<1>6. CASE name' = name /\ state[r] \in {"open", "granted"} /\ after = "error"
  BY <1>1, <1>2, <1>6 DEF Registry!Next, Registry!Break, Registry!Becomes
<1>7. CASE /\ name' = [name EXCEPT ![row[r]] = want[r]]
           /\ state[r] = "open" /\ after = "granted" /\ ~Taken(r)
  BY <1>1, <1>2, <1>3, <1>7 DEF Registry!Next, Registry!Grant, Registry!Becomes
<1>8. CASE Load(r)
  <2>1. /\ pc[r] = "load" /\ name' = name /\ state[r] = "open"
        /\ pc'[r] = "answer" \/ after = "open"
        /\ pc'[r] = "answer" => outcome'[r] = "done" /\ name[row[r]] = want[r]
    BY <1>8 DEF AInv, AccountsTypeOK, Load, Goto, Decide, state, Stands
  <2>2. CASE pc'[r] = "answer"
    <3>1. name' = [name EXCEPT ![row[r]] = want[r]]
      BY <1>1, <2>1, <2>2 DEF AInv, AccountsTypeOK
    <3>2. ~Taken(r)
      BY <1>1, <2>1, <2>2, AccountsAssumption DEF AInv, NamesUnique, Taken
    <3> QED BY <1>7, <2>1, <2>2, <3>1, <3>2 DEF Stands
  <2> QED BY <1>4, <2>1, <2>2
<1>9. CASE Check(r)
  <2>1. /\ name' = name /\ state[r] = "open"
        /\ \/ after = "open"
           \/ after = "refused" /\ Taken(r)
    BY <1>9 DEF AInv, AccountsTypeOK, Check, Goto, Decide, state, Stands
  <2> QED BY <1>4, <1>5, <2>1
<1>10. CASE Flush(r)
  <2>1. /\ name' = name /\ state[r] = "open"
        /\ \/ after = "open"
           \/ after = "refused" /\ Taken(r)
    BY <1>10 DEF AInv, AccountsTypeOK, Flush, Goto, Decide, Conflicts, OnConflict, state, Stands
  <2> QED BY <1>4, <1>5, <2>1
<1>11. CASE Commit(r)
  <2>1. state[r] = "open" /\ after = "granted" /\ ~Taken(r)
    BY <1>11 DEF AInv, AccountsTypeOK, Claimed, Commit, Goto, state, Stands
  <2> QED BY <1>7, <1>11, <2>1 DEF Commit
<1>12. CASE Refresh(r)
  <2>1. /\ name' = name /\ state[r] = "granted"
        /\ pc'[r] = "answer" /\ outcome'[r] = "done"
    BY <1>12 DEF AInv, AccountsTypeOK, Refresh, Goto, Decide, state, Stands
  <2> QED BY <1>4, <2>1 DEF Stands
<1>13. CASE Break(r)
  <2>1. /\ name' = name /\ state[r] \in {"open", "granted"}
        /\ pc'[r] = "answer" /\ outcome'[r] = "error"
    BY <1>13 DEF AInv, AccountsTypeOK, Break, Goto, Decide, state, Stands
  <2> QED BY <1>6, <2>1 DEF Stands
<1> QED
  BY <1>8, <1>9, <1>10, <1>11, <1>12, <1>13 DEF Step

(* A request that starts asks the registry. *)
LEMMA StartRefines ==
  ASSUME AInv, NEW r \in Requests, NEW k \in {"register", "rename", "seed"},
         NEW u \in Users, NEW n \in Usernames, Start(r, k, u, n)
  PROVE  Registry!Next
<1>1. /\ \A s \in Requests \ {r} : pc'[s] = pc[s] /\ outcome'[s] = outcome[s]
      /\ state[r] = "idle" /\ Stands(pc'[r], outcome'[r]) = "open"
  BY DEF AInv, AccountsTypeOK, Start, Goto, state, Stands
<1>2. Registry!Ask(r, u, n)
  BY <1>1, StateMoves DEF Start, Registry!Ask, Registry!Becomes
<1> QED
  BY <1>2 DEF Registry!Next

(* The answer of a request is the registry's. *)
LEMMA AnswerRefines ==
  ASSUME AInv, NEW r \in Requests, Answer(r)
  PROVE  Registry!Next
<1>1. /\ \A s \in Requests \ {r} : pc'[s] = pc[s] /\ outcome'[s] = outcome[s]
      /\ Stands(pc'[r], outcome'[r]) = "idle"
      /\ state[r] \in {"granted", "refused", "error"}
  BY DEF AInv, AccountsTypeOK, Answer, Goto, state, Stands
<1>2. Registry!Answer(r)
  BY <1>1, StateMoves DEF Answer, Registry!Answer, Registry!Becomes
<1> QED
  BY <1>2 DEF Registry!Next

(* Registration and renaming, statement by statement and with broken        *)
(* connections, implement the atomic registry of Names.                     *)
THEOREM NamesAreAtomic == Spec => RefinesNames
<1>1. Init => Registry!Init
  BY DEF Init, Registry!Init, state, Stands
<1>2. AInv /\ [Next]_accountVars => [Registry!Next]_(Registry!vars)
  <2> SUFFICES ASSUME AInv, [Next]_accountVars PROVE [Registry!Next]_(Registry!vars)
    OBVIOUS
  <2>1. CASE Next
    BY <2>1, StartRefines, StepRefines, AnswerRefines DEF Next
  <2>2. CASE UNCHANGED accountVars
    BY <2>2 DEF accountVars, Registry!vars, state
  <2> QED
    BY <2>1, <2>2
<1> QED
  BY <1>1, <1>2, AccountsInvariant, PTL DEF Spec, RefinesNames, Registry!Spec
=============================================================================
