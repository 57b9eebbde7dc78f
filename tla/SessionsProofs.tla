---------------------------- MODULE SessionsProofs ---------------------------
(***************************************************************************)
(* Revocation of tokens, for any number of requests and tokens: what a     *)
(* logout, a change of password and the login limiter promise, with        *)
(* requests that die between any two commands.                             *)
(***************************************************************************)
EXTENDS Sessions, FiniteSetTheorems, TLAPS

Shapes ==
    /\ DOMAIN pc = Requests /\ DOMAIN op = Requests /\ DOMAIN token = Requests
    /\ DOMAIN late = Requests /\ found \in [Requests -> Nat]
    /\ pwd \in Nat /\ lastPwd \in Nat /\ epoch \in Nat /\ count \in Nat
    /\ version \in [Issued -> Nat]
    /\ stale \subseteq Issued /\ outdated \subseteq Issued

PastBlacklist == {"version", "load", "serve", "blacklist", "commit", "bump", "write"}

(* A logged out token is blacklisted until it has expired, and a request    *)
(* that carries one since its arrival either meets the blacklist or carries *)
(* an expired token.                                                        *)
LogoutHolds ==
    /\ loggedOut \subseteq blacklist \cup expired
    /\ \A t \in Requests : "loggedOut" \in late[t] =>
         /\ token[t] \in blacklist \cup expired
         /\ pc[t] \in PastBlacklist => token[t] \in expired

(* While at most one change runs, versions only grow: no token is ahead of  *)
(* the current version, an outdated one is behind it, and a change writes   *)
(* the successor of the version it finds when it writes.                    *)
ChangeHolds ==
    SerialChanges =>
        /\ \A s, t \in Requests : op[s] = "change" /\ op[t] = "change" => s = t
        /\ \A t \in Requests :
             /\ pc[t] \in {"commit", "bump", "write"} => op[t] = "change"
             /\ pc[t] \in {"revoked", "version", "load"} => op[t] \in {"access", "logout", "change"}
        /\ \A t \in Requests : pc[t] = "write" => found[t] = Epoch
        /\ \A j \in Issued : version[j] <= Epoch
        /\ \A j \in outdated : version[j] < Epoch
        /\ \A t \in Requests : "outdated" \in late[t] =>
             token[t] \in Issued /\ version[token[t]] < Epoch /\ ~Admitted(t)

(* A token older than the password is behind the version, or the version is *)
(* about to move or was left behind.                                        *)
StaleHolds ==
    SerialChanges => \A j \in stale :
        \/ version[j] < Epoch
        \/ "version" \in orphaned
        \/ \E t \in Requests : pc[t] \in {"bump", "write"}

SInv == Shapes /\ LogoutHolds /\ ChangeHolds /\ StaleHolds /\ WindowIsBounded

-----------------------------------------------------------------------------
(* Facts about single steps *)

(* The end of a request resets what the request knew, and nothing else.     *)
LEMMA Finishes ==
    ASSUME Shapes, NEW t \in Requests, Finish(t)
    PROVE  /\ pc'[t] = "idle" /\ op'[t] = "none" /\ late'[t] = {}
           /\ \A s \in Requests \ {t} :
                /\ pc'[s] = pc[s] /\ op'[s] = op[s] /\ token'[s] = token[s]
                /\ late'[s] = late[s] /\ found'[s] = found[s]
           /\ DOMAIN pc' = Requests /\ DOMAIN op' = Requests /\ DOMAIN token' = Requests
           /\ DOMAIN late' = Requests /\ found' \in [Requests -> Nat]
  BY DEF Finish, Goto, Shapes

LEMMA EpochIsNat == Shapes => Epoch \in Nat
  BY DEF Shapes, Epoch


LEMMA ShapesInductive == Shapes /\ Next => Shapes'
<1> SUFFICES ASSUME Shapes, Next PROVE Shapes'
  OBVIOUS
<1>1. ASSUME NEW t \in Requests, Step(t) \/ Crash(t) PROVE Shapes'
  <2>1. CASE Incr(t)
    <3>1. CASE Finish(t)
      BY <2>1, <3>1, Finishes DEF Incr, Shapes, durable, issued, history, Issued
    <3>2. CASE ~Finish(t)
      BY <2>1, <3>2 DEF Incr, Goto, Shapes, durable, issued, local, history, Issued
    <3> QED BY <3>1, <3>2
  <2>2. CASE SetWindow(t)
    BY <2>2 DEF SetWindow, Goto, Shapes, durable, issued, local, history, Issued
  <2>3. CASE Authenticate(t)
    <3>1. CASE Finish(t)
      BY <2>3, <3>1, Finishes DEF Authenticate, Shapes, durable, redis, issued, history, Issued
    <3>2. CASE ~Finish(t)
      BY <2>3, <3>2 DEF Authenticate, Goto, Shapes, durable, redis, issued, local, history, Issued
    <3> QED BY <3>1, <3>2
  <2>4. CASE Issue(t)
    <3>1. Finish(t) /\ UNCHANGED <<durable, redis>>
      BY <2>4 DEF Issue
    <3>2. PICK j \in Tokens :
            /\ version' = [k \in Issued \cup {j} |-> IF k = j THEN Epoch ELSE version[k]]
            /\ outdated' = outdated \ {j} /\ stale' = stale \ {j}
      BY <2>4 DEF Issue
    <3>3. version' \in [Issued' -> Nat] /\ Issued' = Issued \cup {j}
      BY <3>2, EpochIsNat DEF Issued, Shapes
    <3> QED BY <3>1, <3>2, <3>3, Finishes DEF Shapes, durable, redis
  <2>5. CASE CheckRevoked(t)
    <3>1. CASE Finish(t)
      BY <2>5, <3>1, Finishes DEF CheckRevoked, Shapes, durable, redis, issued, history, Issued
    <3>2. CASE ~Finish(t)
      BY <2>5, <3>2 DEF CheckRevoked, Goto, Shapes, durable, redis, issued, local, history, Issued
    <3> QED BY <3>1, <3>2
  <2>6. CASE CheckVersion(t)
    <3>1. CASE Finish(t)
      BY <2>6, <3>1, Finishes DEF CheckVersion, Shapes, durable, redis, issued, history, Issued
    <3>2. CASE ~Finish(t)
      BY <2>6, <3>2 DEF CheckVersion, Goto, Shapes, durable, redis, issued, local, history, Issued
    <3> QED BY <3>1, <3>2
  <2>7. CASE LoadUser(t)
    BY <2>7 DEF LoadUser, Goto, Shapes, durable, redis, issued, history, Issued
  <2>8. CASE Serve(t)
    BY <2>8, Finishes DEF Serve, Shapes, durable, redis, issued, history, Issued
  <2>9. CASE Logout(t)
    BY <2>9, Finishes DEF Logout, Shapes, durable, issued, Issued
  <2>10. CASE CommitPassword(t)
    <3>1. CASE guess[t] = found[t]
      BY <2>10, <3>1 DEF CommitPassword, Goto, Shapes, redis, issued, local, Issued
    <3>2. CASE guess[t] # found[t]
      BY <2>10, <3>2, Finishes DEF CommitPassword, Shapes, durable, redis, issued, Issued
    <3> QED BY <3>1, <3>2
  <2>11. CASE ReadEpoch(t)
    BY <2>11, EpochIsNat DEF ReadEpoch, Goto, Shapes, durable, redis, issued, history, Issued
  <2>12. CASE WriteEpoch(t)
    BY <2>12, Finishes DEF WriteEpoch, NextVersion, Shapes, durable, issued, Issued
  <2>13. CASE Crash(t)
    BY <2>13, Finishes DEF Crash, Shapes, durable, redis, issued, Issued
  <2> QED BY <1>1, <2>1, <2>2, <2>3, <2>4, <2>5, <2>6, <2>7, <2>8, <2>9, <2>10, <2>11,
             <2>12, <2>13 DEF Step
<1>2. ASSUME NEW t \in Requests, NEW g \in 1..lastPwd, StartLogin(t, g) PROVE Shapes'
  BY <1>2 DEF StartLogin, Goto, Shapes, durable, redis, issued, history, Issued
<1>3. ASSUME NEW t \in Requests, NEW o \in ClientOps, NEW j \in Issued, NEW g \in 1..lastPwd,
             StartRequest(t, o, j, g)
      PROVE  Shapes'
  BY <1>3 DEF StartRequest, Goto, Shapes, durable, redis, issued, history, Issued
<1>4. ASSUME NEW j \in Tokens, TokenExpires(j) \/ BlacklistEntryExpires(j) PROVE Shapes'
  BY <1>4 DEF TokenExpires, BlacklistEntryExpires, Shapes, durable, redis, issued, local, history,
         Issued
<1>5. ASSUME WindowEnds PROVE Shapes'
  BY <1>5 DEF WindowEnds, Shapes, durable, issued, local, Issued
<1> QED BY <1>1, <1>2, <1>3, <1>4, <1>5 DEF Next

-----------------------------------------------------------------------------
(* Logout *)

LEMMA LogoutInductive == Shapes /\ LogoutHolds /\ Next => LogoutHolds'
<1> SUFFICES ASSUME Shapes, LogoutHolds, Next PROVE LogoutHolds'
  OBVIOUS
<1> USE DEF LogoutHolds, PastBlacklist
<1>1. ASSUME NEW t \in Requests, Step(t) \/ Crash(t) PROVE LogoutHolds'
  <2>1. CASE Incr(t)
    <3>1. CASE Finish(t)
      BY <2>1, <3>1, Finishes DEF Incr, issued, history
    <3>2. CASE ~Finish(t)
      BY <2>1, <3>2 DEF Incr, Goto, Shapes, issued, local, history
    <3> QED BY <3>1, <3>2
  <2>2. CASE SetWindow(t)
    BY <2>2 DEF SetWindow, Goto, Shapes, issued, local, history
  <2>3. CASE Authenticate(t)
    <3>1. CASE Finish(t)
      BY <2>3, <3>1, Finishes DEF Authenticate, redis, issued, history
    <3>2. CASE ~Finish(t)
      BY <2>3, <3>2 DEF Authenticate, Goto, Shapes, redis, issued, local, history
    <3> QED BY <3>1, <3>2
  <2>4. CASE Issue(t)
    <3>1. Finish(t) /\ UNCHANGED redis
      BY <2>4 DEF Issue
    <3>2. PICK j \in Tokens :
            /\ \A s \in Requests : token[s] # j
            /\ expired' = expired \ {j} /\ loggedOut' = loggedOut \ {j}
      BY <2>4 DEF Issue, Fresh
    <3> QED BY <3>1, <3>2, Finishes DEF redis
  <2>5. CASE CheckRevoked(t)
    <3>1. CASE token[t] \in blacklist
      BY <2>5, <3>1, Finishes DEF CheckRevoked, redis, issued, history
    <3>2. CASE token[t] \notin blacklist
      BY <2>5, <3>2 DEF CheckRevoked, Goto, Shapes, redis, issued, local, history
    <3> QED BY <3>1, <3>2
  <2>6. CASE CheckVersion(t)
    <3>1. CASE Finish(t)
      BY <2>6, <3>1, Finishes DEF CheckVersion, redis, issued, history
    <3>2. CASE ~Finish(t)
      BY <2>6, <3>2 DEF CheckVersion, Goto, Shapes, redis, issued, local, history
    <3> QED BY <3>1, <3>2
  <2>7. CASE LoadUser(t)
    BY <2>7 DEF LoadUser, Goto, Shapes, redis, issued, history
  <2>8. CASE Serve(t)
    BY <2>8, Finishes DEF Serve, redis, issued, history
  <2>9. CASE Logout(t)
    BY <2>9, Finishes DEF Logout, issued
  <2>10. CASE CommitPassword(t)
    <3>1. CASE guess[t] = found[t]
      BY <2>10, <3>1 DEF CommitPassword, Goto, Shapes, redis, issued, local
    <3>2. CASE guess[t] # found[t]
      BY <2>10, <3>2, Finishes DEF CommitPassword, redis, issued
    <3> QED BY <3>1, <3>2
  <2>11. CASE ReadEpoch(t)
    BY <2>11 DEF ReadEpoch, Goto, Shapes, redis, issued, history
  <2>12. CASE WriteEpoch(t)
    BY <2>12, Finishes DEF WriteEpoch, issued
  <2>13. CASE Crash(t)
    BY <2>13, Finishes DEF Crash, redis, issued
  <2> QED BY <1>1, <2>1, <2>2, <2>3, <2>4, <2>5, <2>6, <2>7, <2>8, <2>9, <2>10, <2>11,
             <2>12, <2>13 DEF Step
<1>2. ASSUME NEW t \in Requests, NEW g \in 1..lastPwd, StartLogin(t, g) PROVE LogoutHolds'
  BY <1>2 DEF StartLogin, Goto, Shapes, redis, issued, history
<1>3. ASSUME NEW t \in Requests, NEW o \in ClientOps, NEW j \in Issued, NEW g \in 1..lastPwd,
             StartRequest(t, o, j, g)
      PROVE  LogoutHolds'
  <2>1. /\ pc' = [pc EXCEPT ![t] = "revoked"]
        /\ token' = [token EXCEPT ![t] = j]
        /\ \A s \in Requests \ {t} : late'[s] = late[s]
        /\ "loggedOut" \in late'[t] => j \in loggedOut
        /\ UNCHANGED <<blacklist, expired, loggedOut>>
    BY <1>3 DEF StartRequest, Goto, Shapes, redis, issued, history
  <2> QED BY <2>1 DEF Shapes
<1>4. ASSUME NEW j \in Tokens, TokenExpires(j) \/ BlacklistEntryExpires(j) PROVE LogoutHolds'
  BY <1>4 DEF TokenExpires, BlacklistEntryExpires, TokenIsOver, redis, issued, local, history
<1>5. ASSUME WindowEnds PROVE LogoutHolds'
  BY <1>5 DEF WindowEnds, issued, local
<1> QED BY <1>1, <1>2, <1>3, <1>4, <1>5 DEF Next

-----------------------------------------------------------------------------
(* The login limiter *)

LEMMA WindowInductive == Shapes /\ WindowIsBounded /\ Next => WindowIsBounded'
<1> SUFFICES ASSUME Shapes, WindowIsBounded, Next PROVE WindowIsBounded'
  OBVIOUS
<1> USE DEF WindowIsBounded
<1>1. ASSUME NEW t \in Requests, Step(t) \/ Crash(t) PROVE WindowIsBounded'
  <2>1. CASE Incr(t)
    <3>1. CASE count = 0
      BY <2>1, <3>1, SessionsAssumption DEF Incr, FirstInWindow, Goto, Shapes
    <3>2. CASE count # 0 /\ Finish(t)
      BY <2>1, <3>2, Finishes DEF Incr, history
    <3>3. CASE count # 0 /\ ~Finish(t)
      BY <2>1, <3>3 DEF Incr, Goto, Shapes, history
    <3> QED BY <3>1, <3>2, <3>3
  <2>2. CASE SetWindow(t)
    BY <2>2 DEF SetWindow
  <2>3. CASE /\ pc[t] # "expire" /\ UNCHANGED <<count, window>>
             /\ orphaned' = orphaned \/ orphaned' = orphaned \ {"version"}
             /\ \A s \in Requests \ {t} : pc'[s] = pc[s]
    BY <2>3
  <2>4. CASE Authenticate(t) \/ CheckRevoked(t) \/ CheckVersion(t) \/ LoadUser(t) \/ Serve(t)
             \/ Logout(t) \/ CommitPassword(t) \/ ReadEpoch(t) \/ WriteEpoch(t) \/ Issue(t)
    <3>1. \A s \in Requests \ {t} : pc'[s] = pc[s]
      BY <2>4, Finishes DEF Authenticate, CheckRevoked, CheckVersion, LoadUser, Serve, Logout,
           CommitPassword, ReadEpoch, WriteEpoch, Issue, Goto, Shapes
    <3>2. pc[t] # "expire" /\ UNCHANGED <<count, window>>
      BY <2>4 DEF Authenticate, CheckRevoked, CheckVersion, LoadUser, Serve, Logout,
           CommitPassword, ReadEpoch, WriteEpoch, Issue, redis
    <3>3. orphaned' = orphaned \/ orphaned' = orphaned \ {"version"}
      BY <2>4 DEF Authenticate, CheckRevoked, CheckVersion, LoadUser, Serve, Logout,
           CommitPassword, ReadEpoch, WriteEpoch, Issue, history
    <3> QED BY <2>3, <3>1, <3>2, <3>3
  <2>5. CASE Crash(t)
    <3>1. CASE pc[t] = "expire"
      BY <2>5, <3>1 DEF Crash
    <3>2. CASE pc[t] # "expire"
      BY <2>5, <3>2, Finishes DEF Crash, redis
    <3> QED BY <3>1, <3>2
  <2> QED BY <1>1, <2>1, <2>2, <2>4, <2>5 DEF Step
<1>2. ASSUME NEW t \in Requests, NEW g \in 1..lastPwd, StartLogin(t, g) PROVE WindowIsBounded'
  BY <1>2 DEF StartLogin, Goto, Shapes, redis, history
<1>3. ASSUME NEW t \in Requests, NEW o \in ClientOps, NEW j \in Issued, NEW g \in 1..lastPwd,
             StartRequest(t, o, j, g)
      PROVE  WindowIsBounded'
  BY <1>3 DEF StartRequest, Goto, Shapes, redis, history
<1>4. ASSUME NEW j \in Tokens, TokenExpires(j) \/ BlacklistEntryExpires(j) PROVE WindowIsBounded'
  BY <1>4 DEF TokenExpires, BlacklistEntryExpires, redis, history
<1>5. ASSUME WindowEnds PROVE WindowIsBounded'
  BY <1>5 DEF WindowEnds
<1> QED BY <1>1, <1>2, <1>3, <1>4, <1>5 DEF Next

-----------------------------------------------------------------------------
(* Change of password *)

(* A step of one request that moves no version and learns no lie.           *)
LEMMA Calm ==
    ASSUME Shapes, ChangeHolds, SerialChanges, NEW t \in Requests,
           UNCHANGED <<epoch, version, outdated>>,
           \A s \in Requests \ {t} :
               pc'[s] = pc[s] /\ op'[s] = op[s] /\ token'[s] = token[s]
               /\ late'[s] = late[s] /\ found'[s] = found[s],
           op'[t] \in {op[t], "none", "login"},
           pc'[t] \in {"commit", "bump", "write"} => op'[t] = "change",
           pc'[t] \in {"revoked", "version", "load"} => op'[t] \in {"access", "logout", "change"},
           pc'[t] = "write" => found'[t] = Epoch,
           "outdated" \in late'[t] =>
               "outdated" \in late[t] /\ token'[t] = token[t] /\ ~Admitted(t)'
    PROVE  ChangeHolds'
<1>1. Epoch' = Epoch /\ Issued' = Issued
  BY DEF Epoch, Issued
<1>2. \A s \in Requests \ {t} : Admitted(s)' <=> Admitted(s)
  BY DEF Admitted
<1>3. \A s \in Requests : op'[s] = "change" => op[s] = "change"
  OBVIOUS
<1>4. \A r, s \in Requests : op'[r] = "change" /\ op'[s] = "change" => r = s
  BY <1>3 DEF ChangeHolds
<1>5. \A s \in Requests :
        /\ pc'[s] \in {"commit", "bump", "write"} => op'[s] = "change"
        /\ pc'[s] \in {"revoked", "version", "load"} => op'[s] \in {"access", "logout", "change"}
        /\ pc'[s] = "write" => found'[s] = Epoch'
  BY <1>1 DEF ChangeHolds
<1>6. \A s \in Requests : "outdated" \in late'[s] =>
        token'[s] \in Issued' /\ version'[token'[s]] < Epoch' /\ ~Admitted(s)'
  BY <1>1, <1>2 DEF ChangeHolds
<1> QED BY <1>1, <1>4, <1>5, <1>6 DEF ChangeHolds

LEMMA ChangeInductive == Shapes /\ ChangeHolds /\ Next => ChangeHolds'
<1> SUFFICES ASSUME Shapes, ChangeHolds, SerialChanges, Next PROVE ChangeHolds'
  BY DEF ChangeHolds
<1>1. ASSUME NEW t \in Requests, Step(t) \/ Crash(t) PROVE ChangeHolds'
  <2> USE SessionsAssumption
  <2>1. ASSUME Finish(t), UNCHANGED <<epoch, version, outdated>> PROVE ChangeHolds'
    BY <2>1, Finishes, Calm
  <2>2. CASE Incr(t)
    <3>1. CASE Finish(t)
      BY <2>1, <2>2, <3>1 DEF Incr, issued, history
    <3>2. CASE ~Finish(t)
      BY <2>2, <3>2, Calm DEF Incr, Goto, Shapes, ChangeHolds, Admitted, issued, local, history
    <3> QED BY <3>1, <3>2
  <2>3. CASE SetWindow(t)
    BY <2>3, Calm DEF SetWindow, Goto, Shapes, ChangeHolds, Admitted, issued, local, history
  <2>4. CASE Authenticate(t)
    <3>1. CASE Finish(t)
      BY <2>1, <2>4, <3>1 DEF Authenticate, redis, issued, history
    <3>2. CASE ~Finish(t)
      BY <2>4, <3>2, Calm DEF Authenticate, Goto, Shapes, ChangeHolds, Admitted, redis, issued,
             local, history
    <3> QED BY <3>1, <3>2
  <2>5. CASE Issue(t)
    <3>1. Finish(t) /\ UNCHANGED redis
      BY <2>5 DEF Issue
    <3>2. PICK j \in Tokens :
            /\ \A s \in Requests : token[s] # j
            /\ version' = [k \in Issued \cup {j} |-> IF k = j THEN Epoch ELSE version[k]]
            /\ outdated' = outdated \ {j}
      BY <2>5 DEF Issue, Fresh
    <3>3. Epoch' = Epoch /\ Epoch \in Nat /\ Issued' = Issued \cup {j}
      BY <3>1, <3>2, EpochIsNat DEF redis, Epoch, Issued
    <3>4. \A i \in Issued' : version'[i] = IF i = j THEN Epoch ELSE version[i]
      BY <3>2, <3>3
    <3>5. \A i \in Issued' : version'[i] <= Epoch'
      BY <3>3, <3>4 DEF ChangeHolds
    <3>6. \A i \in outdated' : version'[i] < Epoch'
      BY <3>2, <3>3, <3>4 DEF ChangeHolds, Shapes
    <3>7. \A s \in Requests : "outdated" \in late'[s] =>
            token'[s] \in Issued' /\ version'[token'[s]] < Epoch' /\ ~Admitted(s)'
      BY <3>1, <3>2, <3>3, <3>4, Finishes DEF ChangeHolds, Admitted
    <3>8. \A r, s \in Requests : op'[r] = "change" /\ op'[s] = "change" => r = s
      BY <3>1, Finishes DEF ChangeHolds
    <3>9. \A s \in Requests :
            /\ pc'[s] \in {"commit", "bump", "write"} => op'[s] = "change"
            /\ pc'[s] \in {"revoked", "version", "load"} =>
                 op'[s] \in {"access", "logout", "change"}
            /\ pc'[s] = "write" => found'[s] = Epoch'
      BY <3>1, <3>3, Finishes DEF ChangeHolds
    <3> QED BY <3>5, <3>6, <3>7, <3>8, <3>9 DEF ChangeHolds
  <2>6. CASE CheckRevoked(t)
    <3>1. CASE Finish(t)
      BY <2>1, <2>6, <3>1 DEF CheckRevoked, redis, issued, history
    <3>2. CASE ~Finish(t)
      BY <2>6, <3>2, Calm DEF CheckRevoked, Goto, Shapes, ChangeHolds, Admitted, redis, issued,
             local, history
    <3> QED BY <3>1, <3>2
  <2>7. CASE CheckVersion(t)
    <3>1. CASE ~Current(token[t])
      BY <2>1, <2>7, <3>1 DEF CheckVersion, redis, issued, history
    <3>2. CASE Current(token[t])
      <4>1. "outdated" \notin late[t]
        BY <3>2, EpochIsNat DEF ChangeHolds, Current, Shapes
      <4>2. /\ pc[t] = "version" /\ pc' = [pc EXCEPT ![t] = "load"]
            /\ UNCHANGED <<op, token, late, found, epoch, version, outdated>>
        BY <2>7, <3>2 DEF CheckVersion, Goto, redis, issued, local, history
      <4> QED BY <4>1, <4>2, Calm DEF Shapes, ChangeHolds
    <3> QED BY <3>1, <3>2
  <2>8. CASE LoadUser(t)
    <3>1. /\ pc[t] = "load" /\ pc' = [pc EXCEPT ![t] = PlaceOf(op[t])]
          /\ found' = [found EXCEPT ![t] = pwd]
          /\ UNCHANGED <<op, token, late, epoch, version, outdated>>
      BY <2>8 DEF LoadUser, Goto, redis, issued, history
    <3>2. "outdated" \notin late[t]
      BY <3>1 DEF ChangeHolds, Admitted
    <3>3. /\ op[t] \in {"access", "logout", "change"}
          /\ PlaceOf(op[t]) \in {"serve", "blacklist", "commit"}
          /\ PlaceOf(op[t]) = "commit" => op[t] = "change"
      BY <3>1 DEF ChangeHolds, PlaceOf
    <3> QED BY <3>1, <3>2, <3>3, Calm DEF Shapes
  <2>9. CASE Serve(t) \/ Logout(t)
    BY <2>1, <2>9 DEF Serve, Logout, redis, issued, history
  <2>10. CASE CommitPassword(t)
    <3>1. CASE guess[t] = found[t]
      <4>1. /\ pc[t] = "commit" /\ pc' = [pc EXCEPT ![t] = "bump"]
            /\ UNCHANGED <<op, token, late, found, epoch, version, outdated>>
        BY <2>10, <3>1 DEF CommitPassword, Goto, redis, issued, local
      <4>2. op[t] = "change" /\ "outdated" \notin late[t]
        BY <4>1 DEF ChangeHolds, Admitted
      <4> QED BY <4>1, <4>2, Calm DEF Shapes
    <3>2. CASE guess[t] # found[t]
      BY <2>1, <2>10, <3>2 DEF CommitPassword, redis, issued
    <3> QED BY <3>1, <3>2
  <2>11. CASE ReadEpoch(t)
    <3>1. /\ pc[t] = "bump" /\ pc' = [pc EXCEPT ![t] = "write"]
          /\ found' = [found EXCEPT ![t] = Epoch]
          /\ UNCHANGED <<op, token, late, epoch, version, outdated>>
      BY <2>11 DEF ReadEpoch, Goto, redis, issued, history
    <3>2. op[t] = "change" /\ "outdated" \notin late[t]
      BY <3>1 DEF ChangeHolds, Admitted
    <3> QED BY <3>1, <3>2, Calm DEF Shapes
  <2>12. CASE WriteEpoch(t)
    <3>1. /\ pc[t] = "write" /\ Finish(t)
          /\ epoch' = found[t] + 1
          /\ outdated' = outdated \cup Issued
          /\ UNCHANGED version
      BY <2>12 DEF WriteEpoch, NextVersion, issued
    <3>2. op[t] = "change" /\ found[t] = Epoch
      BY <3>1 DEF ChangeHolds
    <3>3. Epoch \in Nat /\ Epoch' = Epoch + 1 /\ Issued' = Issued
      BY <3>1, <3>2, EpochIsNat DEF Epoch, Issued
    <3>4. \A j \in Issued : version[j] \in Nat /\ version[j] < Epoch'
      BY <3>3 DEF ChangeHolds, Shapes
    <3>5. /\ \A j \in Issued' : version'[j] <= Epoch'
          /\ \A j \in outdated' : version'[j] < Epoch'
      BY <3>1, <3>3, <3>4 DEF Shapes
    <3>6. \A s \in Requests : "outdated" \in late'[s] =>
            token'[s] \in Issued' /\ version'[token'[s]] < Epoch' /\ ~Admitted(s)'
      BY <3>1, <3>3, <3>4, Finishes DEF ChangeHolds, Admitted
    <3>7. \A r, s \in Requests : op'[r] = "change" /\ op'[s] = "change" => r = s
      BY <3>1, Finishes DEF ChangeHolds
    <3>8. \A s \in Requests :
            /\ pc'[s] \in {"commit", "bump", "write"} => op'[s] = "change"
            /\ pc'[s] \in {"revoked", "version", "load"} =>
                 op'[s] \in {"access", "logout", "change"}
            /\ pc'[s] # "write"
      BY <3>1, <3>2, Finishes DEF ChangeHolds
    <3> QED BY <3>5, <3>6, <3>7, <3>8 DEF ChangeHolds
  <2>13. CASE Crash(t)
    BY <2>1, <2>13 DEF Crash, redis, issued
  <2> QED BY <1>1, <2>2, <2>3, <2>4, <2>5, <2>6, <2>7, <2>8, <2>9, <2>10, <2>11, <2>12,
             <2>13 DEF Step
<1>2. ASSUME NEW t \in Requests, NEW g \in 1..lastPwd, StartLogin(t, g) PROVE ChangeHolds'
  BY <1>2, Calm DEF StartLogin, Goto, Shapes, ChangeHolds, Admitted, redis, issued, history
<1>3. ASSUME NEW t \in Requests, NEW o \in ClientOps, NEW j \in Issued, NEW g \in 1..lastPwd,
             StartRequest(t, o, j, g)
      PROVE  ChangeHolds'
  <2>1. /\ pc' = [pc EXCEPT ![t] = "revoked"]
        /\ op' = [op EXCEPT ![t] = o]
        /\ token' = [token EXCEPT ![t] = j]
        /\ \A s \in Requests \ {t} : late'[s] = late[s]
        /\ "outdated" \in late'[t] => j \in outdated
        /\ o = "change" => \A s \in Requests : op[s] # "change"
        /\ UNCHANGED <<epoch, version, outdated, found>>
    BY <1>3 DEF StartRequest, Goto, Shapes, redis, issued, history
  <2>2. Epoch' = Epoch /\ Issued' = Issued /\ o \in {"access", "logout", "change"}
    BY <2>1, SessionsAssumption DEF Epoch, Issued
  <2>3. \A r, s \in Requests : op'[r] = "change" /\ op'[s] = "change" => r = s
    BY <2>1 DEF ChangeHolds, Shapes
  <2>4. \A s \in Requests :
          /\ pc'[s] \in {"commit", "bump", "write"} => op'[s] = "change"
          /\ pc'[s] \in {"revoked", "version", "load"} => op'[s] \in {"access", "logout", "change"}
          /\ pc'[s] = "write" => found'[s] = Epoch'
    BY <2>1, <2>2 DEF ChangeHolds, Shapes
  <2>5. \A s \in Requests : "outdated" \in late'[s] =>
          token'[s] \in Issued' /\ version'[token'[s]] < Epoch' /\ ~Admitted(s)'
    BY <2>1, <2>2 DEF ChangeHolds, Admitted, Shapes
  <2> QED BY <2>1, <2>2, <2>3, <2>4, <2>5 DEF ChangeHolds
<1>4. ASSUME UNCHANGED <<epoch, version, outdated, pc, local>> PROVE ChangeHolds'
  BY <1>4 DEF ChangeHolds, Epoch, Issued, Admitted, local
<1>5. ASSUME NEW j \in Tokens, TokenExpires(j) \/ BlacklistEntryExpires(j) PROVE ChangeHolds'
  BY <1>4, <1>5 DEF TokenExpires, BlacklistEntryExpires, redis, issued, history
<1>6. ASSUME WindowEnds PROVE ChangeHolds'
  BY <1>4, <1>6 DEF WindowEnds, issued
<1> QED BY <1>1, <1>2, <1>3, <1>5, <1>6 DEF Next

-----------------------------------------------------------------------------
(* Tokens older than the password *)

LEMMA StaleKept ==
    ASSUME StaleHolds, UNCHANGED <<epoch, version, stale>>,
           "version" \in orphaned => "version" \in orphaned',
           \A s \in Requests : pc[s] \in {"bump", "write"} =>
               pc'[s] \in {"bump", "write"} \/ "version" \in orphaned'
    PROVE  StaleHolds'
  BY DEF StaleHolds, Epoch

LEMMA StaleInductive == Shapes /\ ChangeHolds /\ StaleHolds /\ Next => StaleHolds'
<1> SUFFICES ASSUME Shapes, ChangeHolds, StaleHolds, SerialChanges, Next PROVE StaleHolds'
  BY DEF StaleHolds
<1>1. ASSUME NEW t \in Requests, Step(t) \/ Crash(t) PROVE StaleHolds'
  <2>1. ASSUME pc[t] \notin {"bump", "write"}, UNCHANGED <<epoch, version, stale, orphaned>>,
               \A s \in Requests \ {t} : pc'[s] = pc[s]
        PROVE  StaleHolds'
    BY <2>1, StaleKept
  <2>2. CASE Incr(t) \/ SetWindow(t) \/ Authenticate(t) \/ CheckRevoked(t) \/ CheckVersion(t)
             \/ LoadUser(t) \/ Serve(t) \/ Logout(t)
    <3>1. \A s \in Requests \ {t} : pc'[s] = pc[s]
      BY <2>2, Finishes DEF Incr, SetWindow, Authenticate, CheckRevoked, CheckVersion, LoadUser,
           Serve, Logout, Goto, Shapes
    <3>2. pc[t] \notin {"bump", "write"} /\ UNCHANGED <<epoch, version, stale, orphaned>>
      BY <2>2 DEF Incr, SetWindow, Authenticate, CheckRevoked, CheckVersion, LoadUser,
           Serve, Logout, redis, issued, history
    <3> QED BY <2>1, <3>1, <3>2
  <2>3. CASE Issue(t)
    <3>1. Finish(t) /\ pc[t] = "issue" /\ UNCHANGED <<redis, orphaned>>
      BY <2>3 DEF Issue
    <3>2. PICK j \in Tokens :
            /\ version' = [k \in Issued \cup {j} |-> IF k = j THEN Epoch ELSE version[k]]
            /\ stale' = stale \ {j}
      BY <2>3 DEF Issue
    <3>3. Epoch' = Epoch
      BY <3>1 DEF redis, Epoch
    <3>4. \A i \in stale' : i \in stale /\ version'[i] = version[i]
      BY <3>2 DEF Shapes
    <3>5. \A s \in Requests : pc[s] \in {"bump", "write"} => pc'[s] = pc[s]
      BY <3>1, Finishes
    <3> QED BY <3>1, <3>3, <3>4, <3>5 DEF StaleHolds
  <2>4. CASE CommitPassword(t)
    <3>1. CASE guess[t] = found[t]
      BY <2>4, <3>1 DEF CommitPassword, Goto, Shapes, StaleHolds
    <3>2. CASE guess[t] # found[t]
      BY <2>1, <2>4, <3>2, Finishes DEF CommitPassword, redis, issued
    <3> QED BY <3>1, <3>2
  <2>5. CASE ReadEpoch(t)
    BY <2>5, StaleKept DEF ReadEpoch, Goto, Shapes, redis, issued, history
  <2>6. CASE WriteEpoch(t)
    <3>1. /\ pc[t] = "write" /\ epoch' = found[t] + 1
          /\ UNCHANGED <<version, stale>>
      BY <2>6 DEF WriteEpoch, NextVersion, issued
    <3>2. Epoch \in Nat /\ Epoch' = Epoch + 1
      BY <3>1, EpochIsNat DEF ChangeHolds, Epoch
    <3>3. \A j \in stale' : version'[j] \in Nat /\ version'[j] < Epoch'
      BY <3>1, <3>2 DEF ChangeHolds, Shapes
    <3> QED BY <3>3 DEF StaleHolds
  <2>7. CASE Crash(t)
    <3>1. UNCHANGED <<epoch, version, stale>> /\ Finish(t) /\ orphaned \subseteq orphaned'
      BY <2>7 DEF Crash, redis, issued
    <3>2. pc[t] \in {"bump", "write"} => "version" \in orphaned'
      BY <2>7 DEF Crash
    <3> QED BY <3>1, <3>2, Finishes, StaleKept
  <2> QED BY <1>1, <2>2, <2>3, <2>4, <2>5, <2>6, <2>7 DEF Step
<1>2. ASSUME NEW t \in Requests, NEW g \in 1..lastPwd, StartLogin(t, g) PROVE StaleHolds'
  BY <1>2, StaleKept DEF StartLogin, Goto, Shapes, redis, issued, history
<1>3. ASSUME NEW t \in Requests, NEW o \in ClientOps, NEW j \in Issued, NEW g \in 1..lastPwd,
             StartRequest(t, o, j, g)
      PROVE  StaleHolds'
  BY <1>3, StaleKept DEF StartRequest, Goto, Shapes, redis, issued, history
<1>4. ASSUME NEW j \in Tokens, TokenExpires(j) \/ BlacklistEntryExpires(j) PROVE StaleHolds'
  BY <1>4, StaleKept DEF TokenExpires, BlacklistEntryExpires, redis, issued, history
<1>5. ASSUME WindowEnds PROVE StaleHolds'
  BY <1>5, StaleKept DEF WindowEnds, issued
<1> QED BY <1>1, <1>2, <1>3, <1>4, <1>5 DEF Next

-----------------------------------------------------------------------------
(* The invariant and what follows from it *)

LEMMA InitHolds == Init => SInv
<1> SUFFICES ASSUME Init PROVE SInv
  OBVIOUS
<1>1. DOMAIN version = {}
  BY DEF Init
<1>2. version \in [Issued -> Nat]
  BY <1>1 DEF Init, Issued
<1>3. Shapes
  BY <1>1, <1>2 DEF Init, Shapes, Issued
<1>4. LogoutHolds /\ StaleHolds /\ WindowIsBounded
  BY DEF Init, LogoutHolds, StaleHolds, WindowIsBounded
<1>5. ChangeHolds
  BY <1>1 DEF Init, ChangeHolds, Issued
<1> QED BY <1>3, <1>4, <1>5 DEF SInv

LEMMA Stutter == SInv /\ UNCHANGED vars => SInv'
<1> SUFFICES ASSUME SInv, UNCHANGED vars PROVE SInv'
  OBVIOUS
<1> USE DEF SInv, vars, durable, redis, issued, local, history
<1>1. Shapes'
  BY DEF Shapes, Issued
<1>2. LogoutHolds'
  BY DEF LogoutHolds
<1>3. ChangeHolds'
  BY DEF ChangeHolds, Epoch, Issued, Admitted
<1>4. StaleHolds'
  BY DEF StaleHolds, Epoch
<1>5. WindowIsBounded'
  BY DEF WindowIsBounded
<1> QED BY <1>1, <1>2, <1>3, <1>4, <1>5

LEMMA Revocation == Spec => []SInv
<1>1. SInv /\ [Next]_vars => SInv'
  BY ShapesInductive, LogoutInductive, ChangeInductive, StaleInductive, WindowInductive,
     Stutter DEF SInv
<1> QED BY <1>1, InitHolds, PTL DEF Spec

(* No request that arrives after the answer to a logout is let in with the  *)
(* token while it lives (service.logout, is_token_revoked).                 *)
THEOREM LogoutFinal == Spec => []LogoutIsFinal
<1>1. SInv => LogoutIsFinal
  BY DEF SInv, LogoutHolds, LogoutIsFinal, Admitted, PastBlacklist
<1> QED BY <1>1, Revocation, PTL

(* A completed change of password shuts out every token issued before it    *)
(* (update_password, verify_token_valid), as long as changes do not overlap. *)
THEOREM ChangeRevokes == Spec => []PasswordChangeRevokes
<1>1. SInv => PasswordChangeRevokes
  BY DEF SInv, ChangeHolds, PasswordChangeRevokes
<1> QED BY <1>1, Revocation, PTL

(* A token that would be let in is younger than the password, but for a     *)
(* change that is under way or died after its commit (login,                *)
(* update_password).                                                        *)
THEOREM TokensProve == Spec => []TokensProveThePassword
<1>1. SInv => TokensProveThePassword
  <2> SUFFICES ASSUME SInv, SerialChanges, NEW j \in stale \ (expired \cup blacklist), Current(j)
               PROVE  "version" \in orphaned \/ \E t \in Requests : pc[t] \in {"bump", "write"}
    BY DEF TokensProveThePassword
  <2>1. ~(version[j] < Epoch)
    BY EpochIsNat DEF SInv, Current
  <2> QED BY <2>1 DEF SInv, StaleHolds
<1> QED BY <1>1, Revocation, PTL

(* The counter of logins never loses its TTL except with the one request    *)
(* that owed it (rate_limit).                                               *)
THEOREM LimiterIsBounded == Spec => []WindowIsBounded
<1>1. SInv => WindowIsBounded
  BY DEF SInv
<1> QED BY <1>1, Revocation, PTL

-----------------------------------------------------------------------------
(* Types, and the distance between the version and the passwords *)

(* Changes of password before their commit, and between it and the version. *)
Ahead == {t \in Requests : op[t] = "change" /\ pc[t] \notin {"bump", "write"}}
Moving == {t \in Requests : pc[t] \in {"bump", "write"}}

(* Each change may still add one to the passwords before its commit, and    *)
(* one to the version after it, whatever version it read.                   *)
Numbers ==
    /\ lastPwd + Cardinality(Ahead) <= MaxPwd
    /\ Epoch + Cardinality(Moving) <= lastPwd
    /\ \A t \in Requests : pc[t] = "write" => found[t] + Cardinality(Moving) <= lastPwd

BeforeHandler == {"revoked", "version", "load"}

Places == \A t \in Requests :
    /\ token[t] \in Issued \cup {None}
    /\ pc[t] \in BeforeHandler => op[t] \in {"access", "logout", "change"} /\ token[t] \in Issued
    /\ pc[t] = "blacklist" => token[t] \in Issued
    /\ pc[t] \in {"commit", "bump", "write"} => op[t] = "change"

LEMMA Counting ==
    /\ IsFiniteSet(Ahead) /\ Cardinality(Ahead) \in Nat
    /\ IsFiniteSet(Moving) /\ Cardinality(Moving) \in Nat
<1>1. IsFiniteSet(Ahead) /\ IsFiniteSet(Moving)
  BY FS_Subset, SessionsAssumption DEF Ahead, Moving
<1> QED BY <1>1, FS_CardinalityType

LEMMA OneMore ==
    ASSUME NEW S, IsFiniteSet(S), NEW t
    PROVE  /\ Cardinality(S \cup {t}) \in Nat /\ Cardinality(S \cup {t}) <= Cardinality(S) + 1
           /\ Cardinality(S \ {t}) \in Nat /\ Cardinality(S \ {t}) <= Cardinality(S)
           /\ t \in S => Cardinality(S \ {t}) = Cardinality(S) - 1
<1>1. Cardinality(S) \in Nat
  BY FS_CardinalityType
<1>2. Cardinality(S \cup {t}) = IF t \in S THEN Cardinality(S) ELSE Cardinality(S) + 1
  BY FS_AddElement
<1>3. /\ IsFiniteSet(S \ {t})
      /\ Cardinality(S \ {t}) = IF t \in S THEN Cardinality(S) - 1 ELSE Cardinality(S)
  BY FS_RemoveElement
<1>4. Cardinality(S \ {t}) \in Nat
  BY <1>3, FS_CardinalityType
<1> QED BY <1>1, <1>2, <1>3, <1>4

LEMMA BoundsAreNat == MaxPwd \in Nat /\ Limit \in Nat
  BY SessionsAssumption

(* A step of one request that commits no password and writes no version.    *)
LEMMA NumbersStay ==
    ASSUME Shapes, Numbers, NEW t \in Requests, UNCHANGED <<lastPwd, epoch>>,
           \A s \in Requests \ {t} : pc'[s] = pc[s] /\ op'[s] = op[s] /\ found'[s] = found[s],
           op'[t] = "change" => op[t] = "change",
           pc[t] \in {"bump", "write"} => pc'[t] \in {"bump", "write"} \/ op'[t] # "change",
           pc'[t] \in {"bump", "write"} => pc[t] \in {"bump", "write"},
           pc'[t] = "write" => /\ found'[t] \in {found[t], Epoch}
                               /\ found'[t] = Epoch \/ pc[t] = "write"
    PROVE  Numbers'
<1>1. Ahead' \in {Ahead, Ahead \ {t}}
  <2>1. \A s \in Requests \ {t} : s \in Ahead' <=> s \in Ahead
    BY DEF Ahead
  <2>2. t \in Ahead' => t \in Ahead
    BY DEF Ahead
  <2>3. Ahead \subseteq Requests /\ Ahead' \subseteq Requests
    BY DEF Ahead
  <2> QED BY <2>1, <2>2, <2>3
<1>2. Moving' \in {Moving, Moving \ {t}}
  <2>1. \A s \in Requests \ {t} : s \in Moving' <=> s \in Moving
    BY DEF Moving
  <2>2. t \in Moving' => t \in Moving
    BY DEF Moving
  <2>3. Moving \subseteq Requests /\ Moving' \subseteq Requests
    BY DEF Moving
  <2> QED BY <2>1, <2>2, <2>3
<1>3. /\ Cardinality(Ahead') \in Nat /\ Cardinality(Ahead') <= Cardinality(Ahead)
      /\ Cardinality(Moving') \in Nat /\ Cardinality(Moving') <= Cardinality(Moving)
  <2>1. /\ Cardinality(Ahead \ {t}) \in Nat /\ Cardinality(Ahead \ {t}) <= Cardinality(Ahead)
        /\ Cardinality(Moving \ {t}) \in Nat /\ Cardinality(Moving \ {t}) <= Cardinality(Moving)
    BY Counting, OneMore
  <2>2. CASE Ahead' = Ahead /\ Moving' = Moving
    BY <2>2, Counting
  <2>3. CASE Ahead' = Ahead \ {t} /\ Moving' = Moving
    BY <2>1, <2>3, Counting
  <2>4. CASE Ahead' = Ahead /\ Moving' = Moving \ {t}
    BY <2>1, <2>4, Counting
  <2>5. CASE Ahead' = Ahead \ {t} /\ Moving' = Moving \ {t}
    BY <2>1, <2>5
  <2> QED BY <1>1, <1>2, <2>2, <2>3, <2>4, <2>5
<1>4. Epoch' = Epoch
  BY DEF Epoch
<1>5. \A s \in Requests : pc'[s] = "write" => found'[s] + Cardinality(Moving) <= lastPwd
  BY DEF Numbers
<1>6. \A s \in Requests : pc'[s] = "write" => found'[s] \in Nat
  BY EpochIsNat DEF Shapes
<1> QED BY <1>3, <1>4, <1>5, <1>6, Counting, EpochIsNat, BoundsAreNat DEF Numbers, Shapes

LEMMA PlacesInductive == Shapes /\ Places /\ Next => Places'
<1> SUFFICES ASSUME Shapes, Places, Next PROVE Places'
  OBVIOUS
<1> USE DEF Places, BeforeHandler
<1>1. ASSUME NEW t \in Requests, Finish(t), Issued \subseteq Issued' PROVE Places'
  BY <1>1 DEF Finish, Goto, Shapes
<1>2. ASSUME NEW t \in Requests, Step(t) \/ Crash(t) PROVE Places'
  <2>1. CASE Issue(t)
    <3>1. Finish(t) /\ Issued \subseteq Issued'
      BY <2>1 DEF Issue, Issued
    <3> QED BY <1>1, <3>1
  <2>2. CASE ~Issue(t)
    <3>1. UNCHANGED Issued
      BY <1>2, <2>2 DEF Step, Incr, SetWindow, Authenticate, CheckRevoked, CheckVersion, LoadUser,
           Serve, Logout, CommitPassword, ReadEpoch, WriteEpoch, Crash, issued, Issued
    <3>2. CASE Finish(t)
      BY <1>1, <3>1, <3>2
    <3>3. CASE ~Finish(t)
      <4>1. /\ UNCHANGED <<op, token>>
            /\ \E place :
                 /\ pc' = [pc EXCEPT ![t] = place]
                 /\ place \in BeforeHandler => pc[t] \in BeforeHandler
                 /\ place = "blacklist" => pc[t] \in BeforeHandler
                 /\ place = "commit" => op[t] = "change"
                 /\ place \in {"bump", "write"} => pc[t] \in {"commit", "bump", "write"}
        <5>1. CASE LoadUser(t)
          <6>1. pc[t] = "load" /\ op[t] \in {"access", "logout", "change"}
            BY <5>1 DEF LoadUser
          <6>2. /\ PlaceOf(op[t]) \in {"serve", "blacklist", "commit"}
                /\ PlaceOf(op[t]) = "commit" => op[t] = "change"
            BY <6>1 DEF PlaceOf
          <6>3. pc' = [pc EXCEPT ![t] = PlaceOf(op[t])] /\ UNCHANGED <<op, token>>
            BY <5>1 DEF LoadUser, Goto
          <6> QED BY <6>1, <6>2, <6>3
        <5>2. CASE Incr(t) \/ SetWindow(t) \/ Authenticate(t)
          BY <3>3, <5>2 DEF Incr, SetWindow, Authenticate, Goto, local
        <5>3. CASE CheckRevoked(t) \/ CheckVersion(t)
          BY <3>3, <5>3 DEF CheckRevoked, CheckVersion, Goto, local
        <5>4. CASE CommitPassword(t) \/ ReadEpoch(t)
          BY <3>3, <5>4 DEF CommitPassword, ReadEpoch, Goto, local
        <5>5. ~Serve(t) /\ ~Logout(t) /\ ~WriteEpoch(t) /\ ~Crash(t)
          BY <3>3 DEF Serve, Logout, WriteEpoch, Crash
        <5> QED BY <1>2, <2>2, <5>1, <5>2, <5>3, <5>4, <5>5 DEF Step
      <4>2. PICK place :
              /\ pc' = [pc EXCEPT ![t] = place]
              /\ place \in BeforeHandler => pc[t] \in BeforeHandler
              /\ place = "blacklist" => pc[t] \in BeforeHandler
              /\ place = "commit" => op[t] = "change"
              /\ place \in {"bump", "write"} => pc[t] \in {"commit", "bump", "write"}
        BY <4>1
      <4>3. pc' = [pc EXCEPT ![t] = place] /\ DOMAIN pc = Requests
        BY <4>2 DEF Shapes
      <4>4. pc'[t] = place /\ \A s \in Requests \ {t} : pc'[s] = pc[s]
        BY <4>3
      <4>5. UNCHANGED <<op, token, Issued>>
        BY <3>1, <4>1
      <4>6. ASSUME NEW s \in Requests
            PROVE  /\ token'[s] \in Issued' \cup {None}
                   /\ pc'[s] \in BeforeHandler =>
                        op'[s] \in {"access", "logout", "change"} /\ token'[s] \in Issued'
                   /\ pc'[s] = "blacklist" => token'[s] \in Issued'
                   /\ pc'[s] \in {"commit", "bump", "write"} => op'[s] = "change"
        BY <4>2, <4>4, <4>5
      <4> QED BY <4>6
    <3> QED BY <3>2, <3>3
  <2> QED BY <2>1, <2>2
<1>3. ASSUME NEW t \in Requests, NEW g \in 1..lastPwd, StartLogin(t, g) PROVE Places'
  BY <1>3 DEF StartLogin, Goto, Shapes, issued, Issued
<1>4. ASSUME NEW t \in Requests, NEW o \in ClientOps, NEW j \in Issued, NEW g \in 1..lastPwd,
             StartRequest(t, o, j, g)
      PROVE  Places'
  BY <1>4, SessionsAssumption DEF StartRequest, Goto, Shapes, issued, Issued
<1>5. ASSUME NEW j \in Tokens, TokenExpires(j) \/ BlacklistEntryExpires(j) PROVE Places'
  BY <1>5 DEF TokenExpires, BlacklistEntryExpires, issued, local, Issued
<1>6. ASSUME WindowEnds PROVE Places'
  BY <1>6 DEF WindowEnds, issued, local, Issued
<1> QED BY <1>2, <1>3, <1>4, <1>5, <1>6 DEF Next

LEMMA NumbersInductive == Shapes /\ Places /\ Numbers /\ Next => Numbers'
<1> SUFFICES ASSUME Shapes, Places, Numbers, Next PROVE Numbers'
  OBVIOUS
<1>1. ASSUME NEW t \in Requests, Finish(t), UNCHANGED <<lastPwd, epoch>> PROVE Numbers'
  BY <1>1, Finishes, NumbersStay
<1>2. ASSUME NEW t \in Requests, Step(t) \/ Crash(t) PROVE Numbers'
  <2>1. CASE CommitPassword(t) /\ guess[t] = found[t]
    <3>1. /\ pc[t] = "commit" /\ op[t] = "change" /\ pc' = [pc EXCEPT ![t] = "bump"]
          /\ lastPwd' = lastPwd + 1 /\ UNCHANGED <<epoch, op, found>>
      BY <2>1 DEF CommitPassword, Goto, Places, redis, local
    <3>2. t \in Ahead /\ Ahead' = Ahead \ {t} /\ Moving' = Moving \cup {t}
      BY <3>1 DEF Ahead, Moving, Shapes
    <3>3. /\ Cardinality(Ahead') = Cardinality(Ahead) - 1
          /\ Cardinality(Moving') \in Nat /\ Cardinality(Moving') <= Cardinality(Moving) + 1
      BY <3>2, Counting, OneMore
    <3>4. Epoch' = Epoch
      BY <3>1 DEF Epoch
    <3>5. \A s \in Requests : pc'[s] = "write" => pc[s] = "write" /\ found[s] \in Nat
      BY <3>1 DEF Shapes
    <3>6. lastPwd' + Cardinality(Ahead') <= MaxPwd
      BY <3>1, <3>3, Counting, BoundsAreNat DEF Numbers, Shapes
    <3>7. Epoch' + Cardinality(Moving') <= lastPwd'
      BY <3>1, <3>3, <3>4, Counting, EpochIsNat DEF Numbers, Shapes
    <3>8. ASSUME NEW s \in Requests, pc'[s] = "write"
          PROVE  found'[s] + Cardinality(Moving') <= lastPwd'
      BY <3>1, <3>3, <3>5, <3>8, Counting DEF Numbers, Shapes
    <3> QED BY <3>6, <3>7, <3>8 DEF Numbers
  <2>2. CASE WriteEpoch(t)
    <3>1. pc[t] = "write" /\ epoch' = found[t] + 1 /\ Finish(t) /\ UNCHANGED lastPwd
      BY <2>2 DEF WriteEpoch, NextVersion, durable
    <3>2. /\ \A s \in Requests \ {t} : pc'[s] = pc[s] /\ op'[s] = op[s] /\ found'[s] = found[s]
          /\ pc'[t] = "idle"
      BY <3>1, Finishes
    <3>3. t \in Moving /\ Moving' = Moving \ {t}
      BY <3>1, <3>2 DEF Moving
    <3>4. Ahead' = Ahead
      <4>1. op'[t] = "none"
        BY <3>1, Finishes
      <4>2. t \notin Ahead /\ t \notin Ahead'
        BY <3>1, <4>1 DEF Ahead
      <4> QED BY <3>2, <4>2 DEF Ahead
    <3>5. Cardinality(Moving') = Cardinality(Moving) - 1 /\ Cardinality(Moving') \in Nat
      BY <3>3, Counting, OneMore
    <3>6. Epoch' = found[t] + 1 /\ found[t] \in Nat
      BY <3>1 DEF Epoch, Shapes
    <3>7. Epoch' + Cardinality(Moving') <= lastPwd'
      BY <3>1, <3>5, <3>6, Counting DEF Numbers, Shapes
    <3>8. ASSUME NEW s \in Requests, pc'[s] = "write"
          PROVE  found'[s] + Cardinality(Moving') <= lastPwd'
      <4>1. pc[s] = "write" /\ found'[s] = found[s] /\ found[s] \in Nat
        BY <3>2, <3>8 DEF Shapes
      <4> QED BY <3>1, <3>5, <4>1, Counting DEF Numbers, Shapes
    <3> QED BY <3>1, <3>4, <3>7, <3>8 DEF Numbers
  <2>3. CASE ~WriteEpoch(t) /\ ~(CommitPassword(t) /\ guess[t] = found[t])
    <3>1. UNCHANGED <<lastPwd, epoch>>
      BY <1>2, <2>3 DEF Step, Incr, SetWindow, Authenticate, Issue, CheckRevoked, CheckVersion,
           LoadUser, Serve, Logout, CommitPassword, ReadEpoch, Crash, durable, redis
    <3>2. CASE Finish(t)
      BY <1>1, <3>1, <3>2
    <3>3. CASE ~Finish(t)
      <4>1. CASE LoadUser(t)
        BY <3>1, <4>1, NumbersStay DEF LoadUser, Goto, PlaceOf, Places, BeforeHandler, Shapes
      <4>2. CASE ReadEpoch(t)
        BY <3>1, <4>2, NumbersStay DEF ReadEpoch, Goto, Shapes
      <4>3. CASE Incr(t) \/ SetWindow(t) \/ Authenticate(t) \/ CheckRevoked(t) \/ CheckVersion(t)
        <5>1. /\ UNCHANGED <<op, found>> /\ pc[t] \notin {"bump", "write"}
              /\ \E place : pc' = [pc EXCEPT ![t] = place] /\ place \notin {"bump", "write"}
          BY <3>3, <4>3 DEF Incr, SetWindow, Authenticate, CheckRevoked, CheckVersion, Goto, local
        <5> QED BY <3>1, <5>1, NumbersStay DEF Shapes
      <4>4. ~Serve(t) /\ ~Logout(t) /\ ~Crash(t) /\ ~Issue(t) /\ ~CommitPassword(t)
        BY <2>3, <3>3 DEF Serve, Logout, Crash, Issue, CommitPassword
      <4> QED BY <1>2, <2>3, <4>1, <4>2, <4>3, <4>4 DEF Step
    <3> QED BY <3>2, <3>3
  <2> QED BY <2>1, <2>2, <2>3
<1>3. ASSUME NEW t \in Requests, NEW g \in 1..lastPwd, StartLogin(t, g) PROVE Numbers'
  BY <1>3, NumbersStay DEF StartLogin, Goto, Shapes, durable, redis
<1>4. ASSUME NEW t \in Requests, NEW o \in ClientOps, NEW j \in Issued, NEW g \in 1..lastPwd,
             StartRequest(t, o, j, g)
      PROVE  Numbers'
  <2>1. /\ pc[t] = "idle" /\ pc' = [pc EXCEPT ![t] = "revoked"] /\ op' = [op EXCEPT ![t] = o]
        /\ UNCHANGED <<lastPwd, epoch, found>>
    BY <1>4 DEF StartRequest, Goto, durable, redis
  <2>2. CASE o # "change"
    BY <2>1, <2>2, NumbersStay DEF Shapes
  <2>3. CASE o = "change"
    <3> DEFINE Changing == {s \in Requests : op[s] = "change"}
    <3>1. lastPwd + Cardinality(Changing) < MaxPwd
      BY <1>4, <2>3 DEF StartRequest
    <3>2. IsFiniteSet(Changing) /\ Ahead \subseteq Changing
      BY FS_Subset, SessionsAssumption DEF Ahead
    <3>3. Cardinality(Ahead) <= Cardinality(Changing) /\ Cardinality(Changing) \in Nat
      BY <3>2, FS_Subset, FS_CardinalityType
    <3>4. Ahead' = Ahead \cup {t} /\ Moving' = Moving
      BY <2>1, <2>3 DEF Ahead, Moving, Shapes
    <3>5. Cardinality(Ahead') \in Nat /\ Cardinality(Ahead') <= Cardinality(Ahead) + 1
      BY <3>4, Counting, OneMore
    <3> HIDE DEF Changing
    <3>6. lastPwd' + Cardinality(Ahead') <= MaxPwd
      BY <2>1, <3>1, <3>3, <3>5, Counting, BoundsAreNat DEF Shapes
    <3>7. Epoch' = Epoch /\ \A s \in Requests : pc'[s] = "write" => pc[s] = "write"
      BY <2>1 DEF Epoch, Shapes
    <3> QED BY <2>1, <3>4, <3>6, <3>7 DEF Numbers
  <2> QED BY <2>2, <2>3
<1>5. ASSUME UNCHANGED <<lastPwd, epoch, pc, op, found>> PROVE Numbers'
  BY <1>5 DEF Numbers, Epoch, Ahead, Moving
<1>6. ASSUME NEW j \in Tokens, TokenExpires(j) \/ BlacklistEntryExpires(j) PROVE Numbers'
  BY <1>5, <1>6 DEF TokenExpires, BlacklistEntryExpires, durable, redis, local
<1>7. ASSUME WindowEnds PROVE Numbers'
  BY <1>5, <1>7 DEF WindowEnds, durable, local
<1> QED BY <1>2, <1>3, <1>4, <1>6, <1>7 DEF Next

LEMMA Ranges ==
    ASSUME Shapes, Numbers
    PROVE  /\ Epoch \in 1..lastPwd /\ lastPwd \in 1..MaxPwd
           /\ \A t \in Requests : pc[t] = "write" => found[t] + 1 \in 1..lastPwd
<1>1. Epoch \in Nat \ {0} /\ Epoch <= lastPwd /\ lastPwd <= MaxPwd
  BY EpochIsNat, Counting, BoundsAreNat DEF Numbers, Shapes, Epoch
<1>2. ASSUME NEW t \in Requests, pc[t] = "write" PROVE found[t] + 1 <= lastPwd
  <2>1. t \in Moving
    BY <1>2 DEF Moving
  <2>2. Cardinality(Moving) = Cardinality(Moving \ {t}) + 1 /\ Cardinality(Moving \ {t}) \in Nat
    BY <2>1, Counting, OneMore
  <2>3. found[t] \in Nat
    BY DEF Shapes
  <2>4. found[t] + Cardinality(Moving) <= lastPwd /\ lastPwd \in Nat
    BY <1>2 DEF Numbers, Shapes
  <2> QED BY <2>2, <2>3, <2>4, Counting
<1> QED BY <1>1, <1>2, BoundsAreNat DEF Shapes

LEMMA TypesInductive == Shapes /\ Places /\ Numbers /\ TypeOK /\ Next => TypeOK'
<1> SUFFICES ASSUME Shapes, Places, Numbers, TypeOK, Next PROVE TypeOK'
  OBVIOUS
<1> DEFINE Secrets == lastPwd \in 1..MaxPwd /\ pwd \in 1..lastPwd /\ epoch \in 0..lastPwd
           Signed == /\ Issued \subseteq Tokens /\ \A j \in Issued : version[j] \in 1..MaxPwd
                     /\ blacklist \subseteq Issued /\ expired \subseteq Issued
           Limiter == count \in 0..Limit + 1 /\ window \in BOOLEAN
           Carried == token \in [Requests -> Tokens \cup {None}]
                      /\ found \in [Requests -> 0..MaxPwd + 1]
<1>1. Epoch \in 1..lastPwd /\ lastPwd \in 1..MaxPwd /\ Epoch \in 1..MaxPwd /\ MaxPwd \in Nat
  BY Ranges, BoundsAreNat
<1>2. Secrets /\ Signed /\ Limiter /\ Carried
  BY DEF TypeOK
<1>3. ASSUME NEW t \in Requests, Finish(t) PROVE Carried'
  BY <1>2, <1>3, <1>1 DEF Finish
<1>4. ASSUME NEW t \in Requests, Step(t) \/ Crash(t)
      PROVE  Secrets' /\ Signed' /\ Limiter' /\ Carried'
  <2>1. Secrets'
    <3>1. CASE CommitPassword(t) /\ guess[t] = found[t]
      <4>2. lastPwd' = lastPwd + 1 /\ pwd' = lastPwd + 1 /\ epoch' = epoch
        BY <3>1 DEF CommitPassword, redis
      <4>3. Numbers' /\ Shapes'
        BY NumbersInductive, ShapesInductive
      <4>4. lastPwd' <= MaxPwd
        <5>1. Cardinality(Ahead') \in Nat
          <6>1. IsFiniteSet(Ahead')
            BY FS_Subset, SessionsAssumption DEF Ahead
          <6> QED BY <6>1, FS_CardinalityType
        <5> QED BY <1>1, <4>2, <4>3, <5>1 DEF Numbers
      <4> QED BY <1>1, <1>2, <4>2, <4>4
    <3>2. CASE WriteEpoch(t)
      <4>1. epoch' = found[t] + 1 /\ found[t] + 1 \in 1..lastPwd /\ UNCHANGED <<pwd, lastPwd>>
        BY <3>2, Ranges DEF WriteEpoch, NextVersion, durable
      <4> QED BY <1>2, <4>1
    <3>3. CASE ~WriteEpoch(t) /\ ~(CommitPassword(t) /\ guess[t] = found[t])
      <4>1. UNCHANGED <<pwd, lastPwd, epoch>>
        BY <1>4, <3>3 DEF Step, Incr, SetWindow, Authenticate, Issue, CheckRevoked, CheckVersion,
             LoadUser, Serve, Logout, CommitPassword, ReadEpoch, Crash, durable, redis
      <4> QED BY <1>2, <4>1
    <3> QED BY <3>1, <3>2, <3>3
  <2>2. Signed'
    <3>1. CASE Issue(t)
      <4>1. PICK j \in Tokens :
              /\ version' = [k \in Issued \cup {j} |-> IF k = j THEN Epoch ELSE version[k]]
              /\ expired' = expired \ {j} /\ UNCHANGED blacklist
        BY <3>1 DEF Issue, redis
      <4>2. Issued' = Issued \cup {j}
        BY <4>1 DEF Issued
      <4> QED BY <1>1, <1>2, <4>1, <4>2
    <3>2. CASE Logout(t)
      <4>1. token[t] \in Issued
        BY <3>2 DEF Logout, Places
      <4>2. blacklist' \subseteq blacklist \cup {token[t]} /\ UNCHANGED <<version, expired>>
        BY <3>2 DEF Logout, issued
      <4> QED BY <1>2, <4>1, <4>2 DEF Issued
    <3>3. CASE ~Issue(t) /\ ~Logout(t)
      <4>1. UNCHANGED <<version, expired, blacklist>>
        BY <1>4, <3>3 DEF Step, Incr, SetWindow, Authenticate, CheckRevoked, CheckVersion, LoadUser,
             Serve, CommitPassword, ReadEpoch, WriteEpoch, Crash, issued, redis
      <4> QED BY <1>2, <4>1 DEF Issued
    <3> QED BY <3>1, <3>2, <3>3
  <2>3. Limiter'
    <3>1. CASE Incr(t)
      <4>1. count' = IF count > Limit THEN count ELSE count + 1
        BY <3>1 DEF Incr
      <4>2. UNCHANGED window
        BY <3>1 DEF Incr
      <4> QED BY <1>2, <4>1, <4>2, BoundsAreNat
    <3>2. CASE SetWindow(t)
      BY <1>2, <3>2 DEF SetWindow
    <3>3. CASE ~Incr(t) /\ ~SetWindow(t)
      <4>1. UNCHANGED <<count, window>>
        BY <1>4, <3>3 DEF Step, Authenticate, Issue, CheckRevoked, CheckVersion, LoadUser, Serve,
             Logout, CommitPassword, ReadEpoch, WriteEpoch, Crash, redis
      <4> QED BY <1>2, <4>1
    <3> QED BY <3>1, <3>2, <3>3
  <2>4. Carried'
    <3>1. CASE Finish(t)
      BY <1>3, <3>1
    <3>2. CASE LoadUser(t) \/ ReadEpoch(t)
      <4>1. pwd \in 0..MaxPwd + 1 /\ Epoch \in 0..MaxPwd + 1
        BY <1>1, <1>2
      <4> QED BY <1>2, <3>2, <4>1 DEF LoadUser, ReadEpoch
    <3>3. CASE ~Finish(t) /\ ~LoadUser(t) /\ ~ReadEpoch(t)
      <4>1. UNCHANGED <<token, found>>
        BY <1>4, <3>3 DEF Step, Incr, SetWindow, Authenticate, Issue, CheckRevoked, CheckVersion,
             Serve, Logout, CommitPassword, WriteEpoch, Crash, local
      <4> QED BY <1>2, <4>1
    <3> QED BY <3>1, <3>2, <3>3
  <2> QED BY <2>1, <2>2, <2>3, <2>4
<1>5. ASSUME NEW t \in Requests, NEW g \in 1..lastPwd, StartLogin(t, g) PROVE TypeOK'
  BY <1>5 DEF StartLogin, TypeOK, durable, redis, issued, Issued
<1>6. ASSUME NEW t \in Requests, NEW o \in ClientOps, NEW j \in Issued, NEW g \in 1..lastPwd,
             StartRequest(t, o, j, g)
      PROVE  TypeOK'
  BY <1>6 DEF StartRequest, TypeOK, durable, redis, issued, Issued
<1>7. ASSUME NEW j \in Tokens, TokenExpires(j) \/ BlacklistEntryExpires(j) PROVE TypeOK'
  BY <1>7 DEF TokenExpires, BlacklistEntryExpires, TypeOK, durable, redis, issued, local, Issued
<1>8. ASSUME WindowEnds PROVE TypeOK'
  <2>1. count' = 0 /\ window' = FALSE
    BY <1>8 DEF WindowEnds
  <2>2. UNCHANGED <<lastPwd, pwd, epoch, version, blacklist, expired, token, found>>
    BY <1>8 DEF WindowEnds, durable, issued, local
  <2>3. 0 \in 0..Limit + 1
    BY BoundsAreNat
  <2> QED BY <2>1, <2>2, <2>3 DEF TypeOK, Issued
<1>9. ASSUME NEW t \in Requests, Step(t) \/ Crash(t) PROVE TypeOK'
  BY <1>4, <1>9 DEF TypeOK
<1> QED BY <1>5, <1>6, <1>7, <1>8, <1>9 DEF Next

(* The types, and with them the distance the version keeps: no overlap of   *)
(* changes, and no crash in one, takes auth:user:{id}:ver past the number   *)
(* of passwords (update_password).                                          *)
THEOREM SessionTypes == Spec => []TypeOK
<1> DEFINE YInv == Shapes /\ Places /\ Numbers /\ TypeOK
<1>1. Init => YInv
  <2> SUFFICES ASSUME Init PROVE YInv
    OBVIOUS
  <2>1. Shapes
    BY InitHolds DEF SInv
  <2>2. Places /\ TypeOK
    <3>1. Issued = {} /\ blacklist = {} /\ expired = {}
      BY DEF Init, Issued
    <3>2. Places
      BY <3>1 DEF Init, Places, BeforeHandler
    <3>3. lastPwd = 1 /\ pwd = 1 /\ epoch = 0 /\ count = 0 /\ window = FALSE
      BY DEF Init
    <3>4. /\ token \in [Requests -> Tokens \cup {None}]
          /\ found \in [Requests -> 0..MaxPwd + 1]
      BY BoundsAreNat DEF Init
    <3>5. 1 \in 1..MaxPwd /\ 0 \in 0..Limit + 1
      BY SessionsAssumption
    <3>6. TypeOK
      <4>1. lastPwd \in 1..MaxPwd /\ pwd \in 1..lastPwd /\ epoch \in 0..lastPwd
        BY <3>3, <3>5
      <4>2. count \in 0..Limit + 1 /\ window \in BOOLEAN
        BY <3>3, <3>5
      <4>3. /\ Issued \subseteq Tokens /\ \A j \in Issued : version[j] \in 1..MaxPwd
            /\ blacklist \subseteq Issued /\ expired \subseteq Issued
        BY <3>1
      <4> QED BY <3>4, <4>1, <4>2, <4>3 DEF TypeOK
    <3> QED BY <3>2, <3>6
  <2>3. Ahead = {} /\ Moving = {}
    BY DEF Init, Ahead, Moving
  <2>4. Numbers
    BY <2>3, FS_EmptySet, SessionsAssumption DEF Init, Numbers, Epoch
  <2> QED BY <2>1, <2>2, <2>4
<1>2. YInv /\ [Next]_vars => YInv'
  <2>1. ASSUME YInv, UNCHANGED vars PROVE YInv'
    BY <2>1 DEF vars, durable, redis, issued, local, history, Shapes, Places, Numbers, TypeOK,
           Issued,
                Epoch, Ahead, Moving
  <2> QED BY <2>1, ShapesInductive, PlacesInductive, NumbersInductive, TypesInductive
<1> QED BY <1>1, <1>2, PTL DEF Spec

-----------------------------------------------------------------------------
(* The register that blacklist and version implement together *)

(* Where requests carry a token, and how the two histories of revocations   *)
(* agree with the keys: an answered logout is a blacklist entry as long as  *)
(* the token lives, an answered change is a version that is not current.    *)
Carrying == {"revoked"} \cup PastBlacklist

GateHolds ==
    /\ \A t \in Requests : late[t] \subseteq {"loggedOut", "outdated"}
    /\ \A t \in Requests : IF pc[t] \in Carrying THEN token[t] \in Issued ELSE token[t] = None
    /\ \A j \in Issued \ expired : j \in blacklist <=> j \in loggedOut
    /\ SerialChanges => \A j \in Issued \ outdated : version[j] = Epoch

LEMMA GateInductive == SInv /\ Places /\ GateHolds /\ Next => GateHolds'
<1> SUFFICES ASSUME SInv, Places, GateHolds, Next PROVE GateHolds'
  OBVIOUS
<1> DEFINE Late == \A t \in Requests : late[t] \subseteq {"loggedOut", "outdated"}
           Carried == \A t \in Requests :
                        IF pc[t] \in Carrying THEN token[t] \in Issued ELSE token[t] = None
           Listed == \A j \in Issued \ expired : j \in blacklist <=> j \in loggedOut
           Versions == SerialChanges => \A j \in Issued \ outdated : version[j] = Epoch
<1>1. Shapes /\ Late /\ Carried /\ Listed /\ Versions
  BY DEF SInv, GateHolds
<1>2. ASSUME NEW t \in Requests, Finish(t), Issued \subseteq Issued' PROVE Late' /\ Carried'
  BY <1>1, <1>2 DEF Finish, Goto, Shapes, Carrying, PastBlacklist
<1>3. ASSUME UNCHANGED <<blacklist, loggedOut, version, expired>> PROVE Listed'
  BY <1>1, <1>3 DEF Issued
<1>4. ASSUME UNCHANGED <<epoch, version, outdated>> PROVE Versions'
  BY <1>1, <1>4 DEF Issued, Epoch
<1>5. ASSUME NEW t \in Requests, UNCHANGED <<token, late, version>>,
             NEW place, pc' = [pc EXCEPT ![t] = place],
             pc[t] \in Carrying <=> place \in Carrying
      PROVE  Late' /\ Carried'
  BY <1>1, <1>5 DEF Shapes, Issued
<1>6. ASSUME NEW t \in Requests, Step(t) \/ Crash(t) PROVE GateHolds'
  <2>1. CASE Issue(t)
    <3>1. PICK j \in Tokens :
            /\ j \notin blacklist
            /\ version' = [k \in Issued \cup {j} |-> IF k = j THEN Epoch ELSE version[k]]
            /\ expired' = expired \ {j} /\ loggedOut' = loggedOut \ {j}
            /\ outdated' = outdated \ {j}
      BY <2>1 DEF Issue, Fresh
    <3>2. Finish(t) /\ UNCHANGED <<epoch, blacklist>>
      BY <2>1 DEF Issue, redis
    <3>3. Issued' = Issued \cup {j} /\ Epoch' = Epoch
      BY <3>1, <3>2 DEF Issued, Epoch
    <3>4. Late' /\ Carried'
      BY <1>2, <3>2, <3>3
    <3>5. Listed'
      BY <1>1, <3>1, <3>2, <3>3
    <3>6. Versions'
      BY <1>1, <3>1, <3>3
    <3> QED BY <3>4, <3>5, <3>6 DEF GateHolds
  <2>2. CASE Logout(t)
    <3>1. Finish(t) /\ UNCHANGED <<version, expired, epoch, outdated>>
      BY <2>2 DEF Logout, issued
    <3>2. Listed'
      BY <1>1, <2>2 DEF Logout, issued, Issued
    <3> QED BY <1>2, <1>4, <3>1, <3>2 DEF GateHolds, Issued
  <2>3. CASE WriteEpoch(t)
    <3>1. Finish(t) /\ UNCHANGED <<version, expired, blacklist, loggedOut>>
      BY <2>3 DEF WriteEpoch, issued
    <3>2. Versions'
      BY <2>3 DEF WriteEpoch, issued, Issued
    <3> QED BY <1>2, <1>3, <3>1, <3>2 DEF GateHolds, Issued
  <2>4. CASE ~Issue(t) /\ ~Logout(t) /\ ~WriteEpoch(t)
    <3>1. UNCHANGED <<version, expired, epoch, blacklist, loggedOut, outdated>>
      BY <1>6, <2>4 DEF Step, Crash, Incr, SetWindow, Authenticate, CheckRevoked, CheckVersion,
           LoadUser, Serve, CommitPassword, ReadEpoch, redis, issued, history
    <3>2. Late' /\ Carried'
      <4>1. CASE Finish(t)
        BY <1>2, <3>1, <4>1 DEF Issued
      <4>2. ASSUME ~Finish(t)
            PROVE  /\ UNCHANGED <<token, late>>
                   /\ \E place : /\ pc' = [pc EXCEPT ![t] = place]
                                 /\ pc[t] \in Carrying <=> place \in Carrying
        <5> USE DEF Goto, Carrying, PastBlacklist
        <5>1. CASE Incr(t)
          BY <4>2, <5>1 DEF Incr, local
        <5>2. CASE SetWindow(t) \/ Authenticate(t)
          BY <4>2, <5>2 DEF SetWindow, Authenticate, local
        <5>3. CASE CheckRevoked(t) \/ CheckVersion(t)
          BY <4>2, <5>3 DEF CheckRevoked, CheckVersion, local
        <5>4. CASE LoadUser(t)
          <6>1. PlaceOf(op[t]) \in {"serve", "blacklist", "commit"}
            BY <5>4 DEF LoadUser, PlaceOf, Places, BeforeHandler
          <6> QED BY <5>4, <6>1 DEF LoadUser
        <5>5. CASE CommitPassword(t)
          BY <4>2, <5>5 DEF CommitPassword, local
        <5>6. CASE ReadEpoch(t)
          BY <5>6 DEF ReadEpoch
        <5> QED BY <1>6, <2>4, <4>2, <5>1, <5>2, <5>3, <5>4, <5>5, <5>6 DEF Step, Crash, Serve
      <4>3. CASE ~Finish(t)
        <5>1. PICK place : /\ pc' = [pc EXCEPT ![t] = place]
                           /\ pc[t] \in Carrying <=> place \in Carrying
          BY <4>2, <4>3
        <5> QED BY <1>5, <3>1, <4>2, <4>3, <5>1
      <4> QED BY <4>1, <4>3
    <3> QED BY <1>3, <1>4, <3>1, <3>2 DEF GateHolds
  <2> QED BY <2>1, <2>2, <2>3, <2>4
<1>7. ASSUME NEW t \in Requests, NEW g \in 1..lastPwd, StartLogin(t, g) PROVE GateHolds'
  <2>1. pc[t] = "idle" /\ pc' = [pc EXCEPT ![t] = "incr"] /\ UNCHANGED <<token, late>>
    BY <1>7 DEF StartLogin, Goto
  <2>2. UNCHANGED <<version, expired, epoch, blacklist, loggedOut, outdated>>
    BY <1>7 DEF StartLogin, redis, issued, history
  <2> QED BY <1>3, <1>4, <1>5, <2>1, <2>2 DEF GateHolds, Carrying, PastBlacklist
<1>8. ASSUME NEW t \in Requests, NEW o \in ClientOps, NEW j \in Issued, NEW g \in 1..lastPwd,
             StartRequest(t, o, j, g)
      PROVE  GateHolds'
  <2>1. /\ pc' = [pc EXCEPT ![t] = "revoked"] /\ token' = [token EXCEPT ![t] = j]
        /\ late' = [late EXCEPT ![t] = {h \in {"loggedOut", "outdated"} :
                       j \in IF h = "loggedOut" THEN loggedOut ELSE outdated}]
    BY <1>8 DEF StartRequest, Goto
  <2>2. UNCHANGED <<version, expired, epoch, blacklist, loggedOut, outdated>>
    BY <1>8 DEF StartRequest, redis, issued, history
  <2>3. Late'
    BY <1>1, <2>1 DEF Shapes
  <2>4. Carried'
    BY <1>1, <2>1, <2>2 DEF Shapes, Issued, Carrying
  <2> QED BY <1>3, <1>4, <2>2, <2>3, <2>4 DEF GateHolds
<1>9. ASSUME UNCHANGED <<pc, token, late, version>> PROVE Late' /\ Carried'
  BY <1>1, <1>9 DEF Issued
<1>10. ASSUME NEW j \in Tokens, TokenExpires(j) PROVE GateHolds'
  <2>1. Listed'
    BY <1>1, <1>10 DEF TokenExpires, redis, history, Issued
  <2>2. UNCHANGED <<pc, token, late, version, epoch, outdated>>
    BY <1>10 DEF TokenExpires, redis, local, history
  <2> QED BY <1>4, <1>9, <2>1, <2>2 DEF GateHolds
<1>11. ASSUME NEW j \in Tokens, BlacklistEntryExpires(j) PROVE GateHolds'
  <2>1. Listed'
    BY <1>1, <1>11 DEF BlacklistEntryExpires, TokenIsOver, issued, history, Issued
  <2>2. UNCHANGED <<pc, token, late, version, epoch, outdated>>
    BY <1>11 DEF BlacklistEntryExpires, issued, local, history
  <2> QED BY <1>4, <1>9, <2>1, <2>2 DEF GateHolds
<1>12. ASSUME WindowEnds PROVE GateHolds'
  <2>1. UNCHANGED <<pc, token, late, version, expired, epoch, blacklist, loggedOut, outdated>>
    BY <1>12 DEF WindowEnds, issued, local
  <2> QED BY <1>3, <1>4, <1>9, <2>1 DEF GateHolds
<1> QED BY <1>6, <1>7, <1>8, <1>10, <1>11, <1>12 DEF Next
-----------------------------------------------------------------------------
(* The steps of Sessions are steps of Admission *)

(* Everything the register depends on. *)
keys == <<epoch, version, expired, blacklist>>

LEMMA LifeStays == keys' = keys => \A j \in Tokens : Life(j)' = Life(j)
  BY DEF keys, Life, Issued, Current, Epoch

(* A step that touches neither the keys nor a place the door distinguishes. *)
LEMMA Unnoticed ==
    ASSUME \A j \in Tokens : Life(j)' = Life(j),
           \A t \in Requests : Gate(t)' = Gate(t),
           token' = token
    PROVE  UNCHANGED Door!vars
  BY DEF Door!vars

LEMMA GateOf ==
    ASSUME GateHolds, NEW t \in Requests
    PROVE  /\ Gate(t) = "in" <=> Admitted(t)
           /\ Gate(t) = "out" <=> pc[t] \notin Carrying
           /\ pc[t] \in {"revoked", "version"} =>
                Gate(t) = IF late[t] = {} THEN "welcome" ELSE "barred"
           /\ Gate(t) = "out" => token[t] = None
           /\ Gate(t) # "out" => token[t] \in Issued
  BY DEF Gate, Admitted, Carrying, PastBlacklist, GateHolds

(* The end of request t, seen from the door. *)
LEMMA Leaving ==
    ASSUME Shapes, TypeOK, NEW t \in Requests, Finish(t)
    PROVE  /\ Door!Leave(t)
           /\ \A s \in Requests \ {t} : Gate(s)' = Gate(s)
           /\ Gate(t)' = "out"
<1>1. \A s \in Requests \ {t} : Gate(s)' = Gate(s)
  BY Finishes DEF Gate, Admitted
<1>2. Gate(t)' = "out"
  BY Finishes DEF Gate, Admitted
<1>3. token' = [token EXCEPT ![t] = None]
  BY DEF Finish
<1> QED BY <1>1, <1>2, <1>3 DEF Door!Leave

(* A request that ends without touching the keys is dismissed. *)
LEMMA Dismissal ==
    ASSUME Shapes, TypeOK, GateHolds, NEW t \in Requests, Finish(t), keys' = keys
    PROVE  [Door!Next]_(Door!vars)
<1>1. \A j \in Tokens : Life(j)' = Life(j)
  BY LifeStays
<1>2. CASE Gate(t) = "out"
  <2>1. token' = token
    BY <1>2, GateOf DEF Finish, TypeOK
  <2>2. \A s \in Requests : Gate(s)' = Gate(s)
    BY <1>2, Leaving
  <2> QED BY <1>1, <2>1, <2>2, Unnoticed
<1>3. CASE Gate(t) # "out"
  <2>1. Door!Dismiss(t)
    BY <1>1, <1>3, Leaving DEF Door!Dismiss
  <2> QED BY <2>1 DEF Door!Next
<1> QED BY <1>2, <1>3

(* A request that moves within its part of the door, the keys untouched. *)
LEMMA Inside ==
    ASSUME Shapes, NEW t \in Requests, keys' = keys, UNCHANGED <<token, late>>,
           NEW place, pc' = [pc EXCEPT ![t] = place], Gate(t)' = Gate(t)
    PROVE  UNCHANGED Door!vars
<1>1. \A s \in Requests : Gate(s)' = Gate(s)
  BY DEF Gate, Admitted, Shapes
<1> QED BY <1>1, LifeStays, Unnoticed

LEMMA StepRefines ==
    ASSUME SerialChanges, SInv, TypeOK, Places, GateHolds,
           NEW t \in Requests, Step(t) \/ Crash(t)
    PROVE  [Door!Next]_(Door!vars)
<1>1. Shapes /\ LogoutHolds /\ ChangeHolds
  BY DEF SInv
<1>2. ASSUME Finish(t), UNCHANGED <<epoch, version, expired, blacklist>>
      PROVE  [Door!Next]_(Door!vars)
  BY <1>1, <1>2, Dismissal DEF keys
<1>3. ASSUME UNCHANGED <<epoch, version, expired, blacklist, token, late>>, NEW place,
             pc' = [pc EXCEPT ![t] = place], Gate(t)' = Gate(t)
      PROVE  [Door!Next]_(Door!vars)
  BY <1>1, <1>3, Inside DEF keys
<1>4. CASE Incr(t)
  <2>1. UNCHANGED <<epoch, version, expired, blacklist>>
    BY <1>4 DEF Incr, issued
  <2>2. ASSUME ~Finish(t) PROVE [Door!Next]_(Door!vars)
    <3> DEFINE place == IF FirstInWindow THEN "expire" ELSE "authenticate"
    <3>1. pc[t] = "incr" /\ pc' = [pc EXCEPT ![t] = place] /\ UNCHANGED <<token, late>>
      BY <1>4, <2>2 DEF Incr, Goto, local
    <3>2. Gate(t)' = Gate(t)
      BY <1>1, <3>1 DEF Gate, Admitted, Shapes
    <3> QED BY <1>3, <2>1, <3>1, <3>2
  <2> QED BY <1>2, <2>1, <2>2
<1>5. CASE SetWindow(t)
  <2>1. /\ pc[t] = "expire" /\ pc' = [pc EXCEPT ![t] = "authenticate"]
        /\ UNCHANGED <<epoch, version, expired, blacklist, token, late>>
    BY <1>5 DEF SetWindow, Goto, issued, local
  <2>2. Gate(t)' = Gate(t)
    BY <1>1, <2>1 DEF Gate, Admitted, Shapes
  <2> QED BY <1>3, <2>1, <2>2
<1>6. CASE Authenticate(t)
  <2>1. UNCHANGED <<epoch, version, expired, blacklist>>
    BY <1>6 DEF Authenticate, redis, issued
  <2>2. ASSUME ~Finish(t) PROVE [Door!Next]_(Door!vars)
    <3>1. pc[t] = "authenticate" /\ pc' = [pc EXCEPT ![t] = "issue"] /\ UNCHANGED <<token, late>>
      BY <1>6, <2>2 DEF Authenticate, Goto, local
    <3>2. Gate(t)' = Gate(t)
      BY <1>1, <3>1 DEF Gate, Admitted, Shapes
    <3> QED BY <1>3, <2>1, <3>1, <3>2
  <2> QED BY <1>2, <2>1, <2>2
<1>7. CASE Issue(t)
  <2>1. PICK j \in Tokens :
          /\ Fresh(j)
          /\ version' = [k \in Issued \cup {j} |-> IF k = j THEN Epoch ELSE version[k]]
          /\ expired' = expired \ {j}
    BY <1>7 DEF Issue
  <2>2. pc[t] = "issue" /\ Finish(t) /\ UNCHANGED <<epoch, blacklist>>
    BY <1>7 DEF Issue, redis
  <2>3. token' = token /\ \A s \in Requests : Gate(s)' = Gate(s)
    <3>1. Gate(t) = "out"
      BY <2>2, GateOf DEF Carrying, PastBlacklist
    <3> QED BY <1>1, <2>2, <3>1, Leaving, GateOf DEF Finish, TypeOK
  <2>4. Issued' = Issued \cup {j} /\ Epoch' = Epoch
    BY <2>1, <2>2 DEF Issued, Epoch
  <2>5. Life(j) \in {"unused", "lapsed"}
    BY <2>1 DEF Fresh, Life
  <2>6. Life(j)' = "good"
    BY <2>1, <2>2, <2>4 DEF Life, Fresh, Current
  <2>7. \A k \in Tokens \ {j} : Life(k)' = Life(k)
    BY <2>1, <2>2, <2>4 DEF Life, Current
  <2>8. Door!Issue(j)
    BY <2>1, <2>3, <2>5, <2>6, <2>7 DEF Door!Issue, Fresh
  <2> QED BY <2>8 DEF Door!Next
<1>8. CASE CheckRevoked(t)
  <2>1. UNCHANGED <<epoch, version, expired, blacklist>>
    BY <1>8 DEF CheckRevoked, redis, issued
  <2>2. ASSUME ~Finish(t) PROVE [Door!Next]_(Door!vars)
    <3>1. pc[t] = "revoked" /\ pc' = [pc EXCEPT ![t] = "version"] /\ UNCHANGED <<token, late>>
      BY <1>8, <2>2 DEF CheckRevoked, Goto, local
    <3>2. Gate(t)' = Gate(t)
      BY <1>1, <3>1 DEF Gate, Admitted, Shapes
    <3> QED BY <1>3, <2>1, <3>1, <3>2
  <2> QED BY <1>2, <2>1, <2>2
<1>9. CASE CheckVersion(t)
  <2>1. UNCHANGED <<epoch, version, expired, blacklist>>
    BY <1>9 DEF CheckVersion, redis, issued
  <2>2. ASSUME ~Finish(t) PROVE Door!Enter(t)
    <3>1. /\ pc[t] = "version" /\ pc' = [pc EXCEPT ![t] = "load"]
          /\ UNCHANGED <<token, late>> /\ Current(token[t])
      BY <1>9, <2>2 DEF CheckVersion, Goto, local
    <3>2. token[t] \in Issued /\ token[t] \in Tokens
      BY <3>1 DEF GateHolds, Carrying, PastBlacklist, TypeOK
    <3>3. "outdated" \notin late[t]
      BY <1>1, <3>1, SerialChanges, EpochIsNat DEF ChangeHolds, Current, Shapes
    <3>4. \/ Gate(t) = "welcome"
          \/ Gate(t) = "barred" /\ Life(token[t]) = "lapsed"
      <4>1. CASE late[t] = {}
        BY <3>1, <4>1 DEF Gate, Admitted
      <4>2. CASE late[t] # {}
        <5>1. "loggedOut" \in late[t]
          BY <3>3, <4>2 DEF GateHolds
        <5>2. token[t] \in expired
          BY <1>1, <3>1, <5>1 DEF LogoutHolds, PastBlacklist
        <5> QED BY <3>1, <3>2, <4>2, <5>2, GateOf DEF Life
      <4> QED BY <4>1, <4>2
    <3>5. /\ Gate(t)' = "in"
          /\ \A s \in Requests \ {t} : Gate(s)' = Gate(s)
      BY <1>1, <3>1 DEF Gate, Admitted, Shapes
    <3>6. \A j \in Tokens : Life(j)' = Life(j)
      BY <2>1, LifeStays DEF keys
    <3> QED BY <3>1, <3>2, <3>4, <3>5, <3>6 DEF Door!Enter
  <2> QED BY <1>2, <2>1, <2>2 DEF Door!Next
<1>10. CASE LoadUser(t)
  <2>1. /\ pc[t] = "load" /\ pc' = [pc EXCEPT ![t] = PlaceOf(op[t])]
        /\ UNCHANGED <<epoch, version, expired, blacklist, token, late>>
    BY <1>10 DEF LoadUser, Goto, redis, issued
  <2>2. PlaceOf(op[t]) \in {"serve", "blacklist", "commit"}
    BY <2>1 DEF PlaceOf, Places, BeforeHandler
  <2>3. Gate(t)' = Gate(t)
    BY <1>1, <2>1, <2>2 DEF Gate, Admitted, Shapes
  <2> QED BY <1>3, <2>1, <2>3
<1>11. CASE Serve(t)
  BY <1>2, <1>11 DEF Serve, redis, issued
<1>12. CASE Logout(t)
  <2>1. pc[t] = "blacklist" /\ Finish(t) /\ UNCHANGED <<epoch, version, expired>>
    BY <1>12 DEF Logout, issued
  <2>2. CASE token[t] \in expired
    BY <1>2, <1>12, <2>1, <2>2 DEF Logout
  <2>3. CASE token[t] \notin expired
    <3>1. Gate(t) = "in" /\ token[t] \in Issued /\ token[t] \in Tokens
      BY <2>1, GateOf DEF Admitted, TypeOK
    <3>2. blacklist' = blacklist \cup {token[t]}
      BY <1>12, <2>3 DEF Logout
    <3>3. Issued' = Issued /\ Epoch' = Epoch
      BY <2>1 DEF Issued, Epoch
    <3>4. \A j \in Tokens \ {token[t]} : Life(j)' = Life(j)
      BY <2>1, <3>2, <3>3 DEF Life, Current
    <3>5. ASSUME NEW j \in Tokens, j = token[t]
          PROVE  Life(j) \in {"good", "revoked"} /\ Life(j)' = "revoked"
      BY <2>1, <2>3, <3>1, <3>2, <3>3, <3>5 DEF Life, Current
    <3>6. Door!Logout(t)
      BY <1>1, <2>1, <3>1, <3>4, <3>5, Leaving DEF Door!Logout
    <3> QED BY <3>6 DEF Door!Next
  <2> QED BY <2>2, <2>3
<1>13. CASE CommitPassword(t)
  <2>1. UNCHANGED <<epoch, version, expired, blacklist>>
    BY <1>13 DEF CommitPassword, redis, issued
  <2>2. ASSUME ~Finish(t) PROVE [Door!Next]_(Door!vars)
    <3>1. pc[t] = "commit" /\ pc' = [pc EXCEPT ![t] = "bump"] /\ UNCHANGED <<token, late>>
      BY <1>13, <2>2 DEF CommitPassword, Goto, local
    <3>2. Gate(t)' = Gate(t)
      BY <1>1, <3>1 DEF Gate, Admitted, Shapes
    <3> QED BY <1>3, <2>1, <3>1, <3>2
  <2> QED BY <1>2, <2>1, <2>2
<1>14. CASE ReadEpoch(t)
  <2>1. /\ pc[t] = "bump" /\ pc' = [pc EXCEPT ![t] = "write"]
        /\ UNCHANGED <<epoch, version, expired, blacklist, token, late>>
    BY <1>14 DEF ReadEpoch, Goto, redis, issued
  <2>2. Gate(t)' = Gate(t)
    BY <1>1, <2>1 DEF Gate, Admitted, Shapes
  <2> QED BY <1>3, <2>1, <2>2
<1>15. CASE WriteEpoch(t)
  <2>1. pc[t] = "write" /\ Finish(t) /\ UNCHANGED <<version, expired, blacklist>>
    BY <1>15 DEF WriteEpoch, issued
  <2>2. Epoch \in Nat /\ Epoch' = Epoch + 1
    BY <1>1, <1>15, SerialChanges, EpochIsNat DEF WriteEpoch, NextVersion, ChangeHolds, Epoch
  <2>3. Issued' = Issued /\ \A j \in Issued : version[j] \in Nat /\ version[j] <= Epoch
    BY <1>1, <2>1, SerialChanges DEF Issued, ChangeHolds, Shapes
  <2>4. \A j \in Issued : ~Current(j)'
    BY <2>1, <2>2, <2>3 DEF Current
  <2>5. \A j \in Tokens : Life(j)' = IF Life(j) = "good" THEN "revoked" ELSE Life(j)
    BY <2>1, <2>3, <2>4 DEF Life
  <2>6. Gate(t) = "in"
    BY <2>1, GateOf DEF Admitted
  <2>7. Door!ChangePassword(t)
    BY <1>1, <2>1, <2>5, <2>6, Leaving DEF Door!ChangePassword
  <2> QED BY <2>7 DEF Door!Next
<1>16. CASE Crash(t)
  BY <1>2, <1>16 DEF Crash, redis, issued
<1> QED BY <1>4, <1>5, <1>6, <1>7, <1>8, <1>9, <1>10, <1>11, <1>12, <1>13, <1>14, <1>15,
           <1>16 DEF Step

LEMMA ArrivalRefines ==
    ASSUME SerialChanges, SInv, TypeOK, GateHolds, NEW t \in Requests,
           NEW o \in ClientOps, NEW j \in Issued, NEW g \in 1..lastPwd, StartRequest(t, o, j, g)
    PROVE  Door!Ask(t, j)
<1>1. Shapes /\ ChangeHolds
  BY DEF SInv
<1>2. /\ pc[t] = "idle" /\ j \notin expired
      /\ pc' = [pc EXCEPT ![t] = "revoked"] /\ token' = [token EXCEPT ![t] = j]
      /\ late' = [late EXCEPT ![t] = {h \in {"loggedOut", "outdated"} :
                     j \in IF h = "loggedOut" THEN loggedOut ELSE outdated}]
      /\ UNCHANGED <<epoch, version, expired, blacklist>>
  BY DEF StartRequest, Goto, redis, issued
<1>3. late'[t] = {} <=> j \notin loggedOut /\ j \notin outdated
  BY <1>1, <1>2 DEF Shapes
<1>4. j \in outdated <=> ~Current(j)
  BY <1>1, SerialChanges, EpochIsNat DEF ChangeHolds, GateHolds, Current, Shapes
<1>5. j \in loggedOut <=> j \in blacklist
  BY <1>2 DEF GateHolds
<1>6. Life(j) = IF late'[t] = {} THEN "good" ELSE "revoked"
  BY <1>2, <1>3, <1>4, <1>5 DEF Life
<1>7. Gate(t) = "out"
  BY <1>2, GateOf DEF Carrying, PastBlacklist
<1>8. Gate(t)' = IF late'[t] = {} THEN "welcome" ELSE "barred"
  BY <1>1, <1>2 DEF Gate, Admitted, Shapes
<1>9. \A s \in Requests \ {t} : Gate(s)' = Gate(s)
  BY <1>1, <1>2 DEF Gate, Admitted, Shapes
<1>10. \A k \in Tokens : Life(k)' = Life(k)
  BY <1>2, LifeStays DEF keys
<1>11. j \in Tokens
  BY DEF TypeOK
<1> QED BY <1>2, <1>6, <1>7, <1>8, <1>9, <1>10, <1>11 DEF Door!Ask

LEMMA TimeRefines ==
    ASSUME TypeOK, NEW j \in Tokens, TokenExpires(j) \/ BlacklistEntryExpires(j)
    PROVE  [Door!Next]_(Door!vars)
<1>1. \A s \in Requests : Gate(s)' = Gate(s)
  BY DEF TokenExpires, BlacklistEntryExpires, local, Gate, Admitted
<1>2. token' = token
  BY DEF TokenExpires, BlacklistEntryExpires, local
<1>3. CASE TokenExpires(j)
  <2>1. j \in Issued \ expired /\ expired' = expired \cup {j}
        /\ UNCHANGED <<epoch, version, blacklist>>
    BY <1>3 DEF TokenExpires, redis
  <2>2. Issued' = Issued /\ Epoch' = Epoch
    BY <2>1 DEF Issued, Epoch
  <2>3. Life(j) \in {"good", "revoked"} /\ Life(j)' = "lapsed"
    BY <2>1, <2>2 DEF Life
  <2>4. \A k \in Tokens \ {j} : Life(k)' = Life(k)
    BY <2>1, <2>2 DEF Life, Current
  <2>5. Door!Lapse(j)
    BY <1>1, <1>2, <2>3, <2>4 DEF Door!Lapse
  <2> QED BY <2>5 DEF Door!Next
<1>4. CASE BlacklistEntryExpires(j)
  <2>1. j \in expired /\ blacklist' = blacklist \ {j}
        /\ UNCHANGED <<epoch, version, expired>>
    BY <1>4 DEF BlacklistEntryExpires, TokenIsOver, issued
  <2>2. Issued' = Issued /\ Epoch' = Epoch
    BY <2>1 DEF Issued, Epoch
  <2>3. \A k \in Tokens : Life(k)' = Life(k)
    BY <2>1, <2>2 DEF Life, Current
  <2> QED BY <1>1, <1>2, <2>3, Unnoticed
<1> QED BY <1>3, <1>4

(* Two keys that are read one after the other, and written without a lock,  *)
(* behave like one register (verify_token_valid, logout, update_password).  *)
THEOREM SessionsImplementAdmission ==
    ASSUME SerialChanges
    PROVE  Spec => RefinesAdmission
<1> DEFINE AInv == SInv /\ TypeOK /\ Places /\ GateHolds
<1>1. Init => Places /\ GateHolds
  <2> SUFFICES ASSUME Init PROVE Places /\ GateHolds
    OBVIOUS
  <2>1. Issued = {}
    BY DEF Init, Issued
  <2> QED BY <2>1 DEF Init, Places, BeforeHandler, GateHolds, Carrying, PastBlacklist
<1>2. SInv /\ Places /\ GateHolds /\ [Next]_vars => (Places /\ GateHolds)'
  <2>1. ASSUME Places, GateHolds, UNCHANGED vars PROVE (Places /\ GateHolds)'
    BY <2>1 DEF vars, durable, redis, issued, local, history, Places, GateHolds, Issued, Epoch
  <2> QED BY <2>1, PlacesInductive, GateInductive DEF SInv
<1>3. Init => Door!Init
  <2> SUFFICES ASSUME Init PROVE Door!Init
    OBVIOUS
  <2>1. Issued = {}
    BY DEF Init, Issued
  <2>2. \A j \in Tokens : Life(j) = "unused"
    BY <2>1 DEF Life, Init
  <2>3. \A t \in Requests : Gate(t) = "out"
    BY DEF Init, Gate, Admitted
  <2> QED BY <2>2, <2>3 DEF Door!Init, Init
<1>4. AInv /\ [Next]_vars => [Door!Next]_(Door!vars)
  <2> SUFFICES ASSUME AInv, [Next]_vars PROVE [Door!Next]_(Door!vars)
    OBVIOUS
  <2>1. ASSUME NEW t \in Requests, Step(t) \/ Crash(t) PROVE [Door!Next]_(Door!vars)
    BY <2>1, SerialChanges, StepRefines
  <2>2. ASSUME NEW t \in Requests, NEW g \in 1..lastPwd, StartLogin(t, g)
        PROVE  [Door!Next]_(Door!vars)
    <3>1. /\ pc[t] = "idle" /\ pc' = [pc EXCEPT ![t] = "incr"]
          /\ UNCHANGED <<epoch, version, expired, blacklist, token, late>>
      BY <2>2 DEF StartLogin, Goto, redis, issued
    <3>2. Gate(t)' = Gate(t)
      BY <3>1 DEF Gate, Admitted, SInv, Shapes
    <3> QED BY <3>1, <3>2, Inside DEF keys, SInv
  <2>3. ASSUME NEW t \in Requests, NEW o \in ClientOps, NEW j \in Issued, NEW g \in 1..lastPwd,
               StartRequest(t, o, j, g)
        PROVE  [Door!Next]_(Door!vars)
    <3>1. Door!Ask(t, j) /\ j \in Tokens
      BY <2>3, SerialChanges, ArrivalRefines DEF TypeOK
    <3> QED BY <3>1 DEF Door!Next
  <2>4. ASSUME NEW j \in Tokens, TokenExpires(j) \/ BlacklistEntryExpires(j)
        PROVE  [Door!Next]_(Door!vars)
    BY <2>4, TimeRefines
  <2>5. CASE WindowEnds \/ UNCHANGED vars
    <3>1. keys' = keys /\ UNCHANGED <<pc, token, late>>
      BY <2>5 DEF WindowEnds, vars, redis, issued, local, keys
    <3>2. \A s \in Requests : Gate(s)' = Gate(s)
      BY <3>1 DEF Gate, Admitted
    <3> QED BY <3>1, <3>2, LifeStays, Unnoticed
  <2> QED BY <2>1, <2>2, <2>3, <2>4, <2>5 DEF Next
<1> QED BY <1>1, <1>2, <1>3, <1>4, Revocation, SessionTypes, PTL DEF Spec, RefinesAdmission,
           Door!Spec
=============================================================================
