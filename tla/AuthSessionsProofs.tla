------------------------- MODULE AuthSessionsProofs -------------------------
(* Theorems about AuthSessions, for any number of sessions, requests, starts *)
(* or tabs, refreshes and failures.                                          *)
EXTENDS AuthSessions, TLAPS

-----------------------------------------------------------------------------
(* Types *)

LEMMA CredentialTypes ==
    /\ NoCredential \in Credentials
    /\ \A s \in Sessions, n \in Nat : Secret(s, n) \in Credentials
BY DEF NoCredential, Secret, Credentials

LEMMA RevokeType ==
    ASSUME RowTypes, NEW s \in Sessions, NEW reason \in {"replay", "logout"}, Revoke(s, reason)
    PROVE  RowTypes'
<1>1. row[s] \in [rot : Nat, state : {"unused", "active", "replay", "logout"}]
  BY DEF RowTypes
<1>2. QED
  BY <1>1 DEF RowTypes, Revoke

LEMMA RotateType ==
    ASSUME RowTypes, NEW s \in Sessions, RotateRow(s)
    PROVE  RowTypes'
BY DEF RowTypes, RotateRow

RequestType == [at : {"free", "inspect", "rotate", "answered"},
                by : Tabs \cup {None}, with : Credentials,
                answer : {None, "ok", "401", "error"}, new : Credentials]

LEMMA NoRequestType ==
    /\ NoRequest \in RequestType
    /\ \A t \in Tabs, c \in Credentials :
          [NoRequest EXCEPT !.at = "inspect", !.by = t, !.with = c] \in RequestType
<1>1. NoRequest \in RequestType
  BY CredentialTypes DEF NoRequest, RequestType
<1>2. QED
  BY <1>1 DEF RequestType

LEMMA AnswerType ==
    ASSUME RequestTypes, NEW q \in Requests, NEW kind \in {"ok", "401", "error"},
           NEW c \in Credentials, Answer(q, kind, c)
    PROVE  RequestTypes'
<1>1. request[q] \in RequestType
  BY DEF RequestTypes, RequestType
<1>2. [request[q] EXCEPT !.at = "answered"] \in RequestType
  BY <1>1 DEF RequestType
<1>3. [request[q] EXCEPT !.at = "answered", !.answer = kind, !.new = c] \in RequestType
  BY <1>2 DEF RequestType
<1>4. CASE request[q].by = None
  BY <1>4, NoRequestType DEF Answer, RequestTypes, RequestType
<1>5. CASE request[q].by # None
  <2>1. request' = [request EXCEPT ![q] =
           [request[q] EXCEPT !.at = "answered", !.answer = kind, !.new = c]]
    BY <1>5 DEF Answer, RequestTypes
  <2>2. QED
    BY <1>3, <2>1 DEF RequestTypes, RequestType
<1>6. QED
  BY <1>4, <1>5

LEMMA AbandonedType ==
    ASSUME RequestTypes, NEW t \in Tabs, request' = Abandoned(t)
    PROVE  RequestTypes'
BY NoRequestType DEF RequestTypes, RequestType, Abandoned

LEMMA ExpireType ==
    ASSUME TabTypes, LoginTypes, NEW t \in Tabs, Expire(t)
    PROVE  TabTypes' /\ LoginTypes'
BY DEF TabTypes, LoginTypes, Expire, Outdate, Operation

LEMMA OperationTypes ==
    ASSUME NEW A, "idle" \in A
    PROVE  /\ Idle \in Operation(A)
           /\ \A op \in Operation(A) : Outdate(op) \in Operation(A)
           /\ \A op \in Operation(A), a \in A : [op EXCEPT !.at = a] \in Operation(A)
BY CredentialTypes DEF Idle, Operation, Outdate

LEMMA TakeOnTypes ==
    ASSUME TabTypes, ClientTypes, NEW t \in Tabs, NEW op, op.got.sid \in Sessions \cup {None},
           TakeOn(t, op), UNCHANGED <<platform, credential, begun, accidents>>
    PROVE  TabTypes' /\ ClientTypes'
<1>1. tab[t] \in [up : BOOLEAN, auth : Sessions \cup {None}, out : BOOLEAN,
                  leaving : Sessions \cup {None, "forget"}]
  BY DEF TabTypes
<1>2. CASE op.fresh
  <2>1. [tab[t] EXCEPT !.auth = op.got.sid] \in
            [up : BOOLEAN, auth : Sessions \cup {None}, out : BOOLEAN,
             leaving : Sessions \cup {None, "forget"}]
    BY <1>1
  <2>2. [tab[t] EXCEPT !.auth = op.got.sid, !.out = FALSE] \in
            [up : BOOLEAN, auth : Sessions \cup {None}, out : BOOLEAN,
             leaving : Sessions \cup {None, "forget"}]
    BY <2>1
  <2>3. TabTypes'
    BY <1>2, <2>2 DEF TakeOn, TabTypes
  <2>4. ClientTypes'
    BY <1>2 DEF TakeOn, ClientTypes
  <2>5. QED
    BY <2>3, <2>4
<1>3. CASE ~op.fresh
  BY <1>3 DEF TakeOn, TabTypes, ClientTypes
<1>4. QED
  BY <1>2, <1>3

\* A log-out ends sessions of its own, or leaves every session alone.
LEMMA NotifyLogsOut ==
    ASSUME NEW t \in Tabs, Notify(t)
    PROVE  row' = row \/ \E S : LoggedOut(S)
<1>1. \/ row' = row
      \/ LoggedOut({tab[t].leaving} \cup CookieSession)
      \/ LoggedOut({tab[t].leaving} \cup {})
  BY DEF Notify
<1> QED
  BY <1>1

\* Every variable keeps its type.
LEMMA TypeStep ==
    ASSUME SessionTypes, [SessionNext]_sessionVars
    PROVE  SessionTypes'
<1> USE DEF SessionTypes
<1>1. ASSUME NEW q \in Requests, Inspect(q)
      PROVE  SessionTypes'
  <2> DEFINE c == request[q].with
  <2>1. c \in Credentials /\ (Active(c) => c.sid \in Sessions)
    BY DEF RequestTypes, Credentials, Active
  <2>2. ClientTypes' /\ TabTypes' /\ RefreshTypes' /\ LoginTypes'
    BY <1>1 DEF Inspect, ClientTypes, TabTypes, RefreshTypes, LoginTypes
  <2>3. CASE Active(c) /\ (IsCurrent(c) \/ IsPrevious(c))
    BY <1>1, <2>2, <2>3 DEF Inspect, RowTypes, RequestTypes
  <2>4. CASE Active(c) /\ ~(IsCurrent(c) \/ IsPrevious(c))
    <3>1. Revoke(c.sid, "replay") /\ Answer(q, "401", NoCredential)
      BY <1>1, <2>4 DEF Inspect
    <3>2. QED
      BY <2>1, <2>2, <2>4, <3>1, RevokeType, AnswerType, CredentialTypes
  <2>5. CASE ~Active(c)
    <3>1. row' = row /\ Answer(q, "401", NoCredential)
      BY <1>1, <2>5 DEF Inspect
    <3>2. QED
      BY <2>2, <3>1, AnswerType, CredentialTypes DEF RowTypes
  <2>6. QED
    BY <2>3, <2>4, <2>5
<1>2. ASSUME NEW q \in Requests, Rotate(q)
      PROVE  SessionTypes'
  <2> DEFINE c == request[q].with
  <2>1. c \in Credentials /\ (Active(c) => c.sid \in Sessions)
    BY DEF RequestTypes, Credentials, Active
  <2>2. ClientTypes' /\ TabTypes' /\ RefreshTypes' /\ LoginTypes'
    BY <1>2 DEF Rotate, ClientTypes, TabTypes, RefreshTypes, LoginTypes
  <2>3. CASE Active(c) /\ IsCurrent(c)
    <3>1. PICK n \in Nat : n = c.rot + 1
      BY <2>1 DEF Credentials
    <3>2. RotateRow(c.sid) /\ Answer(q, "ok", Secret(c.sid, n))
      BY <1>2, <2>3, <3>1 DEF Rotate, IsCurrent, IsPrevious, Revoke
    <3>3. QED
      BY <2>1, <2>2, <2>3, <3>2, RotateType, AnswerType, CredentialTypes
  <2>4. CASE Active(c) /\ IsPrevious(c)
    <3>1. PICK n \in Nat : n = row[c.sid].rot
      BY <2>1, <2>4 DEF RowTypes
    <3>2. ~IsCurrent(c)
      BY <2>1, <2>4, <3>1 DEF IsCurrent, IsPrevious, Credentials
    <3>3. row' = row /\ Answer(q, "ok", Secret(c.sid, n))
      BY <1>2, <2>4, <3>1, <3>2 DEF Rotate
    <3>4. QED
      BY <2>1, <2>2, <2>4, <3>3, AnswerType, CredentialTypes DEF RowTypes
  <2>5. CASE Active(c) /\ ~(IsCurrent(c) \/ IsPrevious(c))
    <3>1. Revoke(c.sid, "replay") /\ Answer(q, "401", NoCredential)
      BY <1>2, <2>5 DEF Rotate
    <3>2. QED
      BY <2>1, <2>2, <2>5, <3>1, RevokeType, AnswerType, CredentialTypes
  <2>6. CASE ~Active(c)
    <3>1. row' = row /\ Answer(q, "401", NoCredential)
      BY <1>2, <2>6 DEF Rotate
    <3>2. QED
      BY <2>2, <3>1, AnswerType, CredentialTypes DEF RowTypes
  <2>7. QED
    BY <2>3, <2>4, <2>5, <2>6
<1>3. ASSUME NEW q \in Requests, RequestFails(q)
      PROVE  SessionTypes'
  BY <1>3, AnswerType, CredentialTypes
     DEF RequestFails, RowTypes, ClientTypes, TabTypes, RefreshTypes, LoginTypes
<1>4. ASSUME NEW t \in Tabs, Load(t)
      PROVE  SessionTypes'
  <2>1. TabTypes'
    BY <1>4 DEF Load, TabTypes, NoTab, ClientTypes
  <2>2. QED
    BY <1>4, <2>1 DEF Load, RowTypes, ClientTypes, RefreshTypes, LoginTypes, RequestTypes
<1>5. ASSUME NEW t \in Tabs, Close(t)
      PROVE  SessionTypes'
  <2>1. TabTypes'
    BY <1>5 DEF Close, TabTypes, NoTab
  <2>2. RefreshTypes' /\ LoginTypes'
    BY <1>5, OperationTypes DEF Close, RefreshTypes, LoginTypes
  <2>3. RequestTypes'
    BY <1>5, AbandonedType DEF Close
  <2>4. QED
    BY <1>5, <2>1, <2>2, <2>3 DEF Close, RowTypes, ClientTypes
<1>6. ASSUME NEW t \in Tabs, Refused(t)
      PROVE  SessionTypes'
  <2>1. TabTypes' /\ LoginTypes'
    BY <1>6, ExpireType DEF Refused
  <2>2. RefreshTypes'
    BY <1>6, OperationTypes DEF Refused, RefreshTypes
  <2>3. QED
    BY <1>6, <2>1, <2>2 DEF Refused, RowTypes, ClientTypes, RequestTypes
<1>7. ASSUME NEW t \in Tabs, BeginRefresh(t)
      PROVE  SessionTypes'
  <2>1. RowTypes' /\ ClientTypes'
    BY <1>7 DEF BeginRefresh, RowTypes, ClientTypes
  <2>2. CASE Expire(t) /\ UNCHANGED <<refresh, request>>
    BY <2>1, <2>2, ExpireType DEF RefreshTypes, RequestTypes
  <2>3. CASE ~(Expire(t) /\ UNCHANGED <<refresh, request>>)
    <3>1. PICK q \in Requests : request' = [request EXCEPT ![q] =
             [NoRequest EXCEPT !.at = "inspect", !.by = t, !.with = credential]]
      BY <1>7, <2>3 DEF BeginRefresh
    <3>2. [NoRequest EXCEPT !.at = "inspect", !.by = t, !.with = credential] \in RequestType
      BY NoRequestType DEF ClientTypes
    <3>3. RequestTypes'
      BY <3>1, <3>2 DEF RequestTypes, RequestType
    <3>4. refresh' = [refresh EXCEPT ![t] = [Idle EXCEPT !.at = "sent"]] /\ UNCHANGED <<tab, login>>
      BY <1>7, <2>3 DEF BeginRefresh
    <3>5. RefreshTypes'
      BY <3>4, OperationTypes DEF RefreshTypes
    <3>6. QED
      BY <2>1, <3>3, <3>4, <3>5 DEF TabTypes, LoginTypes
  <2>4. QED
    BY <2>2, <2>3
<1>8. ASSUME NEW t \in Tabs, BreakOff(t)
      PROVE  SessionTypes'
  <2>1. RequestTypes'
    BY <1>8, AbandonedType DEF BreakOff
  <2>2. RefreshTypes'
    BY <1>8, OperationTypes DEF BreakOff, RefreshTypes
  <2>3. QED
    BY <1>8, <2>1, <2>2 DEF BreakOff, RowTypes, ClientTypes, TabTypes, LoginTypes
<1>9. ASSUME NEW t \in Tabs, ExpireRefused(t)
      PROVE  SessionTypes'
  <2>1. TabTypes' /\ LoginTypes'
    BY <1>9, ExpireType DEF ExpireRefused
  <2>2. RefreshTypes'
    BY <1>9, OperationTypes DEF ExpireRefused, RefreshTypes
  <2>3. QED
    BY <1>9, <2>1, <2>2 DEF ExpireRefused, RowTypes, ClientTypes, RequestTypes
<1>10. ASSUME NEW t \in Tabs, WriteRefreshed(t)
       PROVE  SessionTypes'
  <2>1. RefreshTypes'
    BY <1>10, OperationTypes DEF WriteRefreshed, RefreshTypes
  <2>2. ClientTypes'
    BY <1>10 DEF WriteRefreshed, Keep, ClientTypes, RefreshTypes, Operation
  <2>3. QED
    BY <1>10, <2>1, <2>2 DEF WriteRefreshed, RowTypes, TabTypes, LoginTypes, RequestTypes
<1>11. ASSUME NEW t \in Tabs, ApplyRefreshed(t)
       PROVE  SessionTypes'
  <2>1. RefreshTypes'
    BY <1>11, OperationTypes DEF ApplyRefreshed, RefreshTypes
  <2>2. refresh[t].got.sid \in Sessions \cup {None}
    BY DEF RefreshTypes, Operation, Credentials
  <2>3. TabTypes' /\ ClientTypes'
    BY <1>11, <2>2, TakeOnTypes DEF ApplyRefreshed
  <2>4. QED
    BY <1>11, <2>1, <2>3 DEF ApplyRefreshed, RowTypes, LoginTypes, RequestTypes
<1>12. ASSUME NEW t \in Tabs, BeginLogin(t)
       PROVE  SessionTypes'
  <2>1. LoginTypes'
    BY <1>12, OperationTypes DEF BeginLogin, LoginTypes
  <2>2. QED
    BY <1>12, <2>1 DEF BeginLogin, RowTypes, ClientTypes, TabTypes, RefreshTypes, RequestTypes
<1>13. ASSUME NEW t \in Tabs, LoginAnswered(t)
       PROVE  SessionTypes'
  <2>1. PICK s \in Sessions :
           /\ row' = [row EXCEPT ![s] = [@ EXCEPT !.state = "active"]]
           /\ login' = [login EXCEPT ![t] = [Idle EXCEPT !.at = "write", !.got = Secret(s, 0)]]
           /\ credential' = IF platform = "web" THEN Secret(s, 0) ELSE credential
    BY <1>13 DEF LoginAnswered
  <2>2. RowTypes'
    BY <2>1 DEF RowTypes
  <2>3. /\ Idle \in Operation({"idle", "sent", "write", "apply"})
        /\ Secret(s, 0) \in Credentials
    BY OperationTypes, CredentialTypes
  <2>4. [Idle EXCEPT !.at = "write", !.got = Secret(s, 0)]
            \in Operation({"idle", "sent", "write", "apply"})
    BY <2>3 DEF Operation
  <2>5. LoginTypes'
    BY <2>1, <2>4 DEF LoginTypes
  <2>6. ClientTypes'
    BY <1>13, <2>1, <2>3 DEF LoginAnswered, ClientTypes
  <2>7. QED
    BY <1>13, <2>2, <2>5, <2>6 DEF LoginAnswered, TabTypes, RefreshTypes, RequestTypes
<1>14. ASSUME NEW t \in Tabs, WriteLogin(t)
       PROVE  SessionTypes'
  <2>1. LoginTypes'
    BY <1>14, OperationTypes DEF WriteLogin, LoginTypes
  <2>2. ClientTypes'
    BY <1>14 DEF WriteLogin, Keep, ClientTypes, LoginTypes, Operation
  <2>3. QED
    BY <1>14, <2>1, <2>2 DEF WriteLogin, RowTypes, TabTypes, RefreshTypes, RequestTypes
<1>15. ASSUME NEW t \in Tabs, ApplyLogin(t)
       PROVE  SessionTypes'
  <2>1. LoginTypes'
    BY <1>15, OperationTypes DEF ApplyLogin, LoginTypes
  <2>2. login[t].got.sid \in Sessions \cup {None}
    BY DEF LoginTypes, Operation, Credentials
  <2>3. TabTypes' /\ ClientTypes'
    BY <1>15, <2>2, TakeOnTypes DEF ApplyLogin
  <2>4. QED
    BY <1>15, <2>1, <2>3 DEF ApplyLogin, RowTypes, RefreshTypes, RequestTypes
<1>16. ASSUME NEW t \in Tabs, BeginSignOut(t)
       PROVE  SessionTypes'
  <2>1. RefreshTypes' /\ LoginTypes'
    BY <1>16, OperationTypes DEF BeginSignOut, RefreshTypes, LoginTypes
  <2>2. TabTypes'
    <3>1. tab[t].auth \in Sessions
      BY <1>16 DEF BeginSignOut, TabTypes
    <3>2. [tab[t] EXCEPT !.out = TRUE, !.leaving = tab[t].auth] \in
            [up : BOOLEAN, auth : Sessions \cup {None}, out : BOOLEAN,
             leaving : Sessions \cup {None, "forget"}]
      BY <3>1 DEF TabTypes
    <3>3. tab' = [tab EXCEPT ![t] = [tab[t] EXCEPT !.out = TRUE, !.leaving = tab[t].auth]]
      BY <1>16 DEF BeginSignOut
    <3>4. QED
      BY <3>2, <3>3 DEF TabTypes
  <2>3. QED
    BY <1>16, <2>1, <2>2 DEF BeginSignOut, RowTypes, ClientTypes, RequestTypes
<1>17. ASSUME NEW t \in Tabs, Notify(t)
       PROVE  SessionTypes'
  <2>1. RowTypes'
    <3>1. CASE row' = row
      BY <3>1 DEF RowTypes
    <3>2. CASE row' # row
      <4>1. PICK S : LoggedOut(S)
        BY <1>17, <3>2, NotifyLogsOut
      <4>2. QED
        BY <4>1 DEF LoggedOut, RowTypes
    <3>3. QED
      BY <3>1, <3>2
  <2>2. ClientTypes'
    BY <1>17, CredentialTypes DEF Notify, ClientTypes
  <2>3. TabTypes'
    BY <1>17 DEF Notify, TabTypes
  <2>4. QED
    BY <1>17, <2>1, <2>2, <2>3 DEF Notify, RefreshTypes, LoginTypes, RequestTypes
<1>18. ASSUME NEW t \in Tabs, FinishSignOut(t)
       PROVE  SessionTypes'
  <2>1. TabTypes'
    BY <1>18 DEF FinishSignOut, TabTypes
  <2>2. QED
    BY <1>18, <2>1, CredentialTypes
       DEF FinishSignOut, RowTypes, ClientTypes, RefreshTypes, LoginTypes, RequestTypes
<1>19. ASSUME NEW t \in Tabs, NEW q \in Requests, Receive(t, q)
       PROVE  SessionTypes'
  <2>1. RequestTypes'
    BY <1>19, NoRequestType DEF Receive, RequestTypes, RequestType
  <2>2. ClientTypes'
    BY <1>19, CredentialTypes DEF Receive, ClientTypes, RequestTypes
  <2>3. RefreshTypes'
    <3>1. request[q].new \in Credentials /\ refresh[t] \in Operation({"idle", "sent", "write", "apply", "expire"})
      BY DEF RequestTypes, RefreshTypes
    <3>2. /\ [refresh[t] EXCEPT !.at = "write", !.got = request[q].new]
                \in Operation({"idle", "sent", "write", "apply", "expire"})
          /\ [refresh[t] EXCEPT !.at = "expire"]
                \in Operation({"idle", "sent", "write", "apply", "expire"})
          /\ Idle \in Operation({"idle", "sent", "write", "apply", "expire"})
      BY <3>1, OperationTypes DEF Operation
    <3>3. QED
      BY <1>19, <3>2 DEF Receive, RefreshTypes
  <2>4. QED
    BY <1>19, <2>1, <2>2, <2>3 DEF Receive, RowTypes, TabTypes, LoginTypes
<1>20. CASE UNCHANGED sessionVars
  BY <1>20 DEF sessionVars, RowTypes, ClientTypes, TabTypes, RefreshTypes, LoginTypes, RequestTypes
<1>21. QED
  BY <1>1, <1>2, <1>3, <1>4, <1>5, <1>6, <1>7, <1>8, <1>9, <1>10, <1>11, <1>12, <1>13, <1>14,
     <1>15, <1>16, <1>17, <1>18, <1>19, <1>20 DEF SessionNext

LEMMA TypeInit == SessionInit => SessionTypes
<1> SUFFICES ASSUME SessionInit PROVE SessionTypes
  OBVIOUS
<1>1. RowTypes /\ ClientTypes
  BY CredentialTypes DEF SessionInit, RowTypes, ClientTypes
<1>2. TabTypes
  BY DEF SessionInit, TabTypes, NoTab
<1>3. RefreshTypes /\ LoginTypes
  BY OperationTypes DEF SessionInit, RefreshTypes, LoginTypes
<1>4. RequestTypes
  BY NoRequestType DEF SessionInit, RequestTypes, RequestType
<1>5. QED
  BY <1>1, <1>2, <1>3, <1>4 DEF SessionTypes

\* Rows, credentials, tabs, operations and requests keep their types.
THEOREM SessionsTyped == SessionSpec => []SessionTypes
<1>1. QED
  BY TypeInit, TypeStep, PTL DEF SessionSpec

-----------------------------------------------------------------------------
(* What each process has under way *)

\* A process that is not up has nothing under way.
Down ==
    \A t \in Tabs : ~tab[t].up =>
        tab[t] = NoTab /\ refresh[t].at = "idle" /\ login[t].at = "idle"

\* A refresh whose epoch still holds began, and goes on, with no sign-out.
FreshIsIn == \A t \in Tabs : refresh[t].at # "idle" /\ refresh[t].fresh => ~tab[t].out

OneUp == platform = "native" => \A t, u \in Tabs : tab[t].up /\ tab[u].up => t = u

\* A process waits for one request at most.
Owned ==
    \A q \in Requests : request[q].by # None =>
        /\ refresh[request[q].by].at = "sent"
        /\ \A p \in Requests : request[p].by = request[q].by => p = q

Shape == Down /\ FreshIsIn /\ OneUp /\ Owned

LEMMA AnswerOwners ==
    ASSUME RequestTypes, NEW q \in Requests, NEW kind, NEW c, Answer(q, kind, c)
    PROVE  \A p \in Requests : request'[p].by = request[p].by
<1>1. CASE request[q].by = None
  BY <1>1 DEF Answer, RequestTypes, NoRequest
<1>2. CASE request[q].by # None
  BY <1>2 DEF Answer, RequestTypes
<1>3. QED
  BY <1>1, <1>2

\* A step of a process that is up leaves the others as they are.
LEMMA UpStays ==
    ASSUME Down, NEW t \in Tabs, tab'[t].up,
           \A u \in Tabs \ {t} : tab'[u] = tab[u] /\ refresh'[u] = refresh[u] /\ login'[u] = login[u]
    PROVE  Down'
BY DEF Down, NoTab

LEMMA Working ==
    ASSUME Down, NEW t \in Tabs,
           refresh[t].at # "idle" \/ login[t].at # "idle" \/ tab[t].leaving # None
    PROVE  tab[t].up
BY DEF Down, NoTab

LEMMA ShapeStep ==
    ASSUME SessionTypes, Shape, [SessionNext]_sessionVars
    PROVE  Shape'
<1> USE DEF SessionTypes, Shape
<1>1. ASSUME NEW q \in Requests, Inspect(q)
      PROVE  Shape'
  <2>1. Down'
    BY <1>1 DEF Inspect, Answer, NoRequest, Down
  <2>2. FreshIsIn'
    BY <1>1 DEF Inspect, Answer, NoRequest, FreshIsIn
  <2>3. OneUp'
    BY <1>1 DEF Inspect, Answer, NoRequest, OneUp
  <2>4. Owned'
    <3>1. \A p \in Requests : request'[p].by = request[p].by
      BY <1>1, AnswerOwners DEF Inspect, RequestTypes
    <3>2. QED
      BY <1>1, <3>1 DEF Inspect, Owned
  <2>5. QED
    BY <2>1, <2>2, <2>3, <2>4
<1>2. ASSUME NEW q \in Requests, Rotate(q)
      PROVE  Shape'
  <2>1. Down'
    BY <1>2 DEF Rotate, Answer, NoRequest, Down
  <2>2. FreshIsIn'
    BY <1>2 DEF Rotate, Answer, NoRequest, FreshIsIn
  <2>3. OneUp'
    BY <1>2 DEF Rotate, Answer, NoRequest, OneUp
  <2>4. Owned'
    <3>1. \A p \in Requests : request'[p].by = request[p].by
      BY <1>2, AnswerOwners DEF Rotate, RequestTypes
    <3>2. QED
      BY <1>2, <3>1 DEF Rotate, Owned
  <2>5. QED
    BY <2>1, <2>2, <2>3, <2>4
<1>3. ASSUME NEW q \in Requests, RequestFails(q)
      PROVE  Shape'
  <2>1. Down'
    BY <1>3 DEF RequestFails, Answer, NoRequest, Down
  <2>2. FreshIsIn'
    BY <1>3 DEF RequestFails, Answer, NoRequest, FreshIsIn
  <2>3. OneUp'
    BY <1>3 DEF RequestFails, Answer, NoRequest, OneUp
  <2>4. Owned'
    BY <1>3 DEF RequestFails, Answer, NoRequest, Owned, RequestTypes
  <2>5. QED
    BY <2>1, <2>2, <2>3, <2>4
<1>4. ASSUME NEW t \in Tabs, Load(t)
      PROVE  Shape'
  <2>1. Down'
    BY <1>4 DEF Load, NoTab, Down, TabTypes
  <2>2. FreshIsIn'
    BY <1>4 DEF Load, NoTab, FreshIsIn, Down, TabTypes
  <2>3. OneUp'
    BY <1>4 DEF Load, NoTab, OneUp, TabTypes
  <2>4. Owned'
    BY <1>4 DEF Load, NoTab, Owned
  <2>5. QED
    BY <2>1, <2>2, <2>3, <2>4
<1>5. ASSUME NEW t \in Tabs, Close(t)
      PROVE  Shape'
  <2>1. Down'
    BY <1>5 DEF Close, Abandoned, Idle, NoTab, NoRequest, Down, TabTypes, RefreshTypes, Operation, LoginTypes
  <2>2. FreshIsIn'
    BY <1>5 DEF Close, Abandoned, Idle, NoTab, NoRequest, FreshIsIn, Down, TabTypes, RefreshTypes, Operation
  <2>3. OneUp'
    BY <1>5 DEF Close, Abandoned, Idle, NoTab, NoRequest, OneUp, TabTypes
  <2>4. Owned'
    BY <1>5 DEF Close, Abandoned, Idle, NoTab, NoRequest, Owned, Down, RefreshTypes, Operation, RequestTypes
  <2>5. QED
    BY <2>1, <2>2, <2>3, <2>4
<1>6. ASSUME NEW t \in Tabs, Refused(t)
      PROVE  Shape'
  <2>1. Down'
    BY <1>6 DEF Refused, Expire, Outdate, Down, TabTypes, RefreshTypes, Operation, LoginTypes
  <2>2. FreshIsIn'
    BY <1>6 DEF Refused, Expire, Outdate, FreshIsIn, TabTypes, RefreshTypes, Operation
  <2>3. OneUp'
    BY <1>6 DEF Refused, Expire, Outdate, OneUp, TabTypes
  <2>4. Owned'
    BY <1>6 DEF Refused, Expire, Outdate, Owned, RefreshTypes, Operation
  <2>5. QED
    BY <2>1, <2>2, <2>3, <2>4
<1>7. ASSUME NEW t \in Tabs, BeginRefresh(t)
      PROVE  Shape'
  <2>1. Down'
    <3>1. tab'[t].up
      BY <1>7 DEF BeginRefresh, Expire, TabTypes
    <3>2. \A u \in Tabs \ {t} : tab'[u] = tab[u] /\ refresh'[u] = refresh[u] /\ login'[u] = login[u]
      BY <1>7 DEF BeginRefresh, Expire, TabTypes, RefreshTypes, LoginTypes
    <3>3. QED
      BY <3>1, <3>2, UpStays
  <2>2. FreshIsIn'
    BY <1>7 DEF BeginRefresh, Expire, Outdate, Idle, NoRequest, FreshIsIn, TabTypes, RefreshTypes, Operation
  <2>3. OneUp'
    BY <1>7 DEF BeginRefresh, Expire, Outdate, Idle, NoRequest, OneUp, TabTypes
  <2>4. Owned'
    <3>1. CASE UNCHANGED <<refresh, request>>
      BY <3>1 DEF Owned
    <3>2. CASE ~UNCHANGED <<refresh, request>>
      <4>1. PICK q \in Requests :
               /\ request[q].at = "free"
               /\ request' = [request EXCEPT ![q] =
                     [NoRequest EXCEPT !.at = "inspect", !.by = t, !.with = credential]]
        BY <1>7, <3>2 DEF BeginRefresh
      <4>2. /\ refresh[t].at = "idle"
            /\ refresh' = [refresh EXCEPT ![t] = [Idle EXCEPT !.at = "sent"]]
        BY <1>7, <3>2 DEF BeginRefresh
      <4>3. request'[q].by = t /\ \A p \in Requests \ {q} : request'[p] = request[p]
        BY <4>1 DEF RequestTypes, NoRequest
      <4>4. refresh'[t].at = "sent" /\ \A u \in Tabs \ {t} : refresh'[u] = refresh[u]
        BY <4>2 DEF RefreshTypes, Idle
      <4>5. \A p \in Requests : request[p].by # t
        BY <4>2, SessionConstants DEF Owned
      <4>6. \A p \in Requests : request[p].by \in Tabs \cup {None}
        BY DEF RequestTypes
      <4>7. QED
        BY <4>3, <4>4, <4>5, <4>6 DEF Owned
    <3>3. QED
      BY <3>1, <3>2
  <2>5. QED
    BY <2>1, <2>2, <2>3, <2>4
<1>8. ASSUME NEW t \in Tabs, BreakOff(t)
      PROVE  Shape'
  <2>1. Down'
    BY <1>8 DEF BreakOff, Abandoned, Idle, NoRequest, Down, RefreshTypes, Operation
  <2>2. FreshIsIn'
    BY <1>8 DEF BreakOff, Abandoned, Idle, NoRequest, FreshIsIn, RefreshTypes, Operation
  <2>3. OneUp'
    BY <1>8 DEF BreakOff, Abandoned, Idle, NoRequest, OneUp
  <2>4. Owned'
    BY <1>8 DEF BreakOff, Abandoned, Idle, NoRequest, Owned, RefreshTypes, Operation, RequestTypes
  <2>5. QED
    BY <2>1, <2>2, <2>3, <2>4
<1>9. ASSUME NEW t \in Tabs, ExpireRefused(t)
      PROVE  Shape'
  <2>1. Down'
    BY <1>9 DEF ExpireRefused, Expire, Outdate, Idle, Down, TabTypes, RefreshTypes, Operation, LoginTypes
  <2>2. FreshIsIn'
    BY <1>9 DEF ExpireRefused, Expire, Outdate, Idle, FreshIsIn, TabTypes, RefreshTypes, Operation
  <2>3. OneUp'
    BY <1>9 DEF ExpireRefused, Expire, Outdate, Idle, OneUp, TabTypes
  <2>4. Owned'
    BY <1>9 DEF ExpireRefused, Expire, Outdate, Idle, Owned, RefreshTypes, Operation
  <2>5. QED
    BY <2>1, <2>2, <2>3, <2>4
<1>10. ASSUME NEW t \in Tabs, WriteRefreshed(t)
       PROVE  Shape'
  <2>1. Down'
    BY <1>10 DEF WriteRefreshed, Down, RefreshTypes, Operation
  <2>2. FreshIsIn'
    BY <1>10 DEF WriteRefreshed, FreshIsIn, RefreshTypes, Operation
  <2>3. OneUp'
    BY <1>10 DEF WriteRefreshed, OneUp
  <2>4. Owned'
    BY <1>10 DEF WriteRefreshed, Owned, RefreshTypes, Operation
  <2>5. QED
    BY <2>1, <2>2, <2>3, <2>4
<1>11. ASSUME NEW t \in Tabs, ApplyRefreshed(t)
       PROVE  Shape'
  <2>1. Down'
    <3>1. tab[t].up
      BY <1>11, Working DEF ApplyRefreshed
    <3>2. tab'[t].up
      BY <1>11, <3>1 DEF ApplyRefreshed, TakeOn, TabTypes
    <3>3. \A u \in Tabs \ {t} : tab'[u] = tab[u] /\ refresh'[u] = refresh[u] /\ login'[u] = login[u]
      BY <1>11 DEF ApplyRefreshed, TakeOn, TabTypes, RefreshTypes
    <3>4. QED
      BY <3>2, <3>3, UpStays
  <2>2. FreshIsIn'
    BY <1>11 DEF ApplyRefreshed, TakeOn, Idle, FreshIsIn, TabTypes, RefreshTypes, Operation
  <2>3. OneUp'
    BY <1>11 DEF ApplyRefreshed, TakeOn, Idle, OneUp, TabTypes
  <2>4. Owned'
    BY <1>11 DEF ApplyRefreshed, TakeOn, Idle, Owned, RefreshTypes, Operation
  <2>5. QED
    BY <2>1, <2>2, <2>3, <2>4
<1>12. ASSUME NEW t \in Tabs, BeginLogin(t)
       PROVE  Shape'
  <2>1. Down'
    BY <1>12 DEF BeginLogin, Idle, Down, LoginTypes, Operation
  <2>2. FreshIsIn'
    BY <1>12 DEF BeginLogin, Idle, FreshIsIn
  <2>3. OneUp'
    BY <1>12 DEF BeginLogin, Idle, OneUp
  <2>4. Owned'
    BY <1>12 DEF BeginLogin, Idle, Owned
  <2>5. QED
    BY <2>1, <2>2, <2>3, <2>4
<1>13. ASSUME NEW t \in Tabs, LoginAnswered(t)
       PROVE  Shape'
  <2>1. Down'
    BY <1>13 DEF LoginAnswered, Idle, Down, LoginTypes, Operation
  <2>2. FreshIsIn'
    BY <1>13 DEF LoginAnswered, Idle, FreshIsIn
  <2>3. OneUp'
    BY <1>13 DEF LoginAnswered, Idle, OneUp
  <2>4. Owned'
    BY <1>13 DEF LoginAnswered, Idle, Owned
  <2>5. QED
    BY <2>1, <2>2, <2>3, <2>4
<1>14. ASSUME NEW t \in Tabs, WriteLogin(t)
       PROVE  Shape'
  <2>1. Down'
    BY <1>14 DEF WriteLogin, Down, LoginTypes, Operation
  <2>2. FreshIsIn'
    BY <1>14 DEF WriteLogin, FreshIsIn
  <2>3. OneUp'
    BY <1>14 DEF WriteLogin, OneUp
  <2>4. Owned'
    BY <1>14 DEF WriteLogin, Owned
  <2>5. QED
    BY <2>1, <2>2, <2>3, <2>4
<1>15. ASSUME NEW t \in Tabs, ApplyLogin(t)
       PROVE  Shape'
  <2>1. Down'
    <3>1. tab[t].up
      BY <1>15, Working DEF ApplyLogin
    <3>2. tab'[t].up
      BY <1>15, <3>1 DEF ApplyLogin, TakeOn, TabTypes
    <3>3. \A u \in Tabs \ {t} : tab'[u] = tab[u] /\ refresh'[u] = refresh[u] /\ login'[u] = login[u]
      BY <1>15 DEF ApplyLogin, TakeOn, TabTypes, LoginTypes
    <3>4. QED
      BY <3>2, <3>3, UpStays
  <2>2. FreshIsIn'
    BY <1>15 DEF ApplyLogin, TakeOn, Idle, FreshIsIn, TabTypes
  <2>3. OneUp'
    BY <1>15 DEF ApplyLogin, TakeOn, Idle, OneUp, TabTypes
  <2>4. Owned'
    BY <1>15 DEF ApplyLogin, TakeOn, Idle, Owned
  <2>5. QED
    BY <2>1, <2>2, <2>3, <2>4
<1>16. ASSUME NEW t \in Tabs, BeginSignOut(t)
       PROVE  Shape'
  <2>1. Down'
    BY <1>16 DEF BeginSignOut, Outdate, Down, TabTypes, RefreshTypes, Operation, LoginTypes
  <2>2. FreshIsIn'
    BY <1>16 DEF BeginSignOut, Outdate, FreshIsIn, TabTypes, RefreshTypes, Operation
  <2>3. OneUp'
    BY <1>16 DEF BeginSignOut, Outdate, OneUp, TabTypes
  <2>4. Owned'
    BY <1>16 DEF BeginSignOut, Outdate, Owned, RefreshTypes, Operation
  <2>5. QED
    BY <2>1, <2>2, <2>3, <2>4
<1>17. ASSUME NEW t \in Tabs, Notify(t)
       PROVE  Shape'
  <2>1. Down'
    <3>1. tab[t].leaving # None
      BY <1>17, SessionConstants DEF Notify, None
    <3>2. tab[t].up
      BY <3>1, Working
    <3>3. tab'[t].up
      BY <1>17, <3>2 DEF Notify, TabTypes
    <3>4. \A u \in Tabs \ {t} : tab'[u] = tab[u] /\ refresh'[u] = refresh[u] /\ login'[u] = login[u]
      BY <1>17 DEF Notify, TabTypes
    <3>5. QED
      BY <3>3, <3>4, UpStays
  <2>2. FreshIsIn'
    BY <1>17 DEF Notify, FreshIsIn, TabTypes
  <2>3. OneUp'
    BY <1>17 DEF Notify, OneUp, TabTypes
  <2>4. Owned'
    BY <1>17 DEF Notify, Owned
  <2>5. QED
    BY <2>1, <2>2, <2>3, <2>4
<1>18. ASSUME NEW t \in Tabs, FinishSignOut(t)
       PROVE  Shape'
  <2>1. Down'
    <3>1. tab[t].leaving # None
      BY <1>18, SessionConstants DEF FinishSignOut, None
    <3>2. tab[t].up
      BY <3>1, Working
    <3>3. tab'[t].up
      BY <1>18, <3>2 DEF FinishSignOut, TabTypes
    <3>4. \A u \in Tabs \ {t} : tab'[u] = tab[u] /\ refresh'[u] = refresh[u] /\ login'[u] = login[u]
      BY <1>18 DEF FinishSignOut, TabTypes
    <3>5. QED
      BY <3>3, <3>4, UpStays
  <2>2. FreshIsIn'
    BY <1>18 DEF FinishSignOut, FreshIsIn, TabTypes
  <2>3. OneUp'
    BY <1>18 DEF FinishSignOut, OneUp, TabTypes
  <2>4. Owned'
    BY <1>18 DEF FinishSignOut, Owned
  <2>5. QED
    BY <2>1, <2>2, <2>3, <2>4
<1>19. ASSUME NEW t \in Tabs, NEW q \in Requests, Receive(t, q)
       PROVE  Shape'
  <2>1. Down'
    BY <1>19 DEF Receive, Idle, NoRequest, Down, RefreshTypes, Operation
  <2>2. FreshIsIn'
    BY <1>19 DEF Receive, Idle, NoRequest, FreshIsIn, RefreshTypes, Operation
  <2>3. OneUp'
    BY <1>19 DEF Receive, Idle, NoRequest, OneUp
  <2>4. Owned'
    BY <1>19 DEF Receive, Idle, NoRequest, Owned, RefreshTypes, Operation, RequestTypes
  <2>5. QED
    BY <2>1, <2>2, <2>3, <2>4
<1>20. CASE UNCHANGED sessionVars
  BY <1>20 DEF sessionVars, Down, FreshIsIn, OneUp, Owned
<1>21. QED
  BY <1>1, <1>2, <1>3, <1>4, <1>5, <1>6, <1>7, <1>8, <1>9, <1>10, <1>11, <1>12, <1>13, <1>14, <1>15, <1>16, <1>17, <1>18, <1>19, <1>20 DEF SessionNext

LEMMA ShapeInit == SessionInit => Shape
BY DEF SessionInit, Shape, Down, FreshIsIn, OneUp, Owned, NoTab, Idle, NoRequest

\* No process has anything under way that is not its own, or that a sign-out
\* has not outdated.
THEOREM ShapeHolds == SessionSpec => [](SessionTypes /\ Shape)
<1>1. QED
  BY TypeInit, TypeStep, ShapeInit, ShapeStep, PTL DEF SessionSpec

\* Who takes a process back from signed out to signed in.
LEMMA ReturnStep ==
    ASSUME SessionTypes, Shape, [SessionNext]_sessionVars, NEW t \in Tabs,
           tab[t].out, tab'[t].up, ~tab'[t].out
    PROVE  login[t].at = "apply" /\ login[t].fresh
<1> USE DEF SessionTypes, Shape
<1>1. tab'[t].out # tab[t].out
  OBVIOUS
<1>2. ASSUME NEW q \in Requests, Inspect(q) \/ Rotate(q) \/ RequestFails(q)
      PROVE  FALSE
  BY <1>1, <1>2 DEF Inspect, Rotate, RequestFails
<1>3. ASSUME NEW u \in Tabs, Load(u)
      PROVE  FALSE
  <2>1. tab[u].out = FALSE
    BY <1>3 DEF Load, Down, NoTab
  <2>2. QED
    BY <1>1, <1>3, <2>1 DEF Load, TabTypes
<1>4. ASSUME NEW u \in Tabs, Close(u)
      PROVE  FALSE
  BY <1>1, <1>4 DEF Close, TabTypes, NoTab
<1>5. ASSUME NEW u \in Tabs, Refused(u) \/ ExpireRefused(u) \/ BeginRefresh(u)
      PROVE  FALSE
  <2>1. tab' = tab \/ tab' = [tab EXCEPT ![u] = [@ EXCEPT !.auth = None]]
    BY <1>5 DEF Refused, ExpireRefused, BeginRefresh, Expire
  <2>2. QED
    BY <1>1, <2>1 DEF TabTypes
<1>6. ASSUME NEW u \in Tabs, BreakOff(u) \/ WriteRefreshed(u) \/ BeginLogin(u)
                             \/ LoginAnswered(u) \/ WriteLogin(u)
      PROVE  FALSE
  BY <1>1, <1>6 DEF BreakOff, WriteRefreshed, BeginLogin, LoginAnswered, WriteLogin
<1>7. ASSUME NEW u \in Tabs, ApplyRefreshed(u)
      PROVE  FALSE
  <2>1. refresh[u].fresh => ~tab[u].out
    BY <1>7 DEF ApplyRefreshed, FreshIsIn
  <2>2. ~refresh[u].fresh => tab' = tab
    BY <1>7 DEF ApplyRefreshed, TakeOn
  <2>3. refresh[u].fresh => \A v \in Tabs \ {u} : tab'[v] = tab[v]
    BY <1>7 DEF ApplyRefreshed, TakeOn, TabTypes
  <2>4. QED
    BY <1>1, <2>1, <2>2, <2>3
<1>8. ASSUME NEW u \in Tabs, ApplyLogin(u)
      PROVE  login[t].at = "apply" /\ login[t].fresh
  <2>1. login[u].at = "apply"
    BY <1>8 DEF ApplyLogin
  <2>2. ~login[u].fresh => tab' = tab
    BY <1>8 DEF ApplyLogin, TakeOn
  <2>3. login[u].fresh => \A v \in Tabs \ {u} : tab'[v] = tab[v]
    BY <1>8 DEF ApplyLogin, TakeOn, TabTypes
  <2>4. QED
    BY <1>1, <2>1, <2>2, <2>3
<1>9. ASSUME NEW u \in Tabs, BeginSignOut(u)
      PROVE  FALSE
  BY <1>9 DEF BeginSignOut, TabTypes
<1>10. ASSUME NEW u \in Tabs, Notify(u)
       PROVE  FALSE
  BY <1>1, <1>10 DEF Notify, TabTypes
<1>11. ASSUME NEW u \in Tabs, FinishSignOut(u)
       PROVE  FALSE
  BY <1>11 DEF FinishSignOut, TabTypes
<1>12. ASSUME NEW u \in Tabs, NEW q \in Requests, Receive(u, q)
       PROVE  FALSE
  BY <1>1, <1>12 DEF Receive
<1>13. ~UNCHANGED sessionVars
  BY <1>1 DEF sessionVars
<1>14. QED
  BY <1>2, <1>3, <1>4, <1>5, <1>6, <1>7, <1>8, <1>9, <1>10, <1>11, <1>12, <1>13 DEF SessionNext

\* After a sign-out only a login of the same process, no older than the
\* sign-out, brings an account back; no refresh does.
THEOREM OnlyLoginReturnsHolds == SessionSpec => OnlyLoginReturns
<1>1. ASSUME SessionTypes, Shape, [SessionNext]_sessionVars
      PROVE  \A t \in Tabs :
                tab[t].out /\ tab'[t].up /\ ~tab'[t].out => login[t].at = "apply" /\ login[t].fresh
  BY <1>1, ReturnStep
<1>2. QED
  BY <1>1, ShapeHolds, PTL DEF SessionSpec, OnlyLoginReturns

-----------------------------------------------------------------------------
(* Where the secrets of a native application are *)

Underway(q) == request[q].at \in {"inspect", "rotate"}

Granted(q) == request[q].at = "answered" /\ request[q].answer = "ok"

\* The server accepts c, as long as the session is active.
Near(c) == Active(c) => IsCurrent(c) \/ IsPrevious(c)

\* No request under way can rotate past c.
Latest(c) ==
    Active(c) =>
        /\ IsCurrent(c)
        /\ \A q \in Requests : Underway(q) /\ request[q].with.sid = c.sid => request[q].with.rot < c.rot

Known(c) == c.sid # None => row[c.sid].state # "unused"

AllKnown ==
    /\ Known(credential)
    /\ \A q \in Requests : Known(request[q].with) /\ Known(request[q].new)
    /\ \A t \in Tabs : Known(refresh[t].got) /\ Known(login[t].got)

\* Requests under way present one secret of a session, none younger than the
\* vault's.
Presentable ==
    /\ Near(credential)
    /\ \A q \in Requests : Underway(q) =>
          /\ Near(request[q].with)
          /\ Active(request[q].with) =>
                /\ credential.sid = request[q].with.sid => request[q].with.rot <= credential.rot
                /\ \A p \in Requests : Underway(p) /\ request[p].with.sid = request[q].with.sid
                                            => request[p].with.rot = request[q].with.rot

Newest ==
    /\ \A q \in Requests : Granted(q) => Latest(request[q].new)
    /\ \A t \in Tabs : refresh[t].at = "write" => Latest(refresh[t].got)

\* Until it is in the vault, nobody else knows a new session.
Secluded(s) ==
    /\ credential.sid # s
    /\ \A q \in Requests : request[q].with.sid # s /\ request[q].new.sid # s
    /\ \A t \in Tabs : refresh[t].got.sid # s

LoginNew ==
    \A t \in Tabs : login[t].at = "write" =>
        /\ login[t].got.sid # None /\ login[t].got.rot = 0 /\ row[login[t].got.sid].rot = 0
        /\ Secluded(login[t].got.sid)

NeverReplay == \A s \in Sessions : row[s].state # "replay"

Secrets == AllKnown /\ Presentable /\ Newest /\ LoginNew /\ NeverReplay

NativeSecrets == platform = "native" => Secrets

\* Rows that nobody has touched are at their first secret.
Untouched == \A s \in Sessions : row[s].state = "unused" => row[s].rot = 0

\* An answer that is there has somebody who waits for it.
Awaited == \A q \in Requests : request[q].at = "answered" => request[q].by # None

\* A step that grants nothing new and rotates nothing.
RowsFade ==
    \A s \in Sessions :
        /\ row'[s].rot = row[s].rot /\ row'[s].state # "replay"
        /\ row'[s].state = "active" => row[s].state = "active"
        /\ row[s].state # "unused" => row'[s].state # "unused"

RequestsFade ==
    \A q \in Requests :
        /\ request'[q].with \in {request[q].with, NoCredential}
        /\ request'[q].new \in {request[q].new, NoCredential}
        /\ request'[q].at \in {"inspect", "rotate"} =>
              Underway(q) /\ request'[q].with = request[q].with
        /\ request'[q].at = "answered" /\ request'[q].answer = "ok" =>
              Granted(q) /\ request'[q].new = request[q].new

RefreshesFade ==
    \A t \in Tabs :
        /\ \/ refresh'[t].got \in {refresh[t].got, NoCredential}
           \/ \E q \in Requests : refresh'[t].got = request[q].new
        /\ refresh'[t].at = "write" =>
              \/ refresh[t].at = "write" /\ refresh'[t].got = refresh[t].got
              \/ \E q \in Requests : Granted(q) /\ refresh'[t].got = request[q].new

LoginsFade ==
    \A t \in Tabs :
        /\ login'[t].got \in {login[t].got, NoCredential}
        /\ login'[t].at = "write" => login[t].at = "write" /\ login'[t].got = login[t].got

SecretsFade ==
    /\ RowsFade /\ RequestsFade /\ RefreshesFade /\ LoginsFade
    /\ credential' \in {credential, NoCredential}

LEMMA SidTypes ==
    ASSUME SessionTypes
    PROVE  /\ credential \in Credentials
           /\ \A q \in Requests : request[q].with \in Credentials /\ request[q].new \in Credentials
           /\ \A t \in Tabs : refresh[t].got \in Credentials /\ login[t].got \in Credentials
           /\ \A c \in Credentials : c.rot \in Nat /\ (c.sid # None => c.sid \in Sessions)
           /\ \A s \in Sessions : row[s].rot \in Nat
BY DEF SessionTypes, ClientTypes, RequestTypes, RefreshTypes, LoginTypes, RowTypes,
       Operation, Credentials

LEMMA FadeKeeps ==
    ASSUME SessionTypes, SessionTypes', Secrets, SecretsFade
    PROVE  Secrets'
<1> USE DEF Secrets, SecretsFade
<1>1. NoCredential.sid = None
  BY DEF NoCredential, Secret
<1>2. ASSUME NEW c \in Credentials
      PROVE  /\ c.sid # None => c.sid \in Sessions
             /\ Known(c) => Known(c)'
             /\ Near(c) => Near(c)'
             /\ Latest(c) => Latest(c)'
  <2>1. c.sid # None => c.sid \in Sessions
    BY SidTypes
  <2>2. Known(c) => Known(c)'
    BY <2>1 DEF Known, RowsFade
  <2>3. /\ Active(c)' => Active(c)
        /\ c.sid # None => (IsCurrent(c)' <=> IsCurrent(c)) /\ (IsPrevious(c)' <=> IsPrevious(c))
    BY <2>1 DEF Active, IsCurrent, IsPrevious, RowsFade
  <2>4. Near(c) => Near(c)'
    BY <2>3 DEF Near, Active
  <2>5. Latest(c) => Latest(c)'
    BY <2>3 DEF Latest, Active, Underway, RequestsFade
  <2>6. QED
    BY <2>1, <2>2, <2>4, <2>5
<1>3. AllKnown'
  <2>1. Known(NoCredential)'
    BY <1>1 DEF Known
  <2>2. Known(credential)'
    BY <1>2, <2>1, SidTypes DEF AllKnown, Known
  <2>3. ASSUME NEW q \in Requests
        PROVE  Known(request[q].with)' /\ Known(request[q].new)'
    BY <1>2, <2>1, SidTypes DEF AllKnown, RequestsFade, Known
  <2>4. ASSUME NEW t \in Tabs
        PROVE  Known(refresh[t].got)' /\ Known(login[t].got)'
    BY <1>2, <2>1, SidTypes DEF AllKnown, RefreshesFade, LoginsFade, Known
  <2>5. QED
    BY <2>2, <2>3, <2>4 DEF AllKnown
<1>4. Presentable'
  <2>1. Near(credential)'
    BY <1>1, <1>2, SidTypes DEF Presentable, Near, Active
  <2>2. SUFFICES ASSUME NEW q \in Requests, Underway(q)'
        PROVE  /\ Near(request[q].with)'
               /\ Active(request[q].with)' =>
                    /\ credential'.sid = request'[q].with.sid => request'[q].with.rot <= credential'.rot
                    /\ \A p \in Requests :
                         Underway(p)' /\ request'[p].with.sid = request'[q].with.sid
                            => request'[p].with.rot = request'[q].with.rot
    BY <2>1 DEF Presentable
  <2>3. Underway(q) /\ request'[q].with = request[q].with
    BY <2>2 DEF RequestsFade, Underway
  <2>4. Near(request[q].with)'
    BY <1>2, <2>3, SidTypes DEF Presentable, Near, Active, IsCurrent, IsPrevious
  <2>5. Active(request[q].with)' => Active(request[q].with) /\ request[q].with.sid # None
    BY <1>2, <2>3, SidTypes DEF Active, RowsFade
  <2>6. \A p \in Requests : Underway(p)' => Underway(p) /\ request'[p].with = request[p].with
    BY DEF RequestsFade, Underway
  <2>7. QED
    BY <1>1, <2>3, <2>4, <2>5, <2>6 DEF Presentable
<1>5. Newest'
  <2>1. ASSUME NEW q \in Requests, Granted(q)'
        PROVE  Latest(request[q].new)'
    <3>1. Granted(q) /\ request'[q].new = request[q].new
      BY <2>1 DEF RequestsFade, Granted
    <3>2. Latest(request[q].new)
      BY <3>1 DEF Newest
    <3>3. QED
      BY <1>2, <3>1, <3>2, SidTypes DEF Latest, Active, IsCurrent
  <2>2. ASSUME NEW t \in Tabs, refresh'[t].at = "write"
        PROVE  Latest(refresh[t].got)'
    <3>1. PICK c \in Credentials : c = refresh'[t].got /\ Latest(c)
      BY <2>2, SidTypes DEF RefreshesFade, Newest
    <3>2. QED
      BY <1>2, <3>1 DEF Latest, Active, IsCurrent
  <2>3. QED
    BY <2>1, <2>2 DEF Newest
<1>6. LoginNew'
  <2>1. SUFFICES ASSUME NEW t \in Tabs, login'[t].at = "write"
        PROVE  /\ login'[t].got.sid # None /\ login'[t].got.rot = 0
               /\ row'[login'[t].got.sid].rot = 0
               /\ Secluded(login[t].got.sid)'
    BY DEF LoginNew
  <2>2. login[t].at = "write" /\ login'[t].got = login[t].got
    BY <2>1 DEF LoginsFade
  <2>3. PICK s \in Sessions : s = login[t].got.sid /\ s # None /\ row[s].rot = 0 /\ Secluded(s)
                              /\ login[t].got.rot = 0
    BY <2>2, SidTypes DEF LoginNew
  <2>4. Secluded(s)'
    BY <1>1, <2>3 DEF Secluded, RequestsFade, RefreshesFade
  <2>5. QED
    BY <2>2, <2>3, <2>4 DEF RowsFade, Secluded
<1>7. NeverReplay'
  BY DEF NeverReplay, RowsFade
<1>8. QED
  BY <1>3, <1>4, <1>5, <1>6, <1>7

\* An answer that grants nothing.
LEMMA RefusalFades ==
    ASSUME SessionTypes, NEW q \in Requests, NEW kind \in {"401", "error"},
           Answer(q, kind, NoCredential)
    PROVE  RequestsFade
<1>1. CASE request[q].by = None
  BY <1>1 DEF SessionTypes, Answer, RequestTypes, RequestsFade, NoRequest, Underway, Granted
<1>2. CASE request[q].by # None
  BY <1>2 DEF SessionTypes, Answer, RequestTypes, RequestsFade, Underway, Granted
<1>3. QED
  BY <1>1, <1>2

LEMMA AbandonedFades ==
    ASSUME SessionTypes, NEW t \in Tabs, request' = Abandoned(t)
    PROVE  RequestsFade
BY DEF SessionTypes, Abandoned, RequestTypes, RequestsFade, NoRequest, Underway, Granted

LEMMA SameFades ==
    ASSUME SessionTypes, NeverReplay
    PROVE  /\ row' = row => RowsFade
           /\ request' = request => RequestsFade
           /\ refresh' = refresh => RefreshesFade
           /\ login' = login => LoginsFade
<1>1. row' = row => RowsFade
  BY DEF RowsFade, NeverReplay
<1>2. request' = request => RequestsFade
  BY DEF RequestsFade, Underway, Granted
<1>3. refresh' = refresh => RefreshesFade
  BY DEF RefreshesFade
<1>4. login' = login => LoginsFade
  BY DEF LoginsFade
<1>5. QED
  BY <1>1, <1>2, <1>3, <1>4

LEMMA OutdateFades ==
    ASSUME SessionTypes, NEW t \in Tabs
    PROVE  /\ refresh' = [refresh EXCEPT ![t] = Outdate(@)] => RefreshesFade
           /\ login' = [login EXCEPT ![t] = Outdate(@)] => LoginsFade
           /\ refresh' = [refresh EXCEPT ![t] = Idle] => RefreshesFade
           /\ login' = [login EXCEPT ![t] = Idle] => LoginsFade
<1>1. refresh' = [refresh EXCEPT ![t] = Outdate(@)] => RefreshesFade
  BY DEF SessionTypes, RefreshTypes, Operation, Outdate, RefreshesFade
<1>2. login' = [login EXCEPT ![t] = Outdate(@)] => LoginsFade
  BY DEF SessionTypes, LoginTypes, Operation, Outdate, LoginsFade
<1>3. refresh' = [refresh EXCEPT ![t] = Idle] => RefreshesFade
  BY DEF SessionTypes, RefreshTypes, Idle, RefreshesFade
<1>4. login' = [login EXCEPT ![t] = Idle] => LoginsFade
  BY DEF SessionTypes, LoginTypes, Idle, LoginsFade
<1>5. QED
  BY <1>1, <1>2, <1>3, <1>4

\* The steps of a native application and of the server that grant nothing.
LEMMA QuietSteps ==
    ASSUME SessionTypes, Secrets, platform = "native"
    PROVE  /\ \A q \in Requests : Inspect(q) \/ RequestFails(q) => SecretsFade
           /\ \A t \in Tabs :
                 Load(t) \/ Close(t) \/ Refused(t) \/ BreakOff(t) \/ ExpireRefused(t)
                 \/ ApplyRefreshed(t) \/ BeginLogin(t) \/ ApplyLogin(t) \/ BeginSignOut(t)
                 \/ Notify(t) \/ FinishSignOut(t) => SecretsFade
           /\ \A t \in Tabs, q \in Requests : Receive(t, q) => SecretsFade
<1> USE SameFades, OutdateFades DEF Secrets
<1>1. ASSUME NEW q \in Requests, Inspect(q)
      PROVE  SecretsFade
  <2> DEFINE c == request[q].with
  <2>1. UNCHANGED <<refresh, login, credential>>
    BY <1>1 DEF Inspect
  <2>2. Near(c)
    BY <1>1 DEF Inspect, Presentable, Underway
  <2>3. CASE Active(c)
    <3>1. row' = row /\ request' = [request EXCEPT ![q] = [@ EXCEPT !.at = "rotate"]]
      BY <1>1, <2>2, <2>3 DEF Inspect, Near
    <3>2. request[q].at = "inspect"
      BY <1>1 DEF Inspect
    <3>3. RequestsFade
      BY <3>1, <3>2 DEF SessionTypes, RequestTypes, RequestsFade, Underway, Granted
    <3>4. QED
      BY <2>1, <3>1, <3>3 DEF SecretsFade
  <2>4. CASE ~Active(c)
    <3>1. row' = row /\ Answer(q, "401", NoCredential)
      BY <1>1, <2>4 DEF Inspect
    <3>2. QED
      BY <2>1, <3>1, RefusalFades DEF SecretsFade
  <2>5. QED
    BY <2>3, <2>4
<1>2. ASSUME NEW q \in Requests, RequestFails(q)
      PROVE  SecretsFade
  BY <1>2, RefusalFades DEF RequestFails, SecretsFade
<1>3. ASSUME NEW t \in Tabs, Load(t)
      PROVE  SecretsFade
  BY <1>3 DEF Load, SecretsFade
<1>4. ASSUME NEW t \in Tabs, Close(t)
      PROVE  SecretsFade
  BY <1>4, AbandonedFades DEF Close, SecretsFade
<1>5. ASSUME NEW t \in Tabs, Refused(t)
      PROVE  SecretsFade
  BY <1>5 DEF Refused, Expire, SecretsFade
<1>6. ASSUME NEW t \in Tabs, BreakOff(t)
      PROVE  SecretsFade
  BY <1>6, AbandonedFades DEF BreakOff, SecretsFade
<1>7. ASSUME NEW t \in Tabs, ExpireRefused(t)
      PROVE  SecretsFade
  BY <1>7 DEF ExpireRefused, Expire, SecretsFade
<1>8. ASSUME NEW t \in Tabs, ApplyRefreshed(t)
      PROVE  SecretsFade
  BY <1>8 DEF ApplyRefreshed, SecretsFade
<1>9. ASSUME NEW t \in Tabs, BeginLogin(t)
      PROVE  SecretsFade
  <2>1. LoginsFade
    BY <1>9 DEF BeginLogin, SessionTypes, LoginTypes, Idle, LoginsFade
  <2>2. QED
    BY <1>9, <2>1 DEF BeginLogin, SecretsFade
<1>10. ASSUME NEW t \in Tabs, ApplyLogin(t)
       PROVE  SecretsFade
  BY <1>10 DEF ApplyLogin, SecretsFade
<1>11. ASSUME NEW t \in Tabs, BeginSignOut(t)
       PROVE  SecretsFade
  BY <1>11 DEF BeginSignOut, SecretsFade
<1>12. ASSUME NEW t \in Tabs, Notify(t)
       PROVE  SecretsFade
  <2>1. credential' = credential /\ UNCHANGED <<refresh, login, request>>
    BY <1>12 DEF Notify
  <2>2. CASE row' = row
    BY <2>1, <2>2 DEF SecretsFade
  <2>3. CASE row' # row
    <3>1. PICK S : LoggedOut(S)
      BY <1>12, <2>3, NotifyLogsOut
    <3>2. RowsFade
      BY <3>1 DEF LoggedOut, SessionTypes, RowTypes, RowsFade, NeverReplay
    <3>3. QED
      BY <2>1, <3>2 DEF SecretsFade
  <2>4. QED
    BY <2>2, <2>3
<1>13. ASSUME NEW t \in Tabs, FinishSignOut(t)
       PROVE  SecretsFade
  BY <1>13 DEF FinishSignOut, SecretsFade
<1>14. ASSUME NEW t \in Tabs, NEW q \in Requests, Receive(t, q)
       PROVE  SecretsFade
  <2>1. RequestsFade
    BY <1>14 DEF Receive, SessionTypes, RequestTypes, RequestsFade, NoRequest, Underway, Granted
  <2>2. RefreshesFade
    <3>1. \A u \in Tabs \ {t} : refresh'[u] = refresh[u]
      BY <1>14 DEF Receive, SessionTypes, RefreshTypes
    <3>2. request[q].at = "answered"
      BY <1>14 DEF Receive
    <3>3. \/ refresh'[t] = Idle
          \/ request[q].answer = "ok" /\ refresh'[t].at = "write" /\ refresh'[t].got = request[q].new
          \/ refresh'[t].at = "expire" /\ refresh'[t].got = refresh[t].got
      BY <1>14 DEF Receive, SessionTypes, RefreshTypes, Operation
    <3>4. QED
      BY <3>1, <3>2, <3>3 DEF RefreshesFade, Granted, Idle
  <2>3. credential' \in {credential, NoCredential}
    BY <1>14 DEF Receive
  <2>4. QED
    BY <1>14, <2>1, <2>2, <2>3 DEF Receive, SecretsFade
<1>15. QED
  BY <1>1, <1>2, <1>3, <1>4, <1>5, <1>6, <1>7, <1>8, <1>9, <1>10, <1>11, <1>12, <1>13, <1>14

\* Rows and answers nobody has asked for.
LEMMA RestStep ==
    ASSUME SessionTypes, Untouched, Awaited, [SessionNext]_sessionVars
    PROVE  Untouched' /\ Awaited'
<1> USE DEF SessionTypes
<1>1. ASSUME NEW q \in Requests, NEW kind, NEW c, Answer(q, kind, c)
      PROVE  Awaited'
  <2>1. CASE request[q].by = None
    BY <1>1, <2>1 DEF Answer, Awaited, RequestTypes, NoRequest
  <2>2. CASE request[q].by # None
    BY <1>1, <2>2 DEF Answer, Awaited, RequestTypes
  <2>3. QED
    BY <2>1, <2>2
<1>2. ASSUME NEW s \in Sessions, NEW reason \in {"replay", "logout"}, Revoke(s, reason)
      PROVE  Untouched'
  BY <1>2 DEF Revoke, Untouched, RowTypes
<1>3. ASSUME NEW q \in Requests, Inspect(q)
      PROVE  Untouched' /\ Awaited'
  <2> DEFINE c == request[q].with
  <2>1. Active(c) => c.sid \in Sessions
    BY SidTypes DEF Active
  <2>2. row' = row \/ (Revoke(c.sid, "replay") /\ Active(c))
    BY <1>3 DEF Inspect
  <2>3. \/ Answer(q, "401", NoCredential)
        \/ request' = [request EXCEPT ![q] = [@ EXCEPT !.at = "rotate"]]
    BY <1>3 DEF Inspect
  <2>4. Untouched'
    BY <1>2, <2>1, <2>2 DEF Untouched
  <2>5. Awaited'
    BY <1>1, <2>3 DEF Awaited, RequestTypes
  <2>6. QED
    BY <2>4, <2>5
<1>4. ASSUME NEW q \in Requests, Rotate(q)
      PROVE  Untouched' /\ Awaited'
  <2> DEFINE c == request[q].with
  <2>1. Active(c) => c.sid \in Sessions
    BY SidTypes DEF Active
  <2>2. row' = row \/ (Active(c) /\ (Revoke(c.sid, "replay") \/ RotateRow(c.sid)))
    BY <1>4 DEF Rotate
  <2>3. \E kind, d : Answer(q, kind, d)
    BY <1>4 DEF Rotate
  <2>4. Untouched'
    BY <1>2, <2>1, <2>2 DEF Untouched, RotateRow, RowTypes
  <2>5. Awaited'
    BY <1>1, <2>3
  <2>6. QED
    BY <2>4, <2>5
<1>5. ASSUME NEW q \in Requests, RequestFails(q)
      PROVE  Untouched' /\ Awaited'
  BY <1>1, <1>5 DEF RequestFails, Untouched
<1>6. ASSUME NEW t \in Tabs, Close(t) \/ BreakOff(t)
      PROVE  Untouched' /\ Awaited'
  <2>1. row' = row /\ request' = Abandoned(t)
    BY <1>6 DEF Close, BreakOff
  <2>2. QED
    BY <2>1 DEF Untouched, Awaited, Abandoned, RequestTypes, NoRequest
<1>7. ASSUME NEW t \in Tabs, BeginRefresh(t)
      PROVE  Untouched' /\ Awaited'
  <2>1. \/ request' = request
        \/ \E q \in Requests : request' = [request EXCEPT ![q] =
              [NoRequest EXCEPT !.at = "inspect", !.by = t, !.with = credential]]
    BY <1>7 DEF BeginRefresh
  <2>2. Awaited'
    BY <2>1 DEF Awaited, RequestTypes, NoRequest
  <2>3. QED
    BY <1>7, <2>2 DEF BeginRefresh, Untouched
<1>8. ASSUME NEW t \in Tabs, NEW q \in Requests, Receive(t, q)
      PROVE  Untouched' /\ Awaited'
  BY <1>8 DEF Receive, Untouched, Awaited, RequestTypes, NoRequest
<1>9. ASSUME NEW t \in Tabs, LoginAnswered(t)
      PROVE  Untouched' /\ Awaited'
  BY <1>9 DEF LoginAnswered, Untouched, Awaited, RowTypes
<1>10. ASSUME NEW t \in Tabs, Notify(t)
       PROVE  Untouched' /\ Awaited'
  <2>1. row' = row \/ \E S : LoggedOut(S)
    BY <1>10, NotifyLogsOut
  <2>2. Untouched'
    BY <2>1 DEF LoggedOut, Untouched, RowTypes
  <2>3. QED
    BY <1>10, <2>2 DEF Notify, Awaited
<1>11. ASSUME NEW t \in Tabs,
              \/ Load(t) \/ Refused(t) \/ ExpireRefused(t) \/ WriteRefreshed(t)
              \/ ApplyRefreshed(t) \/ BeginLogin(t) \/ WriteLogin(t) \/ ApplyLogin(t)
              \/ BeginSignOut(t) \/ FinishSignOut(t)
       PROVE  UNCHANGED <<row, request>>
  BY <1>11 DEF Load, Refused, ExpireRefused, WriteRefreshed, ApplyRefreshed, BeginLogin,
               WriteLogin, ApplyLogin, BeginSignOut, FinishSignOut
<1>12. UNCHANGED <<row, request>> => Untouched' /\ Awaited'
  BY DEF Untouched, Awaited
<1>13. UNCHANGED sessionVars => UNCHANGED <<row, request>>
  BY DEF sessionVars
<1>14. QED
  BY <1>3, <1>4, <1>5, <1>6, <1>7, <1>8, <1>9, <1>10, <1>11, <1>12, <1>13 DEF SessionNext

\* The answer to a request with the current or the previous secret: either way
\* the row ends one rotation after the secret that was presented.
LEMMA GrantKeeps ==
    ASSUME SessionTypes, SessionTypes', Secrets, NEW q \in Requests, Underway(q),
           Active(request[q].with),
           \A s \in Sessions \ {request[q].with.sid} : row'[s] = row[s],
           row'[request[q].with.sid].state = "active",
           row'[request[q].with.sid].rot = request[q].with.rot + 1,
           row[request[q].with.sid].rot \in {request[q].with.rot, request[q].with.rot + 1},
           \A p \in Requests \ {q} : request'[p] = request[p],
           \/ request'[q] = NoRequest
           \/ /\ request'[q].at = "answered" /\ request'[q].with = request[q].with
              /\ request'[q].new = Secret(request[q].with.sid, request[q].with.rot + 1),
           UNCHANGED <<credential, refresh, login>>
    PROVE  Secrets'
<1> USE DEF Secrets
<1> DEFINE s == request[q].with.sid
           n == request[q].with.rot
<1>1. /\ s \in Sessions /\ s # None /\ n \in Nat /\ row[s].state = "active"
      /\ row[s].rot \in Nat
  BY SidTypes DEF Active
<1>2. /\ NoRequest.with.sid = None /\ NoRequest.new.sid = None /\ NoRequest.at = "free"
      /\ Secret(s, n + 1).sid = s /\ Secret(s, n + 1).rot = n + 1
  BY DEF NoRequest, NoCredential, Secret
<1>3. /\ request'[q].with.sid \in {None, s} /\ request'[q].new.sid \in {None, s}
      /\ ~Underway(q)'
      /\ Granted(q)' => request'[q].new.sid = s /\ request'[q].new.rot = n + 1
  BY <1>1, <1>2 DEF Underway, Granted
<1>4. \A c \in Credentials : Known(c) => Known(c)'
  BY <1>1, SidTypes DEF Known
<1>5. ASSUME NEW p \in Requests, Underway(p)'
      PROVE  /\ p # q /\ Underway(p) /\ request'[p].with = request[p].with
             /\ request[p].with.sid = s => request[p].with.rot = n
  BY <1>1, <1>3, <1>5 DEF Underway, Presentable
<1>6. AllKnown'
  <2>1. Known(credential)' /\ \A t \in Tabs : Known(refresh[t].got)' /\ Known(login[t].got)'
    BY <1>4, SidTypes DEF AllKnown, Known
  <2>2. \A p \in Requests \ {q} : Known(request[p].with)' /\ Known(request[p].new)'
    BY <1>4, SidTypes DEF AllKnown, Known
  <2>3. Known(request[q].with)' /\ Known(request[q].new)'
    BY <1>1, <1>3 DEF Known
  <2>4. QED
    BY <2>1, <2>2, <2>3 DEF AllKnown
<1>7. Presentable'
  <2>1. Near(credential)'
    <3>1. CASE credential.sid = s
      <4>1. n <= credential.rot /\ (credential.rot = row[s].rot \/ credential.rot + 1 = row[s].rot)
        BY <1>1, <3>1 DEF Presentable, Near, Active, IsCurrent, IsPrevious
      <4>2. credential.rot \in {n, n + 1}
        BY <1>1, <4>1, SidTypes
      <4>3. QED
        BY <1>1, <3>1, <4>2, SidTypes DEF Near, Active, IsCurrent, IsPrevious
    <3>2. CASE credential.sid # s
      BY <3>2, SidTypes DEF Presentable, Near, Active, IsCurrent, IsPrevious
    <3>3. QED
      BY <3>1, <3>2
  <2>2. ASSUME NEW p \in Requests, Underway(p)'
        PROVE  Near(request[p].with)'
    <3>1. CASE request[p].with.sid = s
      BY <1>1, <1>5, <2>2, <3>1 DEF Near, Active, IsCurrent, IsPrevious
    <3>2. CASE request[p].with.sid # s
      BY <1>5, <2>2, <3>2, SidTypes DEF Presentable, Near, Active, IsCurrent, IsPrevious
    <3>3. QED
      BY <3>1, <3>2
  <2>3. \A p \in Requests : Underway(p)' /\ Active(request[p].with)' => Active(request[p].with)
    BY <1>1, <1>5, SidTypes DEF Active
  <2>4. QED
    BY <1>5, <2>1, <2>2, <2>3 DEF Presentable
<1>8. ASSUME NEW c \in Credentials, Latest(c)
      PROVE  Latest(c)'
  <2>1. CASE c.sid = s
    <3>1. c.rot = row[s].rot /\ n < c.rot
      BY <1>1, <1>8, <2>1 DEF Latest, Active, IsCurrent
    <3>2. c.rot = n + 1
      BY <1>1, <3>1
    <3>3. QED
      BY <1>1, <1>5, <2>1, <3>2 DEF Latest, IsCurrent
  <2>2. CASE c.sid # s
    BY <1>5, <1>8, <2>2, SidTypes DEF Latest, Active, IsCurrent
  <2>3. QED
    BY <2>1, <2>2
<1>9. Newest'
  <2>1. ASSUME NEW p \in Requests \ {q}, Granted(p)'
        PROVE  Latest(request[p].new)'
    <3>1. Granted(p) /\ request'[p].new = request[p].new
      BY <2>1 DEF Granted
    <3>2. QED
      BY <1>8, <3>1, SidTypes DEF Newest, Latest, Active, IsCurrent
  <2>2. Granted(q)' => Latest(request[q].new)'
    BY <1>1, <1>3, <1>5 DEF Latest, IsCurrent
  <2>3. ASSUME NEW t \in Tabs, refresh'[t].at = "write"
        PROVE  Latest(refresh[t].got)'
    BY <1>8, <2>3, SidTypes DEF Newest, Latest, Active, IsCurrent
  <2>4. QED
    BY <2>1, <2>2, <2>3 DEF Newest
<1>10. LoginNew'
  <2>1. \A t \in Tabs : login[t].at = "write" => login[t].got.sid # s
    BY DEF LoginNew, Secluded
  <2>2. \A t \in Tabs : login[t].at = "write" => row'[login[t].got.sid].rot = 0
    BY <2>1, SidTypes DEF LoginNew
  <2>3. \A t \in Tabs : login[t].at = "write" => Secluded(login[t].got.sid)'
    BY <1>3, <2>1 DEF LoginNew, Secluded
  <2>4. QED
    BY <2>2, <2>3 DEF LoginNew, Secluded
<1>11. NeverReplay'
  BY <1>1 DEF NeverReplay
<1>12. QED
  BY <1>6, <1>7, <1>9, <1>10, <1>11

LEMMA RotateKeeps ==
    ASSUME SessionTypes, SessionTypes', Secrets, NEW q \in Requests, Rotate(q)
    PROVE  Secrets'
<1> USE DEF Secrets
<1> DEFINE c == request[q].with
<1>1. request[q].at = "rotate" /\ UNCHANGED <<credential, refresh, login>>
  BY DEF Rotate
<1>2. Underway(q) /\ Near(c)
  BY <1>1 DEF Presentable, Underway
<1>3. c \in Credentials /\ c.rot \in Nat /\ (Active(c) => c.sid \in Sessions /\ row[c.sid].rot \in Nat)
  BY SidTypes DEF Active
<1>4. CASE Active(c)
  <2>1. /\ Answer(q, "ok", Secret(c.sid, c.rot + 1))
        /\ \/ row[c.sid].rot = c.rot /\ RotateRow(c.sid)
           \/ row[c.sid].rot = c.rot + 1 /\ row' = row
    BY <1>2, <1>3, <1>4 DEF Rotate, Near, IsCurrent, IsPrevious
  <2>2. \/ request'[q] = NoRequest
        \/ /\ request'[q].at = "answered" /\ request'[q].with = request[q].with
           /\ request'[q].new = Secret(c.sid, c.rot + 1)
    BY <2>1 DEF Answer, SessionTypes, RequestTypes
  <2>3. \A p \in Requests \ {q} : request'[p] = request[p]
    BY <2>1 DEF Answer, SessionTypes, RequestTypes
  <2>4. /\ row'[c.sid].state = "active" /\ row'[c.sid].rot = c.rot + 1
        /\ \A s \in Sessions \ {c.sid} : row'[s] = row[s]
    <3>1. row[c.sid].state = "active"
      BY <1>4 DEF Active
    <3>2. QED
      BY <1>3, <1>4, <2>1, <3>1 DEF RotateRow, SessionTypes, RowTypes
  <2>5. row[c.sid].rot \in {c.rot, c.rot + 1}
    BY <2>1
  <2>6. QED
    BY <1>1, <1>2, <1>4, <2>2, <2>3, <2>4, <2>5, GrantKeeps
<1>5. CASE ~Active(c)
  <2>1. row' = row /\ Answer(q, "401", NoCredential)
    BY <1>5 DEF Rotate
  <2>2. SecretsFade
    BY <1>1, <2>1, SameFades, RefusalFades DEF SecretsFade
  <2>3. QED
    BY <2>2, FadeKeeps
<1>6. QED
  BY <1>4, <1>5

LEMMA BeginRefreshKeeps ==
    ASSUME SessionTypes, SessionTypes', Shape, Awaited, Secrets, platform = "native",
           NEW t \in Tabs, BeginRefresh(t)
    PROVE  Secrets'
<1> USE DEF Secrets
<1>1. CASE Expire(t) /\ UNCHANGED <<refresh, request>>
  <2>1. SecretsFade
    BY <1>1, SameFades, OutdateFades DEF BeginRefresh, Expire, SecretsFade
  <2>2. QED
    BY <2>1, FadeKeeps
<1>2. CASE ~(Expire(t) /\ UNCHANGED <<refresh, request>>)
  <2>1. PICK q \in Requests :
           /\ request[q].at = "free" /\ Settled
           /\ request' = [request EXCEPT ![q] =
                 [NoRequest EXCEPT !.at = "inspect", !.by = t, !.with = credential]]
           /\ refresh[t].at = "idle" /\ tab[t].up
           /\ refresh' = [refresh EXCEPT ![t] = [Idle EXCEPT !.at = "sent"]]
           /\ UNCHANGED <<row, credential, login>>
    BY <1>2 DEF BeginRefresh
  <2>2. /\ request'[q].at = "inspect" /\ request'[q].with = credential
        /\ request'[q].new = NoCredential /\ NoCredential.sid = None
        /\ \A p \in Requests \ {q} : request'[p] = request[p]
    BY <2>1 DEF SessionTypes, RequestTypes, NoRequest, NoCredential, Secret
  <2>3. /\ refresh'[t].at = "sent" /\ refresh'[t].got = NoCredential
        /\ \A u \in Tabs \ {t} : refresh'[u] = refresh[u]
    BY <2>1 DEF SessionTypes, RefreshTypes, Idle
  <2>4. \A u \in Tabs \ {t} : refresh[u].at = "idle"
    BY <2>1 DEF Shape, OneUp, Down
  <2>5. \A p \in Requests : ~Granted(p)
    <3>1. \A p \in Requests : request[p].by \in Tabs \cup {None}
      BY DEF SessionTypes, RequestTypes
    <3>2. QED
      BY <2>1, <2>4, <3>1 DEF Granted, Awaited, Shape, Owned
  <2>6. \A p \in Requests : Underway(p) /\ request[p].with.sid = credential.sid
                                => request[p].with = credential
    BY <2>1 DEF Settled, Underway
  <2>7. AllKnown'
    BY <2>1, <2>2, <2>3 DEF AllKnown, Known
  <2>8. Presentable'
    <3>1. Near(credential)'
      BY <2>1 DEF Presentable, Near, Active, IsCurrent, IsPrevious
    <3>2. \A p \in Requests \ {q} : Underway(p)' => Underway(p) /\ request'[p].with = request[p].with
      BY <2>2 DEF Underway
    <3>3. \A p \in Requests \ {q} : Underway(p)' => Near(request[p].with)'
      BY <2>1, <3>2 DEF Presentable, Near, Active, IsCurrent, IsPrevious
    <3>4. Near(request[q].with)'
      BY <2>1, <2>2, <3>1 DEF Near, Active, IsCurrent, IsPrevious
    <3>5. credential.rot \in Nat
      BY SidTypes
    <3>6. ASSUME NEW p \in Requests, Underway(p)', Active(request[p].with)'
          PROVE  /\ credential'.sid = request'[p].with.sid => request'[p].with.rot <= credential'.rot
                 /\ \A r \in Requests :
                       Underway(r)' /\ request'[r].with.sid = request'[p].with.sid
                          => request'[r].with.rot = request'[p].with.rot
      <4>1. CASE p = q
        BY <2>1, <2>2, <2>6, <3>2, <3>5, <4>1
      <4>2. CASE p # q
        <5>1. Active(request[p].with)
          BY <2>1, <3>2, <3>6, <4>2 DEF Active
        <5>2. QED
          BY <2>1, <2>2, <2>6, <3>2, <3>6, <4>2, <5>1 DEF Presentable
      <4>3. QED
        BY <4>1, <4>2
    <3>7. QED
      BY <3>1, <3>3, <3>4, <3>6 DEF Presentable
  <2>9. Newest'
    <3>1. \A p \in Requests : ~Granted(p)'
      BY <2>2, <2>5 DEF Granted
    <3>2. \A u \in Tabs : refresh'[u].at # "write"
      BY <2>3, <2>4
    <3>3. QED
      BY <3>1, <3>2 DEF Newest
  <2>10. LoginNew'
    BY <2>1, <2>2, <2>3 DEF LoginNew, Secluded
  <2>11. NeverReplay'
    BY <2>1 DEF NeverReplay
  <2>12. QED
    BY <2>7, <2>8, <2>9, <2>10, <2>11
<1>3. QED
  BY <1>1, <1>2

LEMMA WriteRefreshedKeeps ==
    ASSUME SessionTypes, SessionTypes', Secrets, platform = "native",
           NEW t \in Tabs, WriteRefreshed(t)
    PROVE  Secrets'
<1> USE DEF Secrets
<1> DEFINE c == refresh[t].got
<1>1. /\ credential' = c /\ UNCHANGED <<row, request, login>> /\ refresh[t].at = "write"
      /\ refresh' = [refresh EXCEPT ![t] = [@ EXCEPT !.at = "apply"]]
  BY DEF WriteRefreshed, Keep
<1>2. /\ \A u \in Tabs : refresh'[u].got = refresh[u].got
      /\ \A u \in Tabs : refresh'[u].at = "write" => refresh[u].at = "write"
  BY <1>1 DEF SessionTypes, RefreshTypes, Operation
<1>3. Latest(c) /\ c \in Credentials /\ c.rot \in Nat
  BY <1>1, SidTypes DEF Newest
<1>4. AllKnown'
  BY <1>1, <1>2 DEF AllKnown, Known
<1>5. Presentable'
  <2>1. Near(credential)'
    BY <1>1, <1>3 DEF Latest, Near, Active, IsCurrent
  <2>2. \A p \in Requests : Underway(p) => Near(request[p].with)'
    BY <1>1 DEF Presentable, Near, Active, IsCurrent, IsPrevious
  <2>3. ASSUME NEW p \in Requests, Underway(p), Active(request[p].with), c.sid = request[p].with.sid
        PROVE  request[p].with.rot <= c.rot
    <3>1. request[p].with.rot < c.rot
      BY <1>3, <2>3 DEF Latest, Active
    <3>2. QED
      BY <1>3, <3>1, SidTypes
  <2>4. QED
    BY <1>1, <2>1, <2>2, <2>3 DEF Presentable, Underway, Active
<1>6. Newest'
  BY <1>1, <1>2 DEF Newest, Granted, Latest, Active, IsCurrent, Underway
<1>7. LoginNew'
  BY <1>1, <1>2 DEF LoginNew, Secluded
<1>8. NeverReplay'
  BY <1>1 DEF NeverReplay
<1>9. QED
  BY <1>4, <1>5, <1>6, <1>7, <1>8

LEMMA LoginAnsweredKeeps ==
    ASSUME SessionTypes, SessionTypes', Untouched, Secrets, platform = "native",
           NEW t \in Tabs, LoginAnswered(t)
    PROVE  Secrets'
<1> USE DEF Secrets
<1>1. PICK s \in Sessions :
         /\ row[s].state = "unused"
         /\ row' = [row EXCEPT ![s] = [@ EXCEPT !.state = "active"]]
         /\ login' = [login EXCEPT ![t] = [Idle EXCEPT !.at = "write", !.got = Secret(s, 0)]]
         /\ UNCHANGED <<credential, refresh, request>>
  BY DEF LoginAnswered
<1>2. /\ row'[s].state = "active" /\ row'[s].rot = 0 /\ s # None
      /\ \A r \in Sessions \ {s} : row'[r] = row[r]
  BY <1>1, SessionConstants DEF SessionTypes, RowTypes, Untouched
<1>3. /\ login'[t].at = "write" /\ login'[t].got = Secret(s, 0)
      /\ Secret(s, 0).sid = s /\ Secret(s, 0).rot = 0
      /\ \A u \in Tabs \ {t} : login'[u] = login[u]
  BY <1>1 DEF SessionTypes, LoginTypes, Idle, Secret
<1>4. /\ credential.sid # s
      /\ \A q \in Requests : request[q].with.sid # s /\ request[q].new.sid # s
      /\ \A u \in Tabs : refresh[u].got.sid # s /\ login[u].got.sid # s
  BY <1>1, <1>2 DEF AllKnown, Known
<1>5. ASSUME NEW c \in Credentials, c.sid # s
      PROVE  /\ Known(c)' <=> Known(c)
             /\ Near(c)' <=> Near(c)
             /\ Latest(c)' <=> Latest(c)
             /\ Active(c)' <=> Active(c)
  <2>1. c.sid # None => row'[c.sid] = row[c.sid]
    BY <1>2, <1>5, SidTypes
  <2>2. QED
    BY <1>1, <2>1 DEF Known, Near, Latest, Active, IsCurrent, IsPrevious, Underway
<1>6. AllKnown'
  <2>1. Known(credential)' /\ \A q \in Requests : Known(request[q].with)' /\ Known(request[q].new)'
    BY <1>1, <1>4, <1>5, SidTypes DEF AllKnown, Known
  <2>2. \A u \in Tabs : Known(refresh[u].got)'
    BY <1>1, <1>4, <1>5, SidTypes DEF AllKnown, Known
  <2>3. \A u \in Tabs \ {t} : Known(login[u].got)'
    BY <1>3, <1>4, <1>5, SidTypes DEF AllKnown, Known
  <2>4. Known(login[t].got)'
    BY <1>2, <1>3 DEF Known
  <2>5. QED
    BY <2>1, <2>2, <2>3, <2>4 DEF AllKnown
<1>7. Presentable'
  <2>1. Near(credential)'
    BY <1>1, <1>4, <1>5, SidTypes DEF Presentable, Near, Active, IsCurrent, IsPrevious
  <2>2. \A q \in Requests : Underway(q)' => Underway(q) /\ Near(request[q].with)'
    BY <1>1, <1>4, <1>5, SidTypes DEF Presentable, Near, Active, IsCurrent, IsPrevious, Underway
  <2>3. \A q \in Requests : Active(request[q].with)' => Active(request[q].with)
    BY <1>1, <1>4, <1>5, SidTypes DEF Active
  <2>4. QED
    BY <1>1, <2>1, <2>2, <2>3 DEF Presentable, Underway
<1>8. Newest'
  <2>1. \A q \in Requests : Granted(q)' => Latest(request[q].new)'
    BY <1>1, <1>4, <1>5, SidTypes DEF Newest, Granted, Latest, Active, IsCurrent
  <2>2. \A u \in Tabs : refresh'[u].at = "write" => Latest(refresh[u].got)'
    BY <1>1, <1>4, <1>5, SidTypes DEF Newest, Latest, Active, IsCurrent
  <2>3. QED
    BY <2>1, <2>2 DEF Newest
<1>9. LoginNew'
  <2>1. Secluded(s)'
    BY <1>1, <1>4 DEF Secluded
  <2>2. \A u \in Tabs \ {t} : login[u].at = "write" => row'[login[u].got.sid].rot = 0
    BY <1>2, <1>4, SidTypes DEF LoginNew
  <2>3. \A u \in Tabs \ {t} : login[u].at = "write" => Secluded(login[u].got.sid)'
    BY <1>1, <1>3 DEF LoginNew, Secluded
  <2>4. QED
    BY <1>2, <1>3, <2>1, <2>2, <2>3 DEF LoginNew, Secluded
<1>10. NeverReplay'
  BY <1>2 DEF NeverReplay
<1>11. QED
  BY <1>6, <1>7, <1>8, <1>9, <1>10

LEMMA WriteLoginKeeps ==
    ASSUME SessionTypes, SessionTypes', Shape, Secrets, platform = "native",
           NEW t \in Tabs, WriteLogin(t)
    PROVE  Secrets'
<1> USE DEF Secrets
<1> DEFINE c == login[t].got
<1>1. /\ credential' = c /\ UNCHANGED <<row, request, refresh, tab>> /\ login[t].at = "write"
      /\ login' = [login EXCEPT ![t] = [@ EXCEPT !.at = "apply"]]
  BY DEF WriteLogin, Keep
<1>2. /\ \A u \in Tabs : login'[u].got = login[u].got
      /\ \A u \in Tabs : login'[u].at # "write"
  <2>1. login'[t].at = "apply" /\ \A u \in Tabs : login'[u].got = login[u].got
    BY <1>1 DEF SessionTypes, LoginTypes, Operation
  <2>2. \A u \in Tabs \ {t} : login'[u] = login[u] /\ login[u].at = "idle"
    BY <1>1 DEF SessionTypes, LoginTypes, Shape, OneUp, Down
  <2>3. QED
    BY <2>1, <2>2
<1>3. c.rot = 0 /\ row[c.sid].rot = 0 /\ Secluded(c.sid)
  BY <1>1 DEF LoginNew
<1>4. AllKnown'
  BY <1>1, <1>2 DEF AllKnown, Known
<1>5. Presentable'
  <2>1. Near(credential)'
    BY <1>1, <1>3 DEF Near, Active, IsCurrent
  <2>2. \A p \in Requests : Underway(p) => Near(request[p].with)' /\ request[p].with.sid # c.sid
    BY <1>1, <1>3 DEF Presentable, Near, Active, IsCurrent, IsPrevious, Secluded
  <2>3. QED
    BY <1>1, <2>1, <2>2 DEF Presentable, Underway, Active
<1>6. Newest'
  BY <1>1 DEF Newest, Granted, Latest, Active, IsCurrent, Underway
<1>7. LoginNew'
  BY <1>2 DEF LoginNew
<1>8. NeverReplay'
  BY <1>1 DEF NeverReplay
<1>9. QED
  BY <1>4, <1>5, <1>6, <1>7, <1>8

-----------------------------------------------------------------------------

SessionInv == SessionTypes /\ Shape /\ Untouched /\ Awaited /\ NativeSecrets

LEMMA SecretsStep ==
    ASSUME SessionInv, [SessionNext]_sessionVars, SessionTypes'
    PROVE  NativeSecrets'
<1> USE DEF SessionInv
<1>1. SUFFICES ASSUME platform' = "native" PROVE Secrets'
  BY DEF NativeSecrets
<1>2. platform = "native"
  BY <1>1 DEF SessionNext, sessionVars, Inspect, Rotate, RequestFails, Load, Close, Refused,
              BeginRefresh, BreakOff, ExpireRefused, WriteRefreshed, ApplyRefreshed, BeginLogin,
              LoginAnswered, WriteLogin, ApplyLogin, BeginSignOut, Notify, FinishSignOut, Receive
<1>3. Secrets
  BY <1>2 DEF NativeSecrets
<1>4. ASSUME NEW q \in Requests, Inspect(q) \/ RequestFails(q)
      PROVE  Secrets'
  BY <1>2, <1>3, <1>4, QuietSteps, FadeKeeps
<1>5. ASSUME NEW q \in Requests, Rotate(q)
      PROVE  Secrets'
  BY <1>3, <1>5, RotateKeeps
<1>6. ASSUME NEW t \in Tabs,
             Load(t) \/ Close(t) \/ Refused(t) \/ BreakOff(t) \/ ExpireRefused(t)
             \/ ApplyRefreshed(t) \/ BeginLogin(t) \/ ApplyLogin(t) \/ BeginSignOut(t)
             \/ Notify(t) \/ FinishSignOut(t)
      PROVE  Secrets'
  BY <1>2, <1>3, <1>6, QuietSteps, FadeKeeps
<1>7. ASSUME NEW t \in Tabs, NEW q \in Requests, Receive(t, q)
      PROVE  Secrets'
  BY <1>2, <1>3, <1>7, QuietSteps, FadeKeeps
<1>8. ASSUME NEW t \in Tabs, BeginRefresh(t)
      PROVE  Secrets'
  BY <1>2, <1>3, <1>8, BeginRefreshKeeps
<1>9. ASSUME NEW t \in Tabs, WriteRefreshed(t) \/ LoginAnswered(t) \/ WriteLogin(t)
      PROVE  Secrets'
  BY <1>2, <1>3, <1>9, WriteRefreshedKeeps, LoginAnsweredKeeps, WriteLoginKeeps
<1>10. CASE UNCHANGED sessionVars
  <2>1. SecretsFade
    BY <1>3, <1>10, SameFades DEF sessionVars, SecretsFade, Secrets
  <2>2. QED
    BY <1>3, <2>1, FadeKeeps
<1>11. QED
  BY <1>4, <1>5, <1>6, <1>7, <1>8, <1>9, <1>10 DEF SessionNext

LEMMA SecretsInit == SessionInit => Untouched /\ Awaited /\ NativeSecrets
BY DEF SessionInit, Untouched, Awaited, NativeSecrets, Secrets, AllKnown, Known, Presentable,
       Near, Active, Underway, Newest, Granted, LoginNew, NeverReplay, NoRequest, Idle,
       NoCredential, Secret

\* A native application's refreshes are never taken for a replay of a secret.
THEOREM NeverTakenForReplayHolds == SessionSpec => []NeverTakenForReplay
<1>1. SessionInit => SessionInv
  BY TypeInit, ShapeInit, SecretsInit DEF SessionInv
<1>2. SessionInv /\ [SessionNext]_sessionVars => SessionInv'
  BY TypeStep, ShapeStep, RestStep, SecretsStep DEF SessionInv
<1>3. SessionInv => NeverTakenForReplay
  BY DEF SessionInv, NativeSecrets, Secrets, NeverReplay, NeverTakenForReplay
<1>4. QED
  BY <1>1, <1>2, <1>3, PTL DEF SessionSpec
=============================================================================
