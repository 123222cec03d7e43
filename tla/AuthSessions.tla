---------------------------- MODULE AuthSessions ----------------------------
(* An account's sessions: the server's rows with their rotating refresh      *)
(* secrets (session.service.ts, auth.service.ts, auth.controller.ts) and the *)
(* application that keeps a refresh credential (authStore.ts).  A native     *)
(* application is one process and its vault; in a browser every tab is an    *)
(* application of its own and the cookie is shared.                          *)
(*                                                                           *)
(* A refresh secret is the number of rotations before it: a row at rotation  *)
(* n accepts n, the current secret, and n - 1, the previous one.             *)
EXTENDS Naturals, FiniteSets

CONSTANTS
    Tabs,           \* the browser's tabs, or the starts of a native application
    Requests,       \* room for refresh requests under way
    Sessions,       \* session IDs
    MaxRefreshes,   \* bound: refreshes begun
    MaxAccidents    \* bound: failures, broken connections and closed tabs

None == "none"

ASSUME SessionConstants ==
    /\ None \notin Sessions /\ None \notin Tabs /\ None \notin Requests
    /\ MaxRefreshes \in Nat /\ MaxAccidents \in Nat

VARIABLES
    platform,   \* "native" or "web"
    row,        \* [Sessions -> [rot, state]]
    credential, \* the vault's refresh token, or the cookie's
    flag,       \* localStorage: the user explicitly signed out
    tab,        \* [Tabs -> [up, auth, out, leaving]]
    refresh,    \* [Tabs -> refreshInFlight]
    login,      \* [Tabs -> a login under way]
    request,    \* [Requests -> a POST /sessions/refresh under way]
    begun, accidents

sessionVars ==
    <<platform, row, credential, flag, tab, refresh, login, request, begun, accidents>>

-----------------------------------------------------------------------------
(* The server's row *)

Secret(s, n) == [sid |-> s, rot |-> n]

NoCredential == Secret(None, 0)

IsCurrent(c) == c.rot = row[c.sid].rot

\* Mutant: a rotation forgets the secret before it.
IsPreviousNever(c) == FALSE

\* previousRefreshTokenHash: expiresAt moves on with every rotation, so it
\* lapses no earlier than the session does.
IsPrevious(c) == c.rot + 1 = row[c.sid].rot

Active(c) == c.sid # None /\ row[c.sid].state = "active"

Revoke(s, reason) ==
    row' = [row EXCEPT ![s] =
               [rot |-> @.rot, state |-> IF @.state = "active" THEN reason ELSE @.state]]

RotateRow(s) == row' = [row EXCEPT ![s] = [rot |-> row[s].rot + 1, state |-> "active"]]

-----------------------------------------------------------------------------
(* A refresh request, from fetch to answer *)

\* answer: "ok" with the credential that is current after it, "401", or "error".
NoRequest == [at |-> "free", by |-> None, with |-> NoCredential, answer |-> None,
              new |-> NoCredential]

\* Which room a request takes makes no difference.
SomeRoom == CHOOSE q \in Requests : request[q].at = "free"

\* An answer nobody waits for is dropped with its connection.
Answer(q, kind, c) ==
    request' = [request EXCEPT ![q] =
        IF @.by = None THEN NoRequest
        ELSE [@ EXCEPT !.at = "answered", !.answer = kind, !.new = c]]

Abandoned(t) ==
    [q \in Requests |->
        IF request[q].by # t THEN request[q]
        ELSE IF request[q].at = "answered" THEN NoRequest
        ELSE [request[q] EXCEPT !.by = None]]

\* getRefreshSessionUserId: a first transaction that finds the account.
Inspect(q) ==
    /\ request[q].at = "inspect"
    /\ LET c == request[q].with
       IN  \/ /\ Active(c) /\ (IsCurrent(c) \/ IsPrevious(c))
              /\ request' = [request EXCEPT ![q] = [@ EXCEPT !.at = "rotate"]]
              /\ UNCHANGED row
           \/ /\ Active(c) /\ ~(IsCurrent(c) \/ IsPrevious(c))
              /\ Revoke(c.sid, "replay")
              /\ Answer(q, "401", NoCredential)
           \/ /\ ~Active(c)
              /\ Answer(q, "401", NoCredential)
              /\ UNCHANGED row
    /\ UNCHANGED <<platform, credential, flag, tab, refresh, login, begun, accidents>>

\* refreshSession: a second transaction that locks the row and looks again.
Rotate(q) ==
    /\ request[q].at = "rotate"
    /\ LET c == request[q].with
       IN  \/ /\ Active(c) /\ IsCurrent(c)
              /\ RotateRow(c.sid)
              /\ Answer(q, "ok", Secret(c.sid, c.rot + 1))
           \/ /\ Active(c) /\ IsPrevious(c)
              /\ Answer(q, "ok", Secret(c.sid, row[c.sid].rot))
              /\ UNCHANGED row
           \/ /\ Active(c) /\ ~(IsCurrent(c) \/ IsPrevious(c))
              /\ Revoke(c.sid, "replay")
              /\ Answer(q, "401", NoCredential)
           \/ /\ ~Active(c)
              /\ Answer(q, "401", NoCredential)
              /\ UNCHANGED row
    /\ UNCHANGED <<platform, credential, flag, tab, refresh, login, begun, accidents>>

\* The server or a dependency of it fails before a transaction commits.
RequestFails(q) ==
    /\ request[q].at \in {"inspect", "rotate"} /\ accidents < MaxAccidents
    /\ Answer(q, "error", NoCredential)
    /\ accidents' = accidents + 1
    /\ UNCHANGED <<platform, row, credential, flag, tab, refresh, login, begun>>

-----------------------------------------------------------------------------
(* The application *)

Idle == [at |-> "idle", fresh |-> TRUE, got |-> NoCredential]

\* fresh: sessionEpoch is what it was when the operation noted it.
Outdate(op) == [op EXCEPT !.fresh = FALSE]

NoTab == [up |-> FALSE, auth |-> None, out |-> FALSE, leaving |-> None]

\* A vault has one process; a browser has as many as the user opens.
Load(t) ==
    /\ ~tab[t].up
    /\ platform = "native" => \A u \in Tabs : ~tab[u].up
    /\ tab' = [tab EXCEPT ![t] = [NoTab EXCEPT !.up = TRUE, !.out = flag]]
    /\ UNCHANGED <<platform, row, credential, flag, refresh, login, request, begun, accidents>>

\* Closed, reloaded or killed: what it had asked for goes on at the server.
Close(t) ==
    /\ tab[t].up /\ accidents < MaxAccidents
    /\ tab' = [tab EXCEPT ![t] = NoTab]
    /\ refresh' = [refresh EXCEPT ![t] = Idle]
    /\ login' = [login EXCEPT ![t] = Idle]
    /\ request' = Abandoned(t)
    /\ accidents' = accidents + 1
    /\ UNCHANGED <<platform, row, credential, flag, begun>>

\* expireSession: the epoch moves on and the account is gone from memory.
Expire(t) ==
    /\ tab' = [tab EXCEPT ![t] = [@ EXCEPT !.auth = None]]
    /\ login' = [login EXCEPT ![t] = Outdate(@)]

\* The action gateway, or an API call retried after a refresh, answers 401.
Refused(t) ==
    /\ tab[t].up /\ tab[t].auth # None
    /\ Expire(t)
    /\ refresh' = [refresh EXCEPT ![t] = Outdate(@)]
    /\ UNCHANGED <<platform, row, credential, flag, request, begun, accidents>>

\* What is assumed of the network: a request that has outlived its sender is
\* settled before a later secret of its session is presented.
Settled ==
    \A q \in Requests :
        (request[q].at # "free" /\ request[q].with.sid = credential.sid)
            => request[q].with = credential

\* refreshSession: at the start, by its timer, after a failure, after a 401.
BeginRefresh(t) ==
    /\ tab[t].up /\ tab[t].leaving = None /\ ~tab[t].out
    /\ refresh[t].at = "idle" /\ begun < MaxRefreshes
    /\ begun' = begun + 1
    /\ \/ /\ credential = NoCredential /\ platform = "native"
          /\ Expire(t)
          /\ UNCHANGED <<refresh, request>>
       \/ /\ credential # NoCredential \/ platform = "web"
          /\ platform = "native" => Settled
          /\ \E q \in Requests :
                /\ request[q].at = "free" /\ q = SomeRoom
                /\ request' = [request EXCEPT ![q] =
                       [NoRequest EXCEPT !.at = "inspect", !.by = t, !.with = credential]]
          /\ refresh' = [refresh EXCEPT ![t] = [Idle EXCEPT !.at = "sent"]]
          /\ UNCHANGED <<tab, login>>
    /\ UNCHANGED <<platform, row, credential, flag, accidents>>

\* The connection breaks; the request is at the server or never gets there.
BreakOff(t) ==
    /\ refresh[t].at = "sent" /\ accidents < MaxAccidents
    /\ refresh' = [refresh EXCEPT ![t] = Idle]
    /\ request' = Abandoned(t)
    /\ accidents' = accidents + 1
    /\ UNCHANGED <<platform, row, credential, flag, tab, login, begun>>

\* The browser keeps a cookie before any script sees the answer; a 401 that
\* is not outdated deletes the vault's entry.
Receive(t, q) ==
    /\ refresh[t].at = "sent" /\ request[q].by = t /\ request[q].at = "answered"
    /\ request' = [request EXCEPT ![q] = NoRequest]
    /\ LET a == request[q]
       IN  /\ credential' =
                IF platform = "web" /\ a.answer = "ok" THEN a.new
                ELSE IF platform = "native" /\ a.answer = "401" /\ refresh[t].fresh
                     THEN NoCredential
                ELSE credential
           /\ refresh' = [refresh EXCEPT ![t] =
                IF ~@.fresh \/ a.answer = "error" THEN Idle
                ELSE IF a.answer = "ok" THEN [@ EXCEPT !.at = "write", !.got = a.new]
                ELSE [@ EXCEPT !.at = "expire"]]
    /\ UNCHANGED <<platform, row, flag, tab, login, begun, accidents>>

\* The end of a refresh whose credential was refused.
ExpireRefused(t) ==
    /\ refresh[t].at = "expire"
    /\ Expire(t)
    /\ refresh' = [refresh EXCEPT ![t] = Idle]
    /\ UNCHANGED <<platform, row, credential, flag, request, begun, accidents>>

\* acceptSession, before and after writeNativeRefreshToken: the vault is
\* written whatever the epoch, memory only if the epoch still is the same.
Keep(got) == credential' = IF platform = "native" THEN got ELSE credential

\* Mutant: the epoch is not looked at again after the vault's write.
TakeOnAnyway(t, op) ==
    /\ tab' = [tab EXCEPT ![t] = [@ EXCEPT !.auth = op.got.sid, !.out = FALSE]]
    /\ flag' = FALSE

TakeOn(t, op) ==
    IF op.fresh
    THEN /\ tab' = [tab EXCEPT ![t] = [@ EXCEPT !.auth = op.got.sid, !.out = FALSE]]
         /\ flag' = FALSE
    ELSE UNCHANGED <<tab, flag>>

WriteRefreshed(t) ==
    /\ refresh[t].at = "write"
    /\ Keep(refresh[t].got)
    /\ refresh' = [refresh EXCEPT ![t] = [@ EXCEPT !.at = "apply"]]
    /\ UNCHANGED <<platform, row, flag, tab, login, request, begun, accidents>>

ApplyRefreshed(t) ==
    /\ refresh[t].at = "apply"
    /\ TakeOn(t, refresh[t])
    /\ refresh' = [refresh EXCEPT ![t] = Idle]
    /\ UNCHANGED <<platform, row, credential, login, request, begun, accidents>>

\* The login page: POST /sessions, of an account that is known.
BeginLogin(t) ==
    /\ tab[t].up /\ tab[t].auth = None /\ tab[t].leaving = None
    /\ login[t].at = "idle"
    /\ login' = [login EXCEPT ![t] = [Idle EXCEPT !.at = "sent"]]
    /\ UNCHANGED <<platform, row, credential, flag, tab, refresh, request, begun, accidents>>

\* createSession, and the answer: the epoch is noted when it has come.
LoginAnswered(t) ==
    /\ login[t].at = "sent"
    /\ \E s \in Sessions :
          /\ row[s].state = "unused"
          /\ row' = [row EXCEPT ![s] = [@ EXCEPT !.state = "active"]]
          /\ login' = [login EXCEPT ![t] = [Idle EXCEPT !.at = "write", !.got = Secret(s, 0)]]
          /\ credential' = IF platform = "web" THEN Secret(s, 0) ELSE credential
    /\ UNCHANGED <<platform, flag, tab, refresh, request, begun, accidents>>

WriteLogin(t) ==
    /\ login[t].at = "write"
    /\ Keep(login[t].got)
    /\ login' = [login EXCEPT ![t] = [@ EXCEPT !.at = "apply"]]
    /\ UNCHANGED <<platform, row, flag, tab, refresh, request, begun, accidents>>

ApplyLogin(t) ==
    /\ login[t].at = "apply"
    /\ TakeOn(t, login[t])
    /\ login' = [login EXCEPT ![t] = Idle]
    /\ UNCHANGED <<platform, row, credential, refresh, request, begun, accidents>>

\* signOut: leaving is the access token's session while it runs.
BeginSignOut(t) ==
    /\ tab[t].up /\ tab[t].auth # None /\ tab[t].leaving = None
    /\ tab' = [tab EXCEPT ![t] = [@ EXCEPT !.out = TRUE, !.leaving = tab[t].auth]]
    /\ flag' = TRUE
    /\ refresh' = [refresh EXCEPT ![t] = Outdate(@)]
    /\ login' = [login EXCEPT ![t] = Outdate(@)]
    /\ UNCHANGED <<platform, row, credential, request, begun, accidents>>

\* DELETE /sessions/current: the access token's session is revoked, and then
\* that of the cookie, which the answer clears.  The request or its answer may
\* be lost, or the second of them fail; a token whose session is revoked
\* already is answered 401.
CookieSession == IF platform = "web" /\ Active(credential) THEN {credential.sid} ELSE {}

LoggedOut(S) ==
    row' = [s \in Sessions |->
               IF s \in S /\ row[s].state = "active"
               THEN [row[s] EXCEPT !.state = "logout"] ELSE row[s]]

Notify(t) ==
    /\ tab[t].leaving \in Sessions
    /\ tab' = [tab EXCEPT ![t] = [@ EXCEPT !.leaving = "forget"]]
    /\ \/ /\ row[tab[t].leaving].state = "active"
          /\ LoggedOut({tab[t].leaving} \cup CookieSession)
          /\ credential' = IF platform = "web" THEN NoCredential ELSE credential
          /\ UNCHANGED accidents
       \/ /\ row[tab[t].leaving].state # "active"
          /\ UNCHANGED <<row, credential, accidents>>
       \/ /\ accidents < MaxAccidents
          /\ accidents' = accidents + 1
          /\ \/ /\ row[tab[t].leaving].state = "active"
                /\ \E S \in {{}, CookieSession} : LoggedOut({tab[t].leaving} \cup S)
             \/ UNCHANGED row
          /\ UNCHANGED credential
    /\ UNCHANGED <<platform, flag, refresh, login, request, begun>>

\* await refreshInFlight, then the vault's entry is deleted, then memory.
FinishSignOut(t) ==
    /\ tab[t].leaving = "forget" /\ refresh[t].at = "idle"
    /\ credential' = IF platform = "native" THEN NoCredential ELSE credential
    /\ tab' = [tab EXCEPT ![t] = [@ EXCEPT !.auth = None, !.out = TRUE, !.leaving = None]]
    /\ flag' = TRUE
    /\ UNCHANGED <<platform, row, refresh, login, request, begun, accidents>>

-----------------------------------------------------------------------------

SessionInit ==
    /\ platform \in {"native", "web"}
    /\ row = [s \in Sessions |-> [rot |-> 0, state |-> "unused"]]
    /\ credential = NoCredential
    /\ flag = FALSE
    /\ tab = [t \in Tabs |-> NoTab]
    /\ refresh = [t \in Tabs |-> Idle]
    /\ login = [t \in Tabs |-> Idle]
    /\ request = [q \in Requests |-> NoRequest]
    /\ begun = 0 /\ accidents = 0

SessionNext ==
    \/ \E q \in Requests : Inspect(q) \/ Rotate(q) \/ RequestFails(q)
    \/ \E t \in Tabs :
          \/ Load(t) \/ Close(t) \/ Refused(t)
          \/ BeginRefresh(t) \/ BreakOff(t) \/ ExpireRefused(t)
          \/ WriteRefreshed(t) \/ ApplyRefreshed(t)
          \/ BeginLogin(t) \/ LoginAnswered(t) \/ WriteLogin(t) \/ ApplyLogin(t)
          \/ BeginSignOut(t) \/ Notify(t) \/ FinishSignOut(t)
          \/ \E q \in Requests : Receive(t, q)

SessionSpec == SessionInit /\ [][SessionNext]_sessionVars

-----------------------------------------------------------------------------
(* Properties *)

Credentials == [sid : Sessions \cup {None}, rot : Nat]

Operation(at) == [at : at, fresh : BOOLEAN, got : Credentials]

RowTypes ==
    row \in [Sessions -> [rot : Nat, state : {"unused", "active", "replay", "logout"}]]

ClientTypes ==
    /\ platform \in {"native", "web"}
    /\ credential \in Credentials
    /\ flag \in BOOLEAN
    /\ begun \in Nat /\ accidents \in Nat

TabTypes ==
    tab \in [Tabs -> [up : BOOLEAN, auth : Sessions \cup {None}, out : BOOLEAN,
                     leaving : Sessions \cup {None, "forget"}]]

RefreshTypes == refresh \in [Tabs -> Operation({"idle", "sent", "write", "apply", "expire"})]

LoginTypes == login \in [Tabs -> Operation({"idle", "sent", "write", "apply"})]

RequestTypes ==
    request \in [Requests -> [at : {"free", "inspect", "rotate", "answered"},
                             by : Tabs \cup {None}, with : Credentials,
                             answer : {None, "ok", "401", "error"}, new : Credentials]]

SessionTypes ==
    /\ RowTypes /\ ClientTypes /\ TabTypes
    /\ RefreshTypes /\ LoginTypes /\ RequestTypes

\* A native application is never taken for someone who replays a secret:
\* whichever answers are lost and wherever it is killed between the rotation
\* and the vault's write, what it presents next is current or previous.
NeverTakenForReplay ==
    platform = "native" => \A s \in Sessions : row[s].state # "replay"

\* Once the user has signed out, a process is signed in again by a login and by
\* nothing that was under way: no refresh brings the account back.
OnlyLoginReturns ==
    [][\A t \in Tabs :
          tab[t].out /\ tab'[t].up /\ ~tab'[t].out => login[t].at = "apply" /\ login[t].fresh]_sessionVars
=============================================================================
