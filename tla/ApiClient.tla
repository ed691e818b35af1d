----------------------------- MODULE ApiClient -----------------------------
(***************************************************************************)
(* The mobile app's API client, with the server's sessions.  A request     *)
(* whose access token is refused starts one refresh for all: while         *)
(* isRefreshing is set, other refused requests wait in failedQueue.        *)
(*                                                                         *)
(* One step is one callback: the request interceptor, the answer of a      *)
(* request, of the refresh or of the login, or a tap on sign in or out.    *)
(***************************************************************************)
EXTENDS Sessions

CONSTANTS
  Requests,     \* the calls the app's screens make, each once
  DeviceOf,     \* the device a call is made on
  FirstUser,    \* the user every device starts signed in as
  MaxDisturbances  \* bound on lost answers, sign-outs and changes of a user

ASSUME ClientAssumption ==
  /\ DeviceOf \in [Requests -> Devices]
  /\ FirstUser \in Users
  /\ MaxDisturbances \in Nat

VARIABLES
  user,          \* useAuthStore: user (and isLoggedIn)
  pair,          \* useAuthStore: token and refreshToken
  isRefreshing,
  request,       \* how far each call has come
  sent,          \* the token each call carries, until it is settled
  retried,       \* originalRequest._retry
  disturbances,  \* lost answers, sign-outs and changes of a user so far
  excused        \* history: the device may lose its session (see below)

clientVars == <<user, pair, isRefreshing, request, sent, retried, disturbances, excused>>
vars == <<serverVars, clientVars>>

Requesting == {"sent", "accepted", "refused", "queued", "refreshing"}
RequestStates == Requesting \cup {"idle", "done"}

(* Every device starts with a session of its own, as after a sign-in: the  *)
(* first one's is the only one the table has kept.                         *)
Init ==
  /\ now = 0
  /\ version = [u \in Users |-> 1]
  /\ active = [u \in Users |-> TRUE]
  /\ call = [d \in Devices |-> [k \in Kinds |-> NoCall]]
  /\ \E d \in Devices :
       /\ user = [e \in Devices |-> IF e = d THEN FirstUser ELSE None]
       /\ pair = [e \in Devices |-> IF e = d THEN [user |-> FirstUser, version |-> 1, iat |-> 0]
                                    ELSE None]
       /\ excused = [e \in Devices |-> e # d]
  /\ stored = {[user |-> FirstUser, version |-> 1, iat |-> 0]}
  /\ isRefreshing = [d \in Devices |-> FALSE]
  /\ request = [q \in Requests |-> "idle"]
  /\ sent = [q \in Requests |-> None]
  /\ retried = [q \in Requests |-> FALSE]
  /\ disturbances = 0

On(d) == {q \in Requests : DeviceOf[q] = d}
Queue(d) == {q \in On(d) : request[q] = "queued"}

-----------------------------------------------------------------------------
(* Calls of the screens.                                                   *)

(* The request interceptor attaches the token of the store.  Screens that  *)
(* call the API are mounted only while a user is signed in.                *)
Send(q) ==
  LET d == DeviceOf[q] IN
  /\ request[q] = "idle"
  /\ user[d] # None
  /\ request' = [request EXCEPT ![q] = "sent"]
  /\ sent' = [sent EXCEPT ![q] = pair[d]]
  /\ UNCHANGED <<serverVars, user, pair, isRefreshing, retried, disturbances, excused>>

Done(q) ==
  /\ request' = [request EXCEPT ![q] = "done"]
  /\ sent' = [sent EXCEPT ![q] = None]

(* protect lets the call through to its handler or answers 401, or the     *)
(* connection fails and with it axios-retry.                               *)
Answer(q) ==
  /\ request[q] = "sent"
  /\ \/ /\ request' = [request EXCEPT ![q] = IF Protect(sent[q]) THEN "accepted" ELSE "refused"]
        /\ UNCHANGED sent
     \/ Done(q)
  /\ UNCHANGED <<serverVars, user, pair, isRefreshing, retried, disturbances, excused>>

ReceiveAccepted(q) ==
  /\ request[q] = "accepted"
  /\ Done(q)
  /\ UNCHANGED <<serverVars, user, pair, isRefreshing, retried, disturbances, excused>>

Disturb ==
  /\ disturbances < MaxDisturbances
  /\ disturbances' = disturbances + 1

SignedOut(d) ==
  /\ user' = [user EXCEPT ![d] = None]
  /\ pair' = [pair EXCEPT ![d] = None]

(* Mutant: no single flight, every refused call refreshes by itself.       *)
ReceiveRefusedAlone(q) ==
  LET d == DeviceOf[q] IN
  /\ request[q] = "refused"
  /\ ~retried[q] /\ pair[d] # None
  /\ retried' = [retried EXCEPT ![q] = TRUE]
  /\ request' = [request EXCEPT ![q] = "refreshing"]
  /\ call' = [call EXCEPT ![d]["refresh"] =
               [step |-> "find", user |-> pair[d].user, token |-> pair[d]]]
  /\ UNCHANGED <<now, version, active, stored, user, pair, isRefreshing, sent, disturbances, excused>>

(* The response interceptor on a 401.  Without a refresh token it signs    *)
(* out and returns before the try, so isRefreshing stays set.              *)
ReceiveRefused(q) ==
  LET d == DeviceOf[q] IN
  /\ request[q] = "refused"
  /\ \/ /\ retried[q]
        /\ Done(q)
        /\ UNCHANGED <<call, user, pair, isRefreshing, retried>>
     \/ /\ ~retried[q] /\ isRefreshing[d]
        /\ request' = [request EXCEPT ![q] = "queued"]
        /\ UNCHANGED <<call, user, pair, isRefreshing, sent, retried>>
     \/ /\ ~retried[q] /\ ~isRefreshing[d] /\ pair[d] = None
        /\ retried' = [retried EXCEPT ![q] = TRUE]
        /\ isRefreshing' = [isRefreshing EXCEPT ![d] = TRUE]
        /\ SignedOut(d)
        /\ Done(q)
        /\ UNCHANGED call
     \/ /\ ~retried[q] /\ ~isRefreshing[d] /\ pair[d] # None
        /\ retried' = [retried EXCEPT ![q] = TRUE]
        /\ isRefreshing' = [isRefreshing EXCEPT ![d] = TRUE]
        /\ request' = [request EXCEPT ![q] = "refreshing"]
        /\ call' = [call EXCEPT ![d]["refresh"] =
                     [step |-> "find", user |-> pair[d].user, token |-> pair[d]]]
        /\ UNCHANGED <<user, pair, sent>>
  /\ UNCHANGED <<now, version, active, stored, disturbances, excused>>

-----------------------------------------------------------------------------
(* The answer of a refresh, at the call that started it.                   *)

Answered(d, k) == [call EXCEPT ![d][k] = NoCall]

(* setTokens, processQueue(null, newToken) and the repeated calls.         *)
RefreshOk(d) ==
  LET t == call[d]["refresh"].token
      again == {q \in On(d) : request[q] \in {"queued", "refreshing"}}
  IN
  /\ call[d]["refresh"].step = "ok"
  /\ call' = Answered(d, "refresh")
  /\ pair' = [pair EXCEPT ![d] = t]
  /\ request' = [q \in Requests |-> IF q \in again THEN "sent" ELSE request[q]]
  /\ sent' = [q \in Requests |-> IF q \in again THEN t ELSE sent[q]]
  /\ isRefreshing' = [isRefreshing EXCEPT ![d] = FALSE]
  /\ UNCHANGED <<now, version, active, stored, user, retried, disturbances, excused>>

(* Mutant: a failed refresh rejects its own call only.                     *)
RefreshFailForgetsQueue(d) ==
  /\ call[d]["refresh"].step = "fail"
  /\ call' = Answered(d, "refresh")
  /\ SignedOut(d)
  /\ request' = [q \in Requests |->
                  IF q \in On(d) /\ request[q] = "refreshing" THEN "done" ELSE request[q]]
  /\ isRefreshing' = [isRefreshing EXCEPT ![d] = FALSE]
  /\ UNCHANGED <<now, version, active, stored, sent, retried, disturbances, excused>>

(* processQueue(refreshError): every waiting call is rejected; sign out.   *)
RefreshFail(d) ==
  LET rejected == {q \in On(d) : request[q] \in {"queued", "refreshing"}} IN
  /\ call[d]["refresh"].step = "fail"
  /\ call' = Answered(d, "refresh")
  /\ SignedOut(d)
  /\ request' = [q \in Requests |-> IF q \in rejected THEN "done" ELSE request[q]]
  /\ sent' = [q \in Requests |-> IF q \in rejected THEN None ELSE sent[q]]
  /\ isRefreshing' = [isRefreshing EXCEPT ![d] = FALSE]
  /\ UNCHANGED <<now, version, active, stored, retried, disturbances, excused>>

-----------------------------------------------------------------------------
(* Signing in and out.                                                     *)

SignIn(d, u) ==
  /\ user[d] = None
  /\ call[d]["login"] = NoCall
  /\ call' = [call EXCEPT ![d]["login"] = [step |-> "find", user |-> u, token |-> None]]
  /\ UNCHANGED <<now, version, active, stored, clientVars>>

(* Another device has a pair of t's user no older than t, or a call of     *)
(* that user under way that may end in one: signed in the second of one    *)
(* of the device's own pairs it is the same string.                        *)
Rivalled(d, t) ==
  \E e \in Devices \ {d} :
     \/ pair[e] # None /\ pair[e].user = t.user /\ pair[e].iat >= t.iat
     \/ \E k \in Kinds : call[e][k] # NoCall /\ call[e][k].user = t.user

(* The user of t is active and has changed no password since.              *)
Current(t) == active[t.user] /\ version[t.user] = t.version

(* setAuth.  A refresh of the former session may still be under way.       *)
LoginOk(d) ==
  /\ call[d]["login"].step = "ok"
  /\ call' = Answered(d, "login")
  /\ user' = [user EXCEPT ![d] = call[d]["login"].user]
  /\ pair' = [pair EXCEPT ![d] = call[d]["login"].token]
  /\ excused' = [excused EXCEPT ![d] =
       \/ call[d]["refresh"] # NoCall
       \/ {t \in stored : t.user = call[d]["login"].user} # {call[d]["login"].token}
       \/ Rivalled(d, call[d]["login"].token)
       \/ ~Current(call[d]["login"].token)]
  /\ UNCHANGED <<now, version, active, stored, isRefreshing, request, sent, retried, disturbances>>

LoginFail(d) ==
  /\ call[d]["login"].step = "fail"
  /\ call' = Answered(d, "login")
  /\ UNCHANGED <<now, version, active, stored, clientVars>>

(* handleLogout of the profile screen: the store only, no call.            *)
SignOut(d) ==
  /\ user[d] # None
  /\ Disturb
  /\ SignedOut(d)
  /\ excused' = [excused EXCEPT ![d] = TRUE]
  /\ UNCHANGED <<serverVars, isRefreshing, request, sent, retried>>

(* A login or refresh that the server carried out, or never received, is   *)
(* answered by a network error.                                            *)
Lose(d, k) ==
  /\ call[d][k].step \in {"find", "ok"}
  /\ Disturb
  /\ call' = [call EXCEPT ![d][k].step = "fail"]
  /\ excused' = [excused EXCEPT ![d] = TRUE]
  /\ UNCHANGED <<now, version, active, stored, user, pair, isRefreshing, request, sent, retried>>

-----------------------------------------------------------------------------
(* The server's steps.  The history variable marks the devices whose       *)
(* session the server may rightly refuse to continue: all those of a user  *)
(* who signs in again, changes the password or is deactivated, and those   *)
(* whose refresh token has expired.                                        *)
ServerStep(d, k) ==
  /\ Serve(d, k)
  /\ excused' = [e \in Devices |->
       \/ excused[e]
       \/ k = "login" /\ LoginDelete(d) /\ pair[e] # None /\ pair[e].user = call[d]["login"].user
       \/ k = "refresh" /\ RefreshFind(d) /\ e = d /\ Expired(call[d]["refresh"].token)]
  /\ UNCHANGED <<user, pair, isRefreshing, request, sent, retried, disturbances>>

ChangeUser(u) ==
  /\ Disturb
  /\ \/ /\ ChangePassword(u) \/ SetActive(u, FALSE)
        /\ excused' = [e \in Devices |->
             excused[e] \/ (pair[e] # None /\ pair[e].user = u)]
     \/ SetActive(u, TRUE) /\ UNCHANGED excused
  /\ UNCHANGED <<user, pair, isRefreshing, request, sent, retried>>

TimePasses == Tick /\ UNCHANGED clientVars

(* What happens by itself once a call has been made.                       *)
React(q) == Answer(q) \/ ReceiveAccepted(q) \/ ReceiveRefused(q)
Complete(d, k) ==
  \/ ServerStep(d, k)
  \/ k = "refresh" /\ (RefreshOk(d) \/ RefreshFail(d))
  \/ k = "login" /\ (LoginOk(d) \/ LoginFail(d))

Next ==
  \/ \E q \in Requests : Send(q) \/ React(q)
  \/ \E d \in Devices :
       \/ SignOut(d)
       \/ \E u \in Users : SignIn(d, u)
       \/ \E k \in Kinds : Complete(d, k) \/ Lose(d, k)
  \/ \E u \in Users : ChangeUser(u)
  \/ TimePasses

Spec == Init /\ [][Next]_vars

(* The event loop runs every callback, and the server answers or the       *)
(* connection fails; axios reports either.                                 *)
FairSpec ==
  /\ Spec
  /\ \A q \in Requests : WF_vars(React(q))
  /\ \A d \in Devices, k \in Kinds : WF_vars(Complete(d, k))

-----------------------------------------------------------------------------
(* Properties.                                                             *)

(* Every variable keeps its type.                                          *)
TypeOK ==
  /\ now \in 0 .. MaxTime
  /\ version \in [Users -> 1 .. MaxVersion]
  /\ active \in [Users -> BOOLEAN]
  /\ stored \subseteq Token
  /\ call \in [Devices -> [Kinds -> Call \cup {NoCall}]]
  /\ user \in [Devices -> Users \cup {None}]
  /\ pair \in [Devices -> Token \cup {None}]
  /\ isRefreshing \in [Devices -> BOOLEAN]
  /\ request \in [Requests -> RequestStates]
  /\ sent \in [Requests -> Token \cup {None}]
  /\ retried \in [Requests -> BOOLEAN]
  /\ disturbances \in 0 .. MaxDisturbances
  /\ excused \in [Devices -> BOOLEAN]

(* One refused call refreshes for all the others: a device has a refresh   *)
(* under way exactly if one call waits for its answer, never two, and      *)
(* isRefreshing is set all that time.                                      *)
Refreshers(d) == {q \in On(d) : request[q] = "refreshing"}
OneRefresh ==
  \A d \in Devices :
    /\ \A p, q \in Refreshers(d) : p = q
    /\ Refreshers(d) # {} <=> call[d]["refresh"] # NoCall
    /\ call[d]["refresh"] # NoCall => /\ isRefreshing[d]
                                     /\ call[d]["refresh"].token # None

(* Both, for every state: what the single flight relies on.                *)
ClientInv == TypeOK /\ OneRefresh

(* The expiry of an access token never ends a session: unless the user     *)
(* signed out or in again, changed the password or was deactivated, an     *)
(* answer was lost, the refresh token had expired or another device got a  *)
(* pair of the same second, the device stays signed in, and once no        *)
(* refresh is under way it holds tokens the server takes until they expire.*)
SessionSurvives ==
  \A d \in Devices : ~excused[d] =>
    /\ user[d] # None
    /\ call[d]["refresh"] = NoCall => pair[d] \in stored /\ Current(pair[d])

(* isRefreshing set with no refresh under way: nothing will clear it.      *)
Stuck(d) == isRefreshing[d] /\ call[d]["refresh"] = NoCall

(* Calls wait for a refresh only while one is under way, so its answer     *)
(* settles them.                                                           *)
QueueHasRefresher ==
  \A d \in Devices : Queue(d) # {} => call[d]["refresh"] # NoCall

(* Every call is settled, refreshed or rejected, or the interceptor of its *)
(* device is stuck for good.                                               *)
EveryCallSettles ==
  \A q \in Requests : request[q] = "sent" ~> request[q] = "done" \/ Stuck(DeviceOf[q])

(* A device never sends one user's calls with another user's tokens.       *)
TokensMatchUser ==
  \A d \in Devices : user[d] # None => pair[d].user = user[d]

-----------------------------------------------------------------------------
(* The inductive invariant behind SessionSurvives, with ClientInv.         *)

(* A call's token is its user's, and no token was signed in the future.    *)
TokensOfCalls ==
  /\ \A d \in Devices, k \in Kinds : call[d][k] # NoCall =>
       /\ call[d][k].step \in {"insert", "ok"} => call[d][k].token # None
       /\ call[d][k].token # None => /\ call[d][k].token.user = call[d][k].user
                                     /\ call[d][k].token.iat <= now
  /\ \A d \in Devices : pair[d] # None => pair[d].iat <= now

(* How far the refresh of an undisturbed session has come, and what the    *)
(* table then holds of its user: nothing but the device's own token.       *)
Undisturbed(d) ==
  LET r == call[d]["refresh"]
      own == {t \in stored : t.user = pair[d].user}
  IN
  /\ user[d] # None /\ pair[d] # None
  /\ call[d]["login"] = NoCall
  /\ Current(pair[d])
  /\ r.step \in {"insert", "ok"} => r.token.version = version[pair[d].user]
  /\ r # NoCall => r.user = pair[d].user /\ r.step # "fail"
  /\ r.step \in {"find", "delete"} => r.token = pair[d]
  /\ r.step \in {"insert", "ok"} => r.token.iat >= pair[d].iat
  /\ r.step \in {"none", "find", "delete"} => own = {pair[d]}
  /\ r.step \in {"sign", "insert"} => own = {}
  /\ r.step = "ok" => own = {r.token}

(* What another device still has of an undisturbed session's user: older   *)
(* tokens, and calls that have changed nothing yet.                        *)
Outdated(e, d) ==
  LET u == pair[d].user
      r == call[e]["refresh"]
      l == call[e]["login"]
  IN
  /\ pair[e] # None /\ pair[e].user = u => pair[e].iat < pair[d].iat
  /\ r # NoCall /\ r.user = u =>
       r.step \in {"find", "fail"} /\ (r.step = "find" => r.token.iat < pair[d].iat)
  /\ l # NoCall /\ l.user = u => l.step \in {"find", "delete", "fail"}

SessionInv ==
  /\ ClientInv
  /\ TokensOfCalls
  /\ \A d \in Devices : ~excused[d] =>
       Undisturbed(d) /\ \A e \in Devices \ {d} : Outdated(e, d)
=============================================================================
