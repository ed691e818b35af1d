------------------------------ MODULE Sessions ------------------------------
(***************************************************************************)
(* Sign-in and token refresh on RentGo's server: POST /auth/login, POST    *)
(* /auth/refresh and the protect middleware, one step per statement.       *)
(*                                                                         *)
(* A token is what its JWT says: the user, the user's token_version and    *)
(* the second it was signed in.  Two tokens signed for one user in the     *)
(* same second are the same string.  The access token and the refresh      *)
(* token of a pair are signed together, so one record stands for the pair. *)
(***************************************************************************)
EXTENDS Naturals

CONSTANTS
  Users,
  Devices,      \* the app installations that call the server
  AccessLife,   \* lifetime of an access token (JWT_EXPIRES_IN)
  RefreshLife,  \* lifetime of a refresh token (JWT_REFRESH_EXPIRES_IN)
  MaxTime,      \* bound on the clock
  MaxVersion,   \* bound on token_version
  None          \* no user, no token

Token == [user : Users, version : 1 .. MaxVersion, iat : 0 .. MaxTime]

ASSUME ConstantsAssumption ==
  /\ AccessLife \in Nat \ {0}
  /\ RefreshLife \in Nat /\ RefreshLife >= AccessLife
  /\ MaxTime \in Nat
  /\ MaxVersion \in Nat \ {0}
  /\ None \notin Users \cup Token

VARIABLES
  now,      \* the clock
  version,  \* users.token_version
  active,   \* users.is_active and not deleted
  stored,   \* the tokens in table refresh_tokens
  call      \* the state of each device's login and refresh on the server

serverVars == <<now, version, active, stored, call>>

NoCall == [step |-> "none"]
Kinds == {"login", "refresh"}
Steps == {"find", "delete", "sign", "insert", "ok", "fail"}
Call == [step : Steps, user : Users, token : Token \cup {None}]

(* What a handler makes of its call: the next step, or an answer.          *)
Step(d, k, s) == call' = [call EXCEPT ![d][k].step = s]

-----------------------------------------------------------------------------
(* POST /auth/login: the phone and the password, then every refresh token  *)
(* of the user is deleted and one pair is issued.  is_active is not read.  *)

LoginFind(d) ==
  /\ call[d]["login"].step = "find"
  /\ Step(d, "login", "delete") \/ Step(d, "login", "fail")
  /\ UNCHANGED <<now, version, active, stored>>

LoginDelete(d) ==
  /\ call[d]["login"].step = "delete"
  /\ stored' = {t \in stored : t.user # call[d]["login"].user}
  /\ Step(d, "login", "sign")
  /\ UNCHANGED <<now, version, active>>

-----------------------------------------------------------------------------
(* POST /auth/refresh: verify, find, delete, then issue a pair.            *)

Expired(t) == now >= t.iat + RefreshLife

RefreshFind(d) ==
  /\ call[d]["refresh"].step = "find"
  /\ LET t == call[d]["refresh"].token IN
       IF ~Expired(t) /\ t \in stored
       THEN Step(d, "refresh", "delete")
       ELSE Step(d, "refresh", "fail")
  /\ UNCHANGED <<now, version, active, stored>>

(* Mutant: the old token is deleted after the new pair is stored, as it    *)
(* was before the comment in refresh(): issuing within the second of the   *)
(* old token meets the UNIQUE constraint.                                  *)
RefreshKeepsOld(d) ==
  /\ call[d]["refresh"].step = "delete"
  /\ Step(d, "refresh", "sign")
  /\ UNCHANGED <<now, version, active, stored>>

RefreshDelete(d) ==
  /\ call[d]["refresh"].step = "delete"
  /\ stored' = stored \ {call[d]["refresh"].token}
  /\ Step(d, "refresh", "sign")
  /\ UNCHANGED <<now, version, active>>

-----------------------------------------------------------------------------
(* generateTokens: token_version is read and the pair signed, then stored. *)

Sign(d, k) ==
  /\ call[d][k].step = "sign"
  /\ LET u == call[d][k].user IN
       call' = [call EXCEPT ![d][k] =
                 [step |-> "insert", user |-> u,
                  token |-> [user |-> u, version |-> version[u], iat |-> now]]]
  /\ UNCHANGED <<now, version, active, stored>>

(* refresh_tokens.token is UNIQUE: a pair of the same second is an error.  *)
InsertToken(d, k) ==
  /\ call[d][k].step = "insert"
  /\ LET t == call[d][k].token IN
       IF t \in stored
       THEN Step(d, k, "fail") /\ UNCHANGED stored
       ELSE Step(d, k, "ok") /\ stored' = stored \cup {t}
  /\ UNCHANGED <<now, version, active>>

(* The next step of a device's login or refresh.                           *)
Serve(d, k) ==
  \/ k = "login" /\ (LoginFind(d) \/ LoginDelete(d))
  \/ k = "refresh" /\ (RefreshFind(d) \/ RefreshDelete(d))
  \/ Sign(d, k)
  \/ InsertToken(d, k)

-----------------------------------------------------------------------------
(* What other requests do to a user, and the clock.                        *)

(* PATCH /users/change-password ends with token_version + 1.               *)
ChangePassword(u) ==
  /\ version[u] < MaxVersion
  /\ version' = [version EXCEPT ![u] = @ + 1]
  /\ UNCHANGED <<now, active, stored, call>>

(* PATCH /admin/users/:id/deactivate, either way.                          *)
SetActive(u, isActive) ==
  /\ active' = [active EXCEPT ![u] = isActive]
  /\ UNCHANGED <<now, version, stored, call>>

Tick ==
  /\ now < MaxTime
  /\ now' = now + 1
  /\ UNCHANGED <<version, active, stored, call>>

(* protect: the token is valid, its user is active and its version is the  *)
(* user's current one.                                                     *)
Protect(t) ==
  /\ t # None
  /\ now < t.iat + AccessLife
  /\ active[t.user]
  /\ version[t.user] = t.version
=============================================================================
