--------------------------- MODULE SessionProofs ---------------------------
(* Proofs about ApiClient: the single flight of refreshes, and that the    *)
(* expiry of an access token never ends a session.                         *)
EXTENDS ApiClient, TLAPS

Calls == [Devices -> [Kinds -> Call \cup {NoCall}]]

-----------------------------------------------------------------------------
(* Calls.                                                                  *)

(* NoCall is told apart from the calls by its step.                        *)
LEMMA CallSteps ==
  ASSUME NEW c \in Call \cup {NoCall}
  PROVE  /\ c = NoCall <=> c.step = "none"
         /\ c \in Call <=> c.step \in Steps
         /\ c \in Call => /\ c.user \in Users
                          /\ c.token \in Token \cup {None}
BY DEF Call, NoCall, Steps

(* One call takes another step.                                            *)
LEMMA SetStep ==
  ASSUME call \in Calls, NEW d \in Devices, NEW k \in Kinds, NEW s \in Steps,
         call[d][k].step \in Steps, Step(d, k, s)
  PROVE  /\ call' \in Calls
         /\ call'[d][k] \in Call
         /\ call'[d][k].step = s
         /\ call'[d][k].user = call[d][k].user
         /\ call'[d][k].token = call[d][k].token
         /\ \A e \in Devices, j \in Kinds : e # d \/ j # k => call'[e][j] = call[e][j]
<1> DEFINE c == [call[d][k] EXCEPT !.step = s]
<1>1. call[d][k] \in Call
  BY CallSteps DEF Calls
<1>2. /\ c \in Call /\ c.step = s
      /\ c.user = call[d][k].user /\ c.token = call[d][k].token
  BY <1>1 DEF Call
<1>3. call' = [call EXCEPT ![d][k] = c]
  BY DEF Step
<1>4. /\ call' \in Calls /\ call'[d][k] = c
      /\ \A e \in Devices, j \in Kinds : e # d \/ j # k => call'[e][j] = call[e][j]
  BY <1>2, <1>3 DEF Calls
<1> QED BY <1>2, <1>4

(* The pair that generateTokens signs.                                     *)
LEMMA SignedPair ==
  ASSUME TypeOK, NEW d \in Devices, NEW k \in Kinds, Sign(d, k)
  PROVE  /\ call' \in Calls
         /\ call[d][k] \in Call /\ call'[d][k] \in Call
         /\ call'[d][k].step = "insert"
         /\ call'[d][k].user = call[d][k].user
         /\ call'[d][k].token \in Token
         /\ call'[d][k].token.user = call[d][k].user
         /\ call'[d][k].token.iat = now
         /\ call'[d][k].token.version = version[call[d][k].user]
         /\ \A e \in Devices, j \in Kinds : e # d \/ j # k => call'[e][j] = call[e][j]
<1>0. call \in Calls /\ now \in 0 .. MaxTime /\ version \in [Users -> 1 .. MaxVersion]
  BY DEF TypeOK, Calls
<1>1. call[d][k] \in Call /\ call[d][k].user \in Users
  BY <1>0, CallSteps DEF Sign, Steps, Calls
<1>2. PICK c : /\ c = [step |-> "insert", user |-> call[d][k].user,
                      token |-> [user |-> call[d][k].user,
                                 version |-> version[call[d][k].user], iat |-> now]]
               /\ call' = [call EXCEPT ![d][k] = c]
  BY DEF Sign
<1>3. /\ c.token \in Token /\ c.token.user = call[d][k].user /\ c.token.iat = now
      /\ c.token.version = version[call[d][k].user]
  BY <1>0, <1>1, <1>2 DEF Token
<1>4. c \in Call /\ c.step = "insert" /\ c.user = call[d][k].user
  BY <1>1, <1>2, <1>3 DEF Call, Steps
<1>5. /\ call' \in Calls /\ call'[d][k] = c
      /\ \A e \in Devices, j \in Kinds : e # d \/ j # k => call'[e][j] = call[e][j]
  BY <1>0, <1>2, <1>4 DEF Calls
<1> QED BY <1>1, <1>3, <1>4, <1>5

(* The answer of a call is dealt with.                                     *)
LEMMA CallAnswered ==
  ASSUME call \in Calls, NEW d \in Devices, NEW k \in Kinds, call' = Answered(d, k)
  PROVE  /\ call' \in Calls
         /\ call'[d][k] = NoCall
         /\ \A e \in Devices, j \in Kinds : e # d \/ j # k => call'[e][j] = call[e][j]
BY DEF Calls, Answered

-----------------------------------------------------------------------------
(* ClientInv.                                                              *)

(* A step that starts and ends no refresh, nor a call's wait for one.      *)
LEMMA RefreshesUnchanged ==
  ASSUME OneRefresh, UNCHANGED isRefreshing,
         \A q \in Requests : request'[q] = "refreshing" <=> request[q] = "refreshing",
         \A d \in Devices :
            \/ call'[d]["refresh"] = call[d]["refresh"]
            \/ /\ call'[d]["refresh"] # NoCall /\ call[d]["refresh"] # NoCall
               /\ call'[d]["refresh"].token # None
  PROVE  OneRefresh'
<1>1. \A d \in Devices : Refreshers(d)' = Refreshers(d)
  BY DEF Refreshers, On
<1> QED BY <1>1 DEF OneRefresh

-----------------------------------------------------------------------------
(* Sessions.                                                               *)

(* The last conjunct of SessionInv.                                        *)
Survives(d) ==
  ~excused[d] => Undisturbed(d) /\ \A e \in Devices \ {d} : Outdated(e, d)

(* Nothing a session or a call consists of changes, but for the excused.   *)
LEMMA QuietStep ==
  ASSUME SessionInv, UNCHANGED <<user, pair, stored, call>>,
         \A d \in Devices : ~excused'[d] =>
           /\ ~excused[d]
           /\ pair[d] # None => /\ version'[pair[d].user] = version[pair[d].user]
                               /\ active'[pair[d].user] = active[pair[d].user],
         now' \in Nat, now' >= now
  PROVE  TokensOfCalls' /\ \A d \in Devices : Survives(d)'
<1>1. TokensOfCalls'
  <2>1. now \in Nat
    BY ConstantsAssumption DEF SessionInv, ClientInv, TypeOK
  <2>2. \A t \in Token : t.iat \in Nat /\ (t.iat <= now => t.iat <= now')
    BY <2>1, ConstantsAssumption DEF Token
  <2>3. \A d \in Devices, k \in Kinds :
           call[d][k] # NoCall => call[d][k].token \in Token \cup {None}
    BY CallSteps DEF SessionInv, ClientInv, TypeOK
  <2>4. \A d \in Devices : pair[d] \in Token \cup {None}
    BY DEF SessionInv, ClientInv, TypeOK
  <2> QED BY <2>2, <2>3, <2>4 DEF SessionInv, TokensOfCalls
<1>2. \A d \in Devices : Survives(d)'
  BY DEF SessionInv, Survives, Undisturbed, Outdated, Current
<1> QED BY <1>1, <1>2

(* A step of device d leaves another device's session as it is, if it      *)
(* keeps out of that user's tokens.                                        *)
LEMMA OtherSessions ==
  ASSUME SessionInv, NEW d \in Devices, NEW x \in Devices \ {d}, ~excused[x],
         \A e \in Devices \ {d} : /\ user'[e] = user[e]
                                  /\ pair'[e] = pair[e]
                                  /\ \A k \in Kinds : call'[e][k] = call[e][k],
         {t \in stored' : t.user = pair[x].user} = {t \in stored : t.user = pair[x].user},
         UNCHANGED <<version, active>>, Outdated(d, x)'
  PROVE  Survives(x)'
<1>1. Undisturbed(x) /\ \A e \in Devices \ {x} : Outdated(e, x)
  BY DEF SessionInv
<1>2. Undisturbed(x)'
  BY <1>1 DEF Undisturbed, Current, Kinds
<1>3. ASSUME NEW e \in Devices \ {x} PROVE Outdated(e, x)'
  <2>1. CASE e # d
    BY <1>1, <2>1 DEF Outdated, Kinds
  <2> QED BY <2>1
<1> QED BY <1>2, <1>3 DEF Survives

-----------------------------------------------------------------------------
(* Every step preserves SessionInv.                                        *)

LEMMA CallsTyped == TypeOK => call \in Calls
BY DEF TypeOK, Calls

(* The clock, in a step that does not move it.                             *)
LEMMA ClockIsNat == TypeOK => now \in Nat /\ now >= now
BY ConstantsAssumption DEF TypeOK

(* The steps of a call on the device, outside refresh.                     *)
LEMMA SendKeepsInv ==
  ASSUME SessionInv, NEW q \in Requests, Send(q)
  PROVE  SessionInv'
<1>0. TypeOK /\ OneRefresh /\ DeviceOf[q] \in Devices
  BY ClientAssumption DEF SessionInv, ClientInv
<1>1. TypeOK'
  BY <1>0 DEF Send, TypeOK, serverVars, RequestStates, Requesting
<1>2. OneRefresh'
  <2>1. \A p \in Requests : request'[p] = "refreshing" <=> request[p] = "refreshing"
    BY <1>0 DEF Send, TypeOK
  <2> QED BY <1>0, <2>1, RefreshesUnchanged DEF Send, serverVars
<1>3. TokensOfCalls' /\ \A d \in Devices : Survives(d)'
  BY <1>0, ClockIsNat, QuietStep DEF Send, serverVars
<1> QED BY <1>1, <1>2, <1>3 DEF SessionInv, ClientInv, Survives

LEMMA AnswerKeepsInv ==
  ASSUME SessionInv, NEW q \in Requests, Answer(q) \/ ReceiveAccepted(q)
  PROVE  SessionInv'
<1>0. TypeOK /\ OneRefresh
  BY DEF SessionInv, ClientInv
<1>1. TypeOK'
  BY <1>0 DEF Answer, ReceiveAccepted, Done, TypeOK, serverVars, RequestStates, Requesting
<1>2. OneRefresh'
  <2>1. \A p \in Requests : request'[p] = "refreshing" <=> request[p] = "refreshing"
    BY <1>0 DEF Answer, ReceiveAccepted, Done, TypeOK
  <2> QED BY <1>0, <2>1, RefreshesUnchanged DEF Answer, ReceiveAccepted, serverVars
<1>3. TokensOfCalls' /\ \A d \in Devices : Survives(d)'
  BY <1>0, ClockIsNat, QuietStep DEF Answer, ReceiveAccepted, serverVars
<1> QED BY <1>1, <1>2, <1>3 DEF SessionInv, ClientInv, Survives

(* A 401 starts a refresh, waits for one, or ends the call.                *)
LEMMA ReceiveRefusedKeepsInv ==
  ASSUME SessionInv, NEW q \in Requests, ReceiveRefused(q)
  PROVE  SessionInv'
<1> DEFINE d == DeviceOf[q]
<1>0. /\ TypeOK /\ OneRefresh /\ d \in Devices /\ request[q] = "refused"
      /\ UNCHANGED <<now, version, active, stored, disturbances, excused>>
      /\ call \in Calls
  BY ClientAssumption, CallsTyped DEF SessionInv, ClientInv, ReceiveRefused
<1>1. CASE /\ UNCHANGED <<call, user, pair, isRefreshing, retried>>
           /\ \/ Done(q)
              \/ request' = [request EXCEPT ![q] = "queued"] /\ UNCHANGED sent
  <2>1. TypeOK'
    BY <1>0, <1>1 DEF Done, TypeOK, RequestStates, Requesting
  <2>2. \A p \in Requests : request'[p] = "refreshing" <=> request[p] = "refreshing"
    BY <1>0, <1>1 DEF Done, TypeOK
  <2>3. OneRefresh'
    BY <1>0, <1>1, <2>2, RefreshesUnchanged
  <2>4. TokensOfCalls' /\ \A e \in Devices : Survives(e)'
    BY <1>0, <1>1, ClockIsNat, QuietStep
  <2> QED BY <2>1, <2>3, <2>4 DEF SessionInv, ClientInv, Survives
<1>2. CASE /\ ~isRefreshing[d] /\ pair[d] = None
           /\ retried' = [retried EXCEPT ![q] = TRUE]
           /\ isRefreshing' = [isRefreshing EXCEPT ![d] = TRUE]
           /\ SignedOut(d) /\ Done(q) /\ UNCHANGED call
  <2>1. TypeOK'
    BY <1>0, <1>2 DEF SignedOut, Done, TypeOK, RequestStates, Requesting
  <2>2. /\ \A p \in Requests : request'[p] = "refreshing" <=> request[p] = "refreshing"
        /\ \A e \in Devices \ {d} : /\ user'[e] = user[e]
                                    /\ pair'[e] = pair[e]
                                    /\ isRefreshing'[e] = isRefreshing[e]
        /\ isRefreshing'[d] /\ pair'[d] = None
    BY <1>0, <1>2 DEF SignedOut, Done, TypeOK
  <2>3. OneRefresh'
    <3>1. \A e \in Devices : Refreshers(e)' = Refreshers(e)
      BY <2>2 DEF Refreshers, On
    <3> QED BY <1>0, <1>2, <2>2, <3>1 DEF OneRefresh
  <2>4. TokensOfCalls'
    BY <1>0, <1>2, <2>2 DEF SessionInv, TokensOfCalls
  <2>5. ASSUME NEW x \in Devices, ~excused[x] PROVE Survives(x)'
    <3>1. x # d
      BY <1>2, <2>5 DEF SessionInv, Undisturbed
    <3>2. Outdated(d, x)
      BY <2>5, <3>1, <1>0 DEF SessionInv
    <3>3. Outdated(d, x)'
      BY <1>2, <2>2, <3>1, <3>2 DEF Outdated
    <3> QED BY <1>0, <1>2, <2>2, <2>5, <3>1, <3>3, OtherSessions
  <2> QED BY <1>0, <2>1, <2>3, <2>4, <2>5 DEF SessionInv, ClientInv, Survives
<1>3. CASE /\ ~isRefreshing[d] /\ pair[d] # None
           /\ retried' = [retried EXCEPT ![q] = TRUE]
           /\ isRefreshing' = [isRefreshing EXCEPT ![d] = TRUE]
           /\ request' = [request EXCEPT ![q] = "refreshing"]
           /\ call' = [call EXCEPT ![d]["refresh"] =
                        [step |-> "find", user |-> pair[d].user, token |-> pair[d]]]
           /\ UNCHANGED <<user, pair, sent>>
  <2>0. pair[d] \in Token /\ pair[d].user \in Users /\ pair[d].iat <= now
    BY <1>0, <1>3 DEF TypeOK, Token, SessionInv, TokensOfCalls
  <2>1. /\ call' \in Calls
        /\ call'[d]["refresh"] \in Call /\ call'[d]["refresh"].step = "find"
        /\ call'[d]["refresh"].user = pair[d].user
        /\ call'[d]["refresh"].token = pair[d]
        /\ \A e \in Devices, j \in Kinds :
             e # d \/ j # "refresh" => call'[e][j] = call[e][j]
    <3>1. [step |-> "find", user |-> pair[d].user, token |-> pair[d]] \in Call
      BY <2>0 DEF Call, Steps
    <3> QED BY <1>0, <1>3, <3>1 DEF Calls, Kinds
  <2>2. call'[d]["refresh"] # NoCall
    BY <2>1 DEF NoCall, Call
  <2>3. TypeOK'
    BY <1>0, <1>3, <2>1 DEF TypeOK, RequestStates, Requesting, Calls
  <2>4. OneRefresh'
    <3>1. call[d]["refresh"] = NoCall /\ Refreshers(d) = {}
      BY <1>0, <1>3 DEF OneRefresh
    <3>2. /\ Refreshers(d)' = {q}
          /\ \A e \in Devices \ {d} : Refreshers(e)' = Refreshers(e)
      BY <1>0, <1>3, <3>1 DEF Refreshers, On, TypeOK
    <3>3. \A e \in Devices \ {d} : /\ isRefreshing'[e] = isRefreshing[e]
                                   /\ call'[e]["refresh"] = call[e]["refresh"]
      BY <1>0, <1>3, <2>1 DEF TypeOK, Kinds
    <3>4. isRefreshing'[d]
      BY <1>0, <1>3 DEF TypeOK
    <3>5. SUFFICES ASSUME NEW e \in Devices
                   PROVE  /\ \A p, r \in Refreshers(e)' : p = r
                          /\ Refreshers(e)' # {} <=> call'[e]["refresh"] # NoCall
                          /\ call'[e]["refresh"] # NoCall =>
                               isRefreshing'[e] /\ call'[e]["refresh"].token # None
      BY DEF OneRefresh
    <3>6. CASE e = d
      BY <1>3, <2>1, <2>2, <3>2, <3>4, <3>6
    <3>7. CASE e # d
      BY <1>0, <3>2, <3>3, <3>7 DEF OneRefresh
    <3> QED BY <3>6, <3>7
  <2>5. TokensOfCalls'
    BY <1>0, <1>3, <2>0, <2>1 DEF SessionInv, TokensOfCalls
  <2>6. ASSUME NEW x \in Devices, ~excused[x] PROVE Survives(x)'
    <3>1. CASE x = d
      <4>1. call[d]["refresh"] = NoCall
        BY <1>0, <1>3 DEF OneRefresh
      <4>2. Undisturbed(d) /\ \A e \in Devices \ {d} : Outdated(e, d)
        BY <2>6, <3>1 DEF SessionInv
      <4>3. Undisturbed(d)'
        BY <1>0, <1>3, <2>1, <4>1, <4>2 DEF Undisturbed, Current, Kinds, NoCall
      <4>4. \A e \in Devices \ {d} : Outdated(e, d)'
        BY <1>0, <1>3, <2>1, <4>2 DEF Outdated, Kinds
      <4> QED BY <3>1, <4>3, <4>4 DEF Survives
    <3>2. CASE x # d
      <4>1. Outdated(d, x)
        BY <2>6, <3>2, <1>0 DEF SessionInv
      <4>2. Outdated(d, x)'
        BY <1>0, <1>3, <2>1, <3>2, <4>1 DEF Outdated, Kinds
      <4> QED BY <1>0, <1>3, <2>1, <2>6, <3>2, <4>2, OtherSessions
    <3> QED BY <3>1, <3>2
  <2> QED BY <1>0, <2>3, <2>4, <2>5, <2>6 DEF SessionInv, ClientInv, Survives
<1> QED BY <1>1, <1>2, <1>3 DEF ReceiveRefused

(* The answer of a refresh.                                                *)
LEMMA RefreshOkKeepsInv ==
  ASSUME SessionInv, NEW d \in Devices, RefreshOk(d)
  PROVE  SessionInv'
<1> DEFINE t == call[d]["refresh"].token
<1>0. /\ TypeOK /\ OneRefresh /\ call \in Calls /\ "refresh" \in Kinds
      /\ call[d]["refresh"].step = "ok"
      /\ UNCHANGED <<now, version, active, stored, user, retried, disturbances, excused>>
      /\ pair' = [pair EXCEPT ![d] = t]
      /\ isRefreshing' = [isRefreshing EXCEPT ![d] = FALSE]
  BY CallsTyped DEF SessionInv, ClientInv, RefreshOk, Kinds
<1>1. /\ call[d]["refresh"] \in Call /\ call[d]["refresh"] # NoCall
      /\ t \in Token /\ t.user = call[d]["refresh"].user /\ t.iat <= now
  <2>1. call[d]["refresh"] \in Call /\ call[d]["refresh"] # NoCall
    BY <1>0, CallSteps DEF Calls, Steps
  <2> QED BY <1>0, <2>1, CallSteps DEF SessionInv, TokensOfCalls
<1>2. /\ call' \in Calls /\ call'[d]["refresh"] = NoCall
      /\ \A e \in Devices, j \in Kinds : e # d \/ j # "refresh" => call'[e][j] = call[e][j]
  BY <1>0, CallAnswered DEF RefreshOk
<1>3. /\ pair'[d] = t /\ ~isRefreshing'[d]
      /\ \A e \in Devices \ {d} : pair'[e] = pair[e] /\ isRefreshing'[e] = isRefreshing[e]
  BY <1>0 DEF TypeOK
<1>4. TypeOK'
  <2>1. /\ request' \in [Requests -> RequestStates]
        /\ sent' \in [Requests -> Token \cup {None}]
    BY <1>0, <1>1 DEF RefreshOk, TypeOK, RequestStates, Requesting
  <2>2. pair' \in [Devices -> Token \cup {None}] /\ isRefreshing' \in [Devices -> BOOLEAN]
    BY <1>0, <1>1 DEF TypeOK
  <2> QED BY <1>0, <1>2, <2>1, <2>2 DEF TypeOK, Calls
<1>5. OneRefresh'
  <2>1. Refreshers(d)' = {}
    BY DEF RefreshOk, Refreshers, On
  <2>2. \A e \in Devices \ {d} : Refreshers(e)' = Refreshers(e)
    BY DEF RefreshOk, Refreshers, On
  <2> QED BY <1>0, <1>2, <1>3, <2>1, <2>2 DEF OneRefresh
<1>6. TokensOfCalls'
  BY <1>0, <1>1, <1>2, <1>3 DEF SessionInv, TokensOfCalls
<1>7. ASSUME NEW x \in Devices, ~excused[x] PROVE Survives(x)'
  <2>1. CASE x = d
    <3>1. Undisturbed(d) /\ \A e \in Devices \ {d} : Outdated(e, d)
      BY <1>7, <2>1 DEF SessionInv
    <3>2. t.user = pair[d].user /\ t.iat >= pair[d].iat /\ t.version = version[t.user]
      BY <1>0, <1>1, <3>1 DEF Undisturbed
    <3>3. Undisturbed(d)'
      <4>1. {s \in stored : s.user = pair[d].user} = {t}
        BY <1>0, <3>1 DEF Undisturbed
      <4>2. t # None
        BY <1>1, ConstantsAssumption
      <4> QED BY <1>0, <1>2, <1>3, <3>1, <3>2, <4>1, <4>2
            DEF Undisturbed, Current, Kinds, NoCall
    <3>4. ASSUME NEW e \in Devices \ {d} PROVE Outdated(e, d)'
      <4>1. /\ pair[d] \in Token /\ pair[e] \in Token \cup {None}
            /\ \A k \in Kinds : call[e][k] # NoCall => call[e][k].token \in Token \cup {None}
        BY <1>0, <3>1, CallSteps DEF TypeOK, Undisturbed, Calls
      <4>2. /\ pair[d].iat \in Nat /\ t.iat \in Nat
            /\ pair[e] # None => pair[e].iat \in Nat
        BY <1>1, <4>1 DEF Token
      <4>3. call[e]["refresh"] # NoCall => call[e]["refresh"].token # None
        BY <1>0 DEF OneRefresh
      <4>4. call[e]["refresh"] # NoCall => call[e]["refresh"].token.iat \in Nat
        BY <1>0, <4>1, <4>3 DEF Token
      <4>5. Outdated(e, d)
        BY <3>1
      <4>6. /\ \A k \in Kinds : call'[e][k] = call[e][k]
            /\ pair'[e] = pair[e] /\ pair'[d].user = pair[d].user
            /\ pair'[d].iat >= pair[d].iat /\ pair'[d].iat \in Nat
        BY <1>2, <1>3, <3>2, <4>2
      <4>7. pair'[e] # None /\ pair'[e].user = pair'[d].user => pair'[e].iat < pair'[d].iat
        BY <4>2, <4>5, <4>6 DEF Outdated
      <4>8. call'[e]["refresh"] # NoCall /\ call'[e]["refresh"].user = pair'[d].user =>
              /\ call'[e]["refresh"].step \in {"find", "fail"}
              /\ call'[e]["refresh"].step = "find" =>
                   call'[e]["refresh"].token.iat < pair'[d].iat
        BY <1>0, <4>2, <4>4, <4>5, <4>6 DEF Outdated
      <4> QED BY <4>5, <4>6, <4>7, <4>8 DEF Outdated, Kinds
    <3> QED BY <2>1, <3>3, <3>4 DEF Survives
  <2>2. CASE x # d
    <3>1. Outdated(d, x)
      BY <1>7, <2>2 DEF SessionInv
    <3>2. t.user # pair[x].user
      BY <1>0, <1>1, <3>1 DEF Outdated
    <3>3. Outdated(d, x)'
      BY <1>0, <1>2, <1>3, <2>2, <3>1, <3>2 DEF Outdated, Kinds
    <3> QED BY <1>0, <1>2, <1>3, <1>7, <2>2, <3>3, OtherSessions
  <2> QED BY <2>1, <2>2
<1> QED BY <1>0, <1>4, <1>5, <1>6, <1>7 DEF SessionInv, ClientInv, Survives

LEMMA RefreshFailKeepsInv ==
  ASSUME SessionInv, NEW d \in Devices, RefreshFail(d)
  PROVE  SessionInv'
<1>0. /\ TypeOK /\ OneRefresh /\ call \in Calls /\ "refresh" \in Kinds
      /\ call[d]["refresh"].step = "fail"
      /\ UNCHANGED <<now, version, active, stored, retried, disturbances, excused>>
      /\ SignedOut(d)
      /\ isRefreshing' = [isRefreshing EXCEPT ![d] = FALSE]
  BY CallsTyped DEF SessionInv, ClientInv, RefreshFail, Kinds
<1>2. /\ call' \in Calls /\ call'[d]["refresh"] = NoCall
      /\ \A e \in Devices, j \in Kinds : e # d \/ j # "refresh" => call'[e][j] = call[e][j]
  BY <1>0, CallAnswered DEF RefreshFail
<1>3. /\ pair'[d] = None /\ ~isRefreshing'[d]
      /\ \A e \in Devices \ {d} : /\ pair'[e] = pair[e] /\ user'[e] = user[e]
                                  /\ isRefreshing'[e] = isRefreshing[e]
  BY <1>0 DEF TypeOK, SignedOut
<1>4. TypeOK'
  <2>1. /\ request' \in [Requests -> RequestStates]
        /\ sent' \in [Requests -> Token \cup {None}]
    BY <1>0 DEF RefreshFail, TypeOK, RequestStates, Requesting
  <2>2. /\ pair' \in [Devices -> Token \cup {None}] /\ user' \in [Devices -> Users \cup {None}]
        /\ isRefreshing' \in [Devices -> BOOLEAN]
    BY <1>0 DEF TypeOK, SignedOut
  <2> QED BY <1>0, <1>2, <2>1, <2>2 DEF TypeOK, Calls
<1>5. OneRefresh'
  <2>1. Refreshers(d)' = {}
    BY DEF RefreshFail, Refreshers, On
  <2>2. \A e \in Devices \ {d} : Refreshers(e)' = Refreshers(e)
    BY DEF RefreshFail, Refreshers, On
  <2> QED BY <1>0, <1>2, <1>3, <2>1, <2>2 DEF OneRefresh
<1>6. TokensOfCalls'
  BY <1>0, <1>2, <1>3 DEF SessionInv, TokensOfCalls
<1>7. ASSUME NEW x \in Devices, ~excused[x] PROVE Survives(x)'
  <2>1. x # d
    <3>1. call[d]["refresh"] # NoCall
      BY <1>0 DEF NoCall
    <3> QED BY <1>0, <1>7, <3>1 DEF SessionInv, Undisturbed
  <2>2. Outdated(d, x)
    BY <1>7, <2>1 DEF SessionInv
  <2>3. Outdated(d, x)'
    BY <1>0, <1>2, <1>3, <2>1, <2>2 DEF Outdated, Kinds
  <2> QED BY <1>0, <1>2, <1>3, <1>7, <2>1, <2>3, OtherSessions
<1> QED BY <1>0, <1>4, <1>5, <1>6, <1>7 DEF SessionInv, ClientInv, Survives

(* Signing in and out.                                                     *)
LEMMA SignInKeepsInv ==
  ASSUME SessionInv, NEW d \in Devices, NEW u \in Users, SignIn(d, u)
  PROVE  SessionInv'
<1>0. /\ TypeOK /\ OneRefresh /\ call \in Calls /\ "login" \in Kinds
      /\ user[d] = None /\ call[d]["login"] = NoCall
      /\ UNCHANGED <<now, version, active, stored, user, pair, isRefreshing, request,
                     sent, retried, disturbances, excused>>
  BY CallsTyped DEF SessionInv, ClientInv, SignIn, clientVars, Kinds
<1>1. /\ call' \in Calls
      /\ call'[d]["login"].step = "find"
      /\ call'[d]["login"].token = None
      /\ \A e \in Devices, j \in Kinds : e # d \/ j # "login" => call'[e][j] = call[e][j]
  <2>1. [step |-> "find", user |-> u, token |-> None] \in Call
    BY DEF Call, Steps
  <2> QED BY <1>0, <2>1 DEF SignIn, Calls
<1>2. TypeOK'
  BY <1>0, <1>1 DEF TypeOK, Calls
<1>3. OneRefresh'
  BY <1>0, <1>1, RefreshesUnchanged DEF Kinds
<1>4. TokensOfCalls'
  BY <1>0, <1>1 DEF SessionInv, TokensOfCalls
<1>5. ASSUME NEW x \in Devices, ~excused[x] PROVE Survives(x)'
  <2>1. x # d
    BY <1>0, <1>5 DEF SessionInv, Undisturbed
  <2>2. Outdated(d, x)
    BY <1>5, <2>1 DEF SessionInv
  <2>3. Outdated(d, x)'
    BY <1>0, <1>1, <2>1, <2>2 DEF Outdated, Kinds
  <2> QED BY <1>0, <1>1, <1>5, <2>1, <2>3, OtherSessions
<1> QED BY <1>0, <1>2, <1>3, <1>4, <1>5 DEF SessionInv, ClientInv, Survives

LEMMA LoginOkKeepsInv ==
  ASSUME SessionInv, NEW d \in Devices, LoginOk(d)
  PROVE  SessionInv'
<1> DEFINE u == call[d]["login"].user
           t == call[d]["login"].token
<1>0. /\ TypeOK /\ OneRefresh /\ call \in Calls /\ "login" \in Kinds
      /\ call[d]["login"].step = "ok"
      /\ user' = [user EXCEPT ![d] = u] /\ pair' = [pair EXCEPT ![d] = t]
      /\ UNCHANGED <<now, version, active, stored, isRefreshing, request, sent, retried,
                     disturbances>>
  BY CallsTyped DEF SessionInv, ClientInv, LoginOk, Kinds
<1>1. /\ call[d]["login"] # NoCall /\ u \in Users
      /\ t \in Token /\ t.user = u /\ t.iat <= now
  <2>1. call[d]["login"] \in Call /\ call[d]["login"] # NoCall
    BY <1>0, CallSteps DEF Calls, Steps
  <2> QED BY <1>0, <2>1, CallSteps DEF SessionInv, TokensOfCalls
<1>2. /\ call' \in Calls /\ call'[d]["login"] = NoCall
      /\ \A e \in Devices, j \in Kinds : e # d \/ j # "login" => call'[e][j] = call[e][j]
  BY <1>0, CallAnswered DEF LoginOk
<1>3. /\ pair'[d] = t /\ user'[d] = u
      /\ \A e \in Devices \ {d} : /\ pair'[e] = pair[e] /\ user'[e] = user[e]
                                  /\ excused'[e] = excused[e]
      /\ ~excused'[d] => /\ call[d]["refresh"] = NoCall
                         /\ {s \in stored : s.user = u} = {t}
                         /\ ~Rivalled(d, t) /\ Current(t)
  BY <1>0 DEF LoginOk, TypeOK
<1>4. TypeOK'
  BY <1>0, <1>1, <1>2 DEF LoginOk, TypeOK, Calls
<1>5. OneRefresh'
  BY <1>0, <1>2, RefreshesUnchanged DEF Kinds
<1>6. TokensOfCalls'
  BY <1>0, <1>1, <1>2, <1>3 DEF SessionInv, TokensOfCalls
<1>7. ASSUME NEW x \in Devices, ~excused'[x] PROVE Survives(x)'
  <2>1. CASE x = d
    <3>1. u # None /\ t # None
      BY <1>1, ConstantsAssumption
    <3>2. Undisturbed(d)'
      <4>1. call'[d]["refresh"] = NoCall /\ {s \in stored : s.user = u} = {t} /\ Current(t)
        BY <1>2, <1>3, <1>7, <2>1 DEF Kinds
      <4> QED BY <1>0, <1>1, <1>2, <1>3, <3>1, <4>1 DEF Undisturbed, Current, NoCall
    <3>3. ASSUME NEW e \in Devices \ {d} PROVE Outdated(e, d)'
      <4>1. /\ ~(pair[e] # None /\ pair[e].user = t.user /\ pair[e].iat >= t.iat)
            /\ \A k \in Kinds : ~(call[e][k] # NoCall /\ call[e][k].user = t.user)
        BY <1>3, <1>7, <2>1 DEF Rivalled
      <4>2. pair[e] # None => pair[e].iat \in Nat
        BY <1>0 DEF TypeOK, Token
      <4>3. t.iat \in Nat
        BY <1>1 DEF Token
      <4> QED BY <1>2, <1>3, <4>1, <4>2, <4>3 DEF Outdated, Kinds
    <3> QED BY <2>1, <3>2, <3>3 DEF Survives
  <2>2. CASE x # d
    <3>1. ~excused[x] /\ Outdated(d, x)
      BY <1>3, <1>7, <2>2 DEF SessionInv
    <3>2. t.user # pair[x].user
      BY <1>0, <1>1, <3>1 DEF Outdated
    <3>3. Outdated(d, x)'
      BY <1>0, <1>2, <1>3, <2>2, <3>1, <3>2 DEF Outdated, Kinds
    <3> QED BY <1>0, <1>2, <1>3, <2>2, <3>1, <3>3, OtherSessions
  <2> QED BY <2>1, <2>2
<1> QED BY <1>0, <1>4, <1>5, <1>6, <1>7 DEF SessionInv, ClientInv, Survives

LEMMA LoginFailKeepsInv ==
  ASSUME SessionInv, NEW d \in Devices, LoginFail(d)
  PROVE  SessionInv'
<1>0. /\ TypeOK /\ OneRefresh /\ call \in Calls /\ "login" \in Kinds
      /\ call[d]["login"].step = "fail"
      /\ UNCHANGED <<now, version, active, stored, user, pair, isRefreshing, request,
                     sent, retried, disturbances, excused>>
  BY CallsTyped DEF SessionInv, ClientInv, LoginFail, clientVars, Kinds
<1>1. /\ call' \in Calls /\ call'[d]["login"] = NoCall
      /\ \A e \in Devices, j \in Kinds : e # d \/ j # "login" => call'[e][j] = call[e][j]
  BY <1>0, CallAnswered DEF LoginFail
<1>2. TypeOK'
  BY <1>0, <1>1 DEF TypeOK, Calls
<1>3. OneRefresh'
  BY <1>0, <1>1, RefreshesUnchanged DEF Kinds
<1>4. TokensOfCalls'
  BY <1>0, <1>1 DEF SessionInv, TokensOfCalls
<1>5. ASSUME NEW x \in Devices, ~excused[x] PROVE Survives(x)'
  <2>1. x # d
    BY <1>0, <1>5 DEF SessionInv, Undisturbed, NoCall
  <2>2. Outdated(d, x)
    BY <1>5, <2>1 DEF SessionInv
  <2>3. Outdated(d, x)'
    BY <1>0, <1>1, <2>1, <2>2 DEF Outdated, Kinds
  <2> QED BY <1>0, <1>1, <1>5, <2>1, <2>3, OtherSessions
<1> QED BY <1>0, <1>2, <1>3, <1>4, <1>5 DEF SessionInv, ClientInv, Survives

LEMMA SignOutKeepsInv ==
  ASSUME SessionInv, NEW d \in Devices, SignOut(d)
  PROVE  SessionInv'
<1>0. /\ TypeOK /\ OneRefresh /\ SignedOut(d) /\ Disturb
      /\ excused' = [excused EXCEPT ![d] = TRUE]
      /\ UNCHANGED <<now, version, active, stored, call, isRefreshing, request, sent, retried>>
  BY DEF SessionInv, ClientInv, SignOut, serverVars
<1>1. /\ pair'[d] = None /\ excused'[d]
      /\ \A e \in Devices \ {d} : /\ pair'[e] = pair[e] /\ user'[e] = user[e]
                                  /\ excused'[e] = excused[e]
  BY <1>0 DEF SignedOut, TypeOK
<1>2. TypeOK'
  BY <1>0, ClientAssumption DEF SignedOut, Disturb, TypeOK
<1>3. OneRefresh'
  BY <1>0, RefreshesUnchanged
<1>4. TokensOfCalls'
  BY <1>0, <1>1 DEF SessionInv, TokensOfCalls
<1>5. ASSUME NEW x \in Devices, ~excused'[x] PROVE Survives(x)'
  <2>1. x # d /\ ~excused[x] /\ Outdated(d, x)
    BY <1>1, <1>5 DEF SessionInv
  <2>2. Outdated(d, x)'
    BY <1>0, <1>1, <2>1 DEF Outdated
  <2> QED BY <1>0, <1>1, <2>1, <2>2, OtherSessions
<1> QED BY <1>2, <1>3, <1>4, <1>5 DEF SessionInv, ClientInv, Survives

LEMMA LoseKeepsInv ==
  ASSUME SessionInv, NEW d \in Devices, NEW k \in Kinds, Lose(d, k)
  PROVE  SessionInv'
<1>0. /\ TypeOK /\ OneRefresh /\ call \in Calls /\ Disturb
      /\ call[d][k].step \in {"find", "ok"}
      /\ Step(d, k, "fail")
      /\ excused' = [excused EXCEPT ![d] = TRUE]
      /\ UNCHANGED <<now, version, active, stored, user, pair, isRefreshing, request, sent,
                     retried>>
  BY CallsTyped DEF SessionInv, ClientInv, Lose, Step
<1>1. /\ call' \in Calls
      /\ call'[d][k] \in Call
      /\ call'[d][k].step = "fail"
      /\ call'[d][k].user = call[d][k].user
      /\ call'[d][k].token = call[d][k].token
      /\ \A e \in Devices, j \in Kinds : e # d \/ j # k => call'[e][j] = call[e][j]
  <2>1. "fail" \in Steps /\ call[d][k].step \in Steps
    BY <1>0 DEF Steps
  <2> QED BY <1>0, <2>1, SetStep
<1>2. call[d][k] # NoCall /\ call'[d][k] # NoCall
  BY <1>0, <1>1 DEF NoCall
<1>3. excused'[d] /\ \A e \in Devices \ {d} : excused'[e] = excused[e]
  BY <1>0 DEF TypeOK
<1>4. TypeOK'
  <2>1. disturbances' \in 0 .. MaxDisturbances
    BY <1>0, ClientAssumption DEF Disturb, TypeOK
  <2>2. excused' \in [Devices -> BOOLEAN]
    BY <1>0 DEF TypeOK
  <2> QED BY <1>0, <1>1, <2>1, <2>2 DEF TypeOK, Calls
<1>5. OneRefresh'
  <2>1. \A e \in Devices : \/ call'[e]["refresh"] = call[e]["refresh"]
                           \/ /\ call'[e]["refresh"] # NoCall /\ call[e]["refresh"] # NoCall
                              /\ call'[e]["refresh"].token # None
    BY <1>0, <1>1, <1>2 DEF OneRefresh, Kinds
  <2> QED BY <1>0, <2>1, RefreshesUnchanged
<1>6. TokensOfCalls'
  BY <1>0, <1>1, <1>2 DEF SessionInv, TokensOfCalls
<1>7. ASSUME NEW x \in Devices, ~excused'[x] PROVE Survives(x)'
  <2>1. x # d /\ ~excused[x] /\ Outdated(d, x)
    BY <1>3, <1>7 DEF SessionInv
  <2>2. Outdated(d, x)'
    BY <1>0, <1>1, <1>2, <2>1 DEF Outdated, Kinds
  <2> QED BY <1>0, <1>1, <2>1, <2>2, OtherSessions
<1> QED BY <1>4, <1>5, <1>6, <1>7 DEF SessionInv, ClientInv, Survives

-----------------------------------------------------------------------------
(* The server's steps.                                                     *)

(* What a step of the server that keeps a call's token and user, or signs  *)
(* it a new one, leaves of the invariant's other parts.                    *)
LEMMA ServerStepParts ==
  ASSUME SessionInv, NEW d \in Devices, NEW k \in Kinds,
         UNCHANGED <<now, version, active, user, pair, isRefreshing, request, sent, retried,
                     disturbances>>,
         excused' \in [Devices -> BOOLEAN], stored' \subseteq Token,
         call[d][k] \in Call, call' \in Calls, call'[d][k] \in Call,
         \A e \in Devices, j \in Kinds : e # d \/ j # k => call'[e][j] = call[e][j],
         call'[d][k].user = call[d][k].user,
         \/ /\ call'[d][k].token = call[d][k].token
            /\ call'[d][k].step \in {"insert", "ok"} => call[d][k].step \in {"insert", "ok"}
         \/ /\ call'[d][k].token \in Token
            /\ call'[d][k].token.user = call[d][k].user
            /\ call'[d][k].token.iat = now
  PROVE  TypeOK' /\ OneRefresh' /\ TokensOfCalls'
<1>0. TypeOK /\ OneRefresh /\ TokensOfCalls /\ now \in Nat
  BY ConstantsAssumption DEF SessionInv, ClientInv, TypeOK
<1>1. call[d][k] # NoCall /\ call'[d][k] # NoCall
  BY CallSteps DEF Call, NoCall, Steps
<1>2. TypeOK'
  BY <1>0 DEF TypeOK, Calls
<1>3. OneRefresh'
  <2>1. k = "refresh" => call[d][k].token # None
    BY <1>0, <1>1 DEF OneRefresh
  <2>2. k = "refresh" => call'[d][k].token # None
    BY <2>1, ConstantsAssumption
  <2>3. \A e \in Devices : \/ call'[e]["refresh"] = call[e]["refresh"]
                           \/ /\ call'[e]["refresh"] # NoCall /\ call[e]["refresh"] # NoCall
                              /\ call'[e]["refresh"].token # None
    BY <1>1, <2>2 DEF Kinds
  <2> QED BY <1>0, <2>3, RefreshesUnchanged
<1>4. TokensOfCalls'
  <2>1. /\ call'[d][k].step \in {"insert", "ok"} => call'[d][k].token # None
        /\ call'[d][k].token # None => /\ call'[d][k].token.user = call'[d][k].user
                                      /\ call'[d][k].token.iat <= now
    BY <1>0, <1>1, ConstantsAssumption DEF TokensOfCalls
  <2> QED BY <1>0, <2>1 DEF TokensOfCalls
<1> QED BY <1>2, <1>3, <1>4

(* What the server's step does to the clients' side, and whom it excuses.  *)
LEMMA ServerStepFrame ==
  ASSUME SessionInv, NEW d \in Devices, NEW k \in Kinds, ServerStep(d, k)
  PROVE  /\ TypeOK /\ OneRefresh /\ TokensOfCalls /\ call \in Calls
         /\ UNCHANGED <<user, pair, isRefreshing, request, sent, retried, disturbances>>
         /\ excused' \in [Devices -> BOOLEAN]
         /\ \A x \in Devices : ~excused'[x] =>
              /\ ~excused[x] /\ Undisturbed(x)
              /\ \A e \in Devices \ {x} : Outdated(e, x)
              /\ ~(k = "login" /\ LoginDelete(d) /\ pair[x] # None
                               /\ pair[x].user = call[d]["login"].user)
              /\ ~(k = "refresh" /\ RefreshFind(d) /\ x = d
                                 /\ Expired(call[d]["refresh"].token))
<1>1. TypeOK /\ OneRefresh /\ TokensOfCalls /\ call \in Calls
  BY CallsTyped DEF SessionInv, ClientInv
<1>2. /\ UNCHANGED <<user, pair, isRefreshing, request, sent, retried, disturbances>>
      /\ excused' = [e \in Devices |->
           \/ excused[e]
           \/ k = "login" /\ LoginDelete(d) /\ pair[e] # None
                          /\ pair[e].user = call[d]["login"].user
           \/ k = "refresh" /\ RefreshFind(d) /\ e = d /\ Expired(call[d]["refresh"].token)]
  BY DEF ServerStep
<1>3. excused' \in [Devices -> BOOLEAN]
  BY <1>2
<1>4. ASSUME NEW x \in Devices, ~excused'[x]
      PROVE  /\ ~excused[x]
             /\ ~(k = "login" /\ LoginDelete(d) /\ pair[x] # None
                              /\ pair[x].user = call[d]["login"].user)
             /\ ~(k = "refresh" /\ RefreshFind(d) /\ x = d
                                /\ Expired(call[d]["refresh"].token))
  BY <1>2, <1>4, Zenon
<1> QED BY <1>1, <1>2, <1>3, <1>4 DEF SessionInv

LEMMA LoginFindKeepsInv ==
  ASSUME SessionInv, NEW d \in Devices, ServerStep(d, "login"), LoginFind(d)
  PROVE  SessionInv'
<1>0. /\ "login" \in Kinds /\ call[d]["login"].step = "find"
      /\ UNCHANGED <<now, version, active, stored>>
  BY DEF LoginFind, Kinds
<1>1. /\ TypeOK /\ call \in Calls
      /\ UNCHANGED <<user, pair, isRefreshing, request, sent, retried, disturbances>>
      /\ excused' \in [Devices -> BOOLEAN]
      /\ \A x \in Devices : ~excused'[x] =>
           ~excused[x] /\ Undisturbed(x) /\ \A e \in Devices \ {x} : Outdated(e, x)
  BY <1>0, ServerStepFrame
<1>2. PICK s \in {"delete", "fail"} : Step(d, "login", s)
  BY DEF LoginFind
<1>3. /\ call' \in Calls /\ call'[d]["login"] \in Call
      /\ call'[d]["login"].step = s
      /\ call'[d]["login"].user = call[d]["login"].user
      /\ call'[d]["login"].token = call[d]["login"].token
      /\ \A e \in Devices, j \in Kinds : e # d \/ j # "login" => call'[e][j] = call[e][j]
  <2>1. s \in Steps /\ call[d]["login"].step \in Steps
    BY <1>0 DEF Steps
  <2> QED BY <1>0, <1>1, <1>2, <2>1, SetStep
<1>4. call[d]["login"] \in Call /\ call[d]["login"] # NoCall
  BY <1>0, <1>1, CallSteps DEF Steps, Calls
<1>5. TypeOK' /\ OneRefresh' /\ TokensOfCalls'
  BY <1>0, <1>1, <1>3, <1>4, ServerStepParts DEF TypeOK
<1>6. ASSUME NEW x \in Devices, ~excused'[x] PROVE Survives(x)'
  <2>1. x # d
    BY <1>1, <1>4, <1>6 DEF Undisturbed
  <2>2. Outdated(d, x)'
    BY <1>0, <1>1, <1>3, <1>4, <1>6, <2>1 DEF Outdated, Kinds
  <2> QED BY <1>0, <1>1, <1>3, <1>6, <2>1, <2>2, OtherSessions
<1> QED BY <1>5, <1>6 DEF SessionInv, ClientInv, Survives

(* A new sign-in ends the user's other sessions, and excuses them.         *)
LEMMA LoginDeleteKeepsInv ==
  ASSUME SessionInv, NEW d \in Devices, ServerStep(d, "login"), LoginDelete(d)
  PROVE  SessionInv'
<1>0. /\ "login" \in Kinds /\ call[d]["login"].step = "delete"
      /\ stored' = {t \in stored : t.user # call[d]["login"].user}
      /\ UNCHANGED <<now, version, active>>
  BY DEF LoginDelete, Kinds
<1>1. /\ TypeOK /\ call \in Calls
      /\ UNCHANGED <<user, pair, isRefreshing, request, sent, retried, disturbances>>
      /\ excused' \in [Devices -> BOOLEAN]
      /\ \A x \in Devices : ~excused'[x] =>
           /\ ~excused[x] /\ Undisturbed(x) /\ \A e \in Devices \ {x} : Outdated(e, x)
           /\ ~(pair[x] # None /\ pair[x].user = call[d]["login"].user)
  BY <1>0, ServerStepFrame
<1>3. /\ call' \in Calls /\ call'[d]["login"] \in Call
      /\ call'[d]["login"].step = "sign"
      /\ call'[d]["login"].user = call[d]["login"].user
      /\ call'[d]["login"].token = call[d]["login"].token
      /\ \A e \in Devices, j \in Kinds : e # d \/ j # "login" => call'[e][j] = call[e][j]
  <2>1. "sign" \in Steps /\ call[d]["login"].step \in Steps
    BY <1>0 DEF Steps
  <2> QED BY <1>0, <1>1, <2>1, SetStep DEF LoginDelete
<1>4. call[d]["login"] \in Call /\ call[d]["login"] # NoCall
  BY <1>0, <1>1, CallSteps DEF Steps, Calls
<1>5. TypeOK' /\ OneRefresh' /\ TokensOfCalls'
  BY <1>0, <1>1, <1>3, <1>4, ServerStepParts DEF TypeOK
<1>6. ASSUME NEW x \in Devices, ~excused'[x] PROVE Survives(x)'
  <2>1. x # d /\ pair[x].user # call[d]["login"].user
    BY <1>1, <1>4, <1>6 DEF Undisturbed
  <2>2. Outdated(d, x)'
    BY <1>0, <1>1, <1>3, <1>4, <1>6, <2>1 DEF Outdated, Kinds
  <2>3. {t \in stored' : t.user = pair[x].user} = {t \in stored : t.user = pair[x].user}
    BY <1>0, <2>1
  <2> QED BY <1>0, <1>1, <1>3, <1>6, <2>1, <2>2, <2>3, OtherSessions
<1> QED BY <1>5, <1>6 DEF SessionInv, ClientInv, Survives

(* The token of an undisturbed session is found; an outdated one is not.   *)
LEMMA RefreshFindKeepsInv ==
  ASSUME SessionInv, NEW d \in Devices, ServerStep(d, "refresh"), RefreshFind(d)
  PROVE  SessionInv'
<1> DEFINE t == call[d]["refresh"].token
<1>0. /\ "refresh" \in Kinds /\ call[d]["refresh"].step = "find"
      /\ UNCHANGED <<now, version, active, stored>>
  BY DEF RefreshFind, Kinds
<1>1. /\ TypeOK /\ OneRefresh /\ TokensOfCalls /\ call \in Calls
      /\ UNCHANGED <<user, pair, isRefreshing, request, sent, retried, disturbances>>
      /\ excused' \in [Devices -> BOOLEAN]
      /\ \A x \in Devices : ~excused'[x] =>
           /\ ~excused[x] /\ Undisturbed(x) /\ \A e \in Devices \ {x} : Outdated(e, x)
           /\ ~(x = d /\ Expired(t))
  BY <1>0, ServerStepFrame
<1>2. PICK s \in {"delete", "fail"} :
        /\ Step(d, "refresh", s)
        /\ s = "delete" <=> ~Expired(t) /\ t \in stored
  BY DEF RefreshFind
<1>3. /\ call' \in Calls /\ call'[d]["refresh"] \in Call
      /\ call'[d]["refresh"].step = s
      /\ call'[d]["refresh"].user = call[d]["refresh"].user
      /\ call'[d]["refresh"].token = t
      /\ \A e \in Devices, j \in Kinds : e # d \/ j # "refresh" => call'[e][j] = call[e][j]
  <2>1. s \in Steps /\ call[d]["refresh"].step \in Steps
    BY <1>0 DEF Steps
  <2> QED BY <1>0, <1>1, <1>2, <2>1, SetStep
<1>4. /\ call[d]["refresh"] \in Call /\ call[d]["refresh"] # NoCall
      /\ call'[d]["refresh"] # NoCall
      /\ t \in Token /\ t.user = call[d]["refresh"].user
  <2>1. /\ call[d]["refresh"] \in Call /\ call[d]["refresh"] # NoCall
        /\ call'[d]["refresh"] # NoCall
    BY <1>0, <1>1, <1>3, CallSteps DEF Steps, Calls
  <2> QED BY <1>1, <2>1, CallSteps DEF OneRefresh, TokensOfCalls, Kinds
<1>5. TypeOK' /\ OneRefresh' /\ TokensOfCalls'
  BY <1>0, <1>1, <1>3, <1>4, ServerStepParts DEF TypeOK
<1>6. ASSUME NEW x \in Devices, ~excused'[x] PROVE Survives(x)'
  <2>0. /\ ~excused[x] /\ Undisturbed(x) /\ \A e \in Devices \ {x} : Outdated(e, x)
        /\ ~(x = d /\ Expired(t))
    BY <1>1, <1>6
  <2>1. CASE x = d
    <3>1. s = "delete"
      <4>1. t = pair[d] /\ {u \in stored : u.user = pair[d].user} = {pair[d]}
        BY <1>0, <2>0, <2>1 DEF Undisturbed
      <4> QED BY <1>2, <2>0, <2>1, <4>1
    <3>2. Undisturbed(d)'
      BY <1>0, <1>1, <1>3, <1>4, <2>0, <2>1, <3>1 DEF Undisturbed, Current, Kinds
    <3>3. \A e \in Devices \ {d} : Outdated(e, d)'
      BY <1>0, <1>1, <1>3, <2>0, <2>1 DEF Outdated, Kinds
    <3> QED BY <2>1, <3>2, <3>3 DEF Survives
  <2>2. CASE x # d
    <3>1. t.user = pair[x].user => s = "fail"
      <4>1. SUFFICES ASSUME t.user = pair[x].user, t \in stored PROVE FALSE
        BY <1>2
      <4>2. t.iat < pair[x].iat
        BY <1>0, <1>4, <2>0, <2>2, <4>1 DEF Outdated
      <4>3. \/ t = pair[x]
            \/ /\ t = call[x]["refresh"].token /\ t.iat >= pair[x].iat
        <5>1. call[x]["refresh"].step \in Steps \cup {"none"}
          BY <1>1, CallSteps DEF Calls, Kinds
        <5>2. t \in {u \in stored : u.user = pair[x].user}
          BY <4>1
        <5>3. call[x]["refresh"].step # "fail"
          BY <2>0 DEF Undisturbed, Current, NoCall
        <5>4. CASE call[x]["refresh"].step = "ok"
          <6>1. /\ {u \in stored : u.user = pair[x].user} = {call[x]["refresh"].token}
                /\ call[x]["refresh"].token.iat >= pair[x].iat
            BY <2>0, <5>4 DEF Undisturbed
          <6> QED BY <5>2, <6>1
        <5>5. CASE call[x]["refresh"].step \in {"none", "find", "delete"}
          <6>1. {u \in stored : u.user = pair[x].user} = {pair[x]}
            BY <2>0, <5>5 DEF Undisturbed
          <6> QED BY <5>2, <6>1
        <5>6. CASE call[x]["refresh"].step \in {"sign", "insert"}
          <6>1. {u \in stored : u.user = pair[x].user} = {}
            BY <2>0, <5>6 DEF Undisturbed
          <6> QED BY <5>2, <6>1
        <5> QED BY <5>1, <5>3, <5>4, <5>5, <5>6 DEF Steps
      <4>4. t.iat \in Nat /\ pair[x].iat \in Nat
        <5>1. pair[x] \in Token
          BY <1>1, <2>0 DEF TypeOK, Undisturbed
        <5> QED BY <1>4, <5>1 DEF Token
      <4> QED BY <4>2, <4>3, <4>4
    <3>2. Outdated(d, x)'
      BY <1>0, <1>1, <1>3, <1>4, <2>0, <2>2, <3>1 DEF Outdated, Kinds
    <3> QED BY <1>0, <1>1, <1>3, <2>0, <2>2, <3>2, OtherSessions
  <2> QED BY <2>1, <2>2
<1> QED BY <1>5, <1>6 DEF SessionInv, ClientInv, Survives

LEMMA RefreshDeleteKeepsInv ==
  ASSUME SessionInv, NEW d \in Devices, ServerStep(d, "refresh"), RefreshDelete(d)
  PROVE  SessionInv'
<1> DEFINE t == call[d]["refresh"].token
<1>0. /\ "refresh" \in Kinds /\ call[d]["refresh"].step = "delete"
      /\ stored' = stored \ {t}
      /\ UNCHANGED <<now, version, active>>
  BY DEF RefreshDelete, Kinds
<1>1. /\ TypeOK /\ OneRefresh /\ TokensOfCalls /\ call \in Calls
      /\ UNCHANGED <<user, pair, isRefreshing, request, sent, retried, disturbances>>
      /\ excused' \in [Devices -> BOOLEAN]
      /\ \A x \in Devices : ~excused'[x] =>
           ~excused[x] /\ Undisturbed(x) /\ \A e \in Devices \ {x} : Outdated(e, x)
  BY <1>0, ServerStepFrame
<1>3. /\ call' \in Calls /\ call'[d]["refresh"] \in Call
      /\ call'[d]["refresh"].step = "sign"
      /\ call'[d]["refresh"].user = call[d]["refresh"].user
      /\ call'[d]["refresh"].token = t
      /\ \A e \in Devices, j \in Kinds : e # d \/ j # "refresh" => call'[e][j] = call[e][j]
  <2>1. "sign" \in Steps /\ call[d]["refresh"].step \in Steps
    BY <1>0 DEF Steps
  <2> QED BY <1>0, <1>1, <2>1, SetStep DEF RefreshDelete
<1>4. /\ call[d]["refresh"] \in Call /\ call[d]["refresh"] # NoCall
      /\ call'[d]["refresh"] # NoCall
      /\ t.user = call[d]["refresh"].user
  <2>1. /\ call[d]["refresh"] \in Call /\ call[d]["refresh"] # NoCall
        /\ call'[d]["refresh"] # NoCall
    BY <1>0, <1>1, <1>3, CallSteps DEF Steps, Calls
  <2> QED BY <1>1, <2>1, CallSteps DEF OneRefresh, TokensOfCalls, Kinds
<1>5. TypeOK' /\ OneRefresh' /\ TokensOfCalls'
  BY <1>0, <1>1, <1>3, <1>4, ServerStepParts DEF TypeOK
<1>6. ASSUME NEW x \in Devices, ~excused'[x] PROVE Survives(x)'
  <2>0. ~excused[x] /\ Undisturbed(x) /\ \A e \in Devices \ {x} : Outdated(e, x)
    BY <1>1, <1>6
  <2>1. CASE x = d
    <3>1. t = pair[d] /\ {u \in stored : u.user = pair[d].user} = {pair[d]}
      BY <1>0, <2>0, <2>1 DEF Undisturbed
    <3>2. {u \in stored' : u.user = pair[d].user} = {}
      BY <1>0, <3>1
    <3>3. Undisturbed(d)'
      BY <1>0, <1>1, <1>3, <1>4, <2>0, <2>1, <3>2 DEF Undisturbed, Current, Kinds
    <3>4. \A e \in Devices \ {d} : Outdated(e, d)'
      BY <1>0, <1>1, <1>3, <2>0, <2>1 DEF Outdated, Kinds
    <3> QED BY <2>1, <3>3, <3>4 DEF Survives
  <2>2. CASE x # d
    <3>1. t.user # pair[x].user
      BY <1>0, <1>4, <2>0, <2>2 DEF Outdated
    <3>2. Outdated(d, x)'
      BY <1>0, <1>1, <1>3, <1>4, <2>0, <2>2, <3>1 DEF Outdated, Kinds
    <3>3. {u \in stored' : u.user = pair[x].user} = {u \in stored : u.user = pair[x].user}
      BY <1>0, <3>1
    <3> QED BY <1>0, <1>1, <1>3, <2>0, <2>2, <3>2, <3>3, OtherSessions
  <2> QED BY <2>1, <2>2
<1> QED BY <1>5, <1>6 DEF SessionInv, ClientInv, Survives

LEMMA SignKeepsInv ==
  ASSUME SessionInv, NEW d \in Devices, NEW k \in Kinds, ServerStep(d, k), Sign(d, k)
  PROVE  SessionInv'
<1>0. call[d][k].step = "sign" /\ UNCHANGED <<now, version, active, stored>>
  BY DEF Sign
<1>1. /\ TypeOK /\ OneRefresh /\ TokensOfCalls /\ call \in Calls
      /\ UNCHANGED <<user, pair, isRefreshing, request, sent, retried, disturbances>>
      /\ excused' \in [Devices -> BOOLEAN]
      /\ \A x \in Devices : ~excused'[x] =>
           ~excused[x] /\ Undisturbed(x) /\ \A e \in Devices \ {x} : Outdated(e, x)
  BY <1>0, ServerStepFrame
<1>3. /\ call' \in Calls
      /\ call[d][k] \in Call /\ call'[d][k] \in Call
      /\ call'[d][k].step = "insert"
      /\ call'[d][k].user = call[d][k].user
      /\ call'[d][k].token \in Token
      /\ call'[d][k].token.user = call[d][k].user
      /\ call'[d][k].token.iat = now
      /\ call'[d][k].token.version = version[call[d][k].user]
      /\ \A e \in Devices, j \in Kinds : e # d \/ j # k => call'[e][j] = call[e][j]
  BY <1>1, SignedPair
<1>4. call[d][k] # NoCall /\ call'[d][k] # NoCall
  BY <1>0, <1>3 DEF NoCall
<1>5. TypeOK' /\ OneRefresh' /\ TokensOfCalls'
  BY <1>0, <1>1, <1>3, <1>4, ServerStepParts DEF TypeOK
<1>6. ASSUME NEW x \in Devices, ~excused'[x] PROVE Survives(x)'
  <2>0. ~excused[x] /\ Undisturbed(x) /\ \A e \in Devices \ {x} : Outdated(e, x)
    BY <1>1, <1>6
  <2>1. CASE x = d
    <3>1. k = "refresh" /\ "refresh" \in Kinds
      BY <1>4, <2>0, <2>1 DEF Undisturbed, Current, Kinds
    <3>2. pair[d].iat <= now
      BY <1>1, <2>0, <2>1 DEF Undisturbed, TokensOfCalls
    <3>3. now \in Nat /\ pair[d].iat \in Nat
      <4>1. pair[d] \in Token
        BY <1>1, <2>0, <2>1 DEF TypeOK, Undisturbed
      <4> QED BY <1>1, <4>1, ClockIsNat DEF Token
    <3>4. Undisturbed(d)'
      BY <1>0, <1>1, <1>3, <1>4, <2>0, <2>1, <3>1, <3>2, <3>3 DEF Undisturbed, Current, Kinds
    <3>5. \A e \in Devices \ {d} : Outdated(e, d)'
      BY <1>0, <1>1, <1>3, <2>0, <2>1 DEF Outdated, Kinds
    <3> QED BY <2>1, <3>4, <3>5 DEF Survives
  <2>2. CASE x # d
    <3>1. call[d][k].user # pair[x].user
      BY <1>0, <1>4, <2>0, <2>2 DEF Outdated, Kinds
    <3>2. Outdated(d, x)'
      BY <1>0, <1>1, <1>3, <1>4, <2>0, <2>2, <3>1 DEF Outdated, Kinds
    <3> QED BY <1>0, <1>1, <1>3, <2>0, <2>2, <3>2, OtherSessions
  <2> QED BY <2>1, <2>2
<1> QED BY <1>5, <1>6 DEF SessionInv, ClientInv, Survives

(* The UNIQUE constraint never refuses the pair of an undisturbed session: *)
(* the table holds no token of its user when the pair comes.               *)
LEMMA InsertKeepsInv ==
  ASSUME SessionInv, NEW d \in Devices, NEW k \in Kinds, ServerStep(d, k), InsertToken(d, k)
  PROVE  SessionInv'
<1> DEFINE t == call[d][k].token
<1>0. call[d][k].step = "insert" /\ UNCHANGED <<now, version, active>>
  BY DEF InsertToken
<1>1. /\ TypeOK /\ OneRefresh /\ TokensOfCalls /\ call \in Calls
      /\ UNCHANGED <<user, pair, isRefreshing, request, sent, retried, disturbances>>
      /\ excused' \in [Devices -> BOOLEAN]
      /\ \A x \in Devices : ~excused'[x] =>
           ~excused[x] /\ Undisturbed(x) /\ \A e \in Devices \ {x} : Outdated(e, x)
  BY <1>0, ServerStepFrame
<1>2. PICK s \in {"ok", "fail"} :
        /\ Step(d, k, s)
        /\ s = "fail" => t \in stored /\ stored' = stored
        /\ s = "ok" => t \notin stored /\ stored' = stored \cup {t}
  BY DEF InsertToken
<1>3. /\ call' \in Calls /\ call'[d][k] \in Call
      /\ call'[d][k].step = s
      /\ call'[d][k].user = call[d][k].user
      /\ call'[d][k].token = t
      /\ \A e \in Devices, j \in Kinds : e # d \/ j # k => call'[e][j] = call[e][j]
  <2>1. s \in Steps /\ call[d][k].step \in Steps
    BY <1>0 DEF Steps
  <2> QED BY <1>0, <1>1, <1>2, <2>1, SetStep
<1>4. /\ call[d][k] \in Call /\ call[d][k] # NoCall
      /\ call'[d][k] # NoCall
      /\ t \in Token /\ t.user = call[d][k].user
  <2>1. call[d][k] \in Call /\ call[d][k] # NoCall /\ call'[d][k] # NoCall
    BY <1>0, <1>1, <1>3, CallSteps DEF Steps, Calls
  <2> QED BY <1>0, <1>1, <2>1, CallSteps DEF TokensOfCalls
<1>5. TypeOK' /\ OneRefresh' /\ TokensOfCalls'
  <2>1. stored' \subseteq Token
    BY <1>1, <1>2, <1>4 DEF TypeOK
  <2> QED BY <1>0, <1>1, <1>3, <1>4, <2>1, ServerStepParts
<1>6. ASSUME NEW x \in Devices, ~excused'[x] PROVE Survives(x)'
  <2>0. ~excused[x] /\ Undisturbed(x) /\ \A e \in Devices \ {x} : Outdated(e, x)
    BY <1>1, <1>6
  <2>1. CASE x = d
    <3>1. k = "refresh" /\ "refresh" \in Kinds
      BY <1>4, <2>0, <2>1 DEF Undisturbed, Current, Kinds
    <3>2. /\ {u \in stored : u.user = pair[d].user} = {}
          /\ t.iat >= pair[d].iat /\ t.user = pair[d].user
          /\ t.version = version[pair[d].user]
      BY <1>0, <1>4, <2>0, <2>1, <3>1 DEF Undisturbed
    <3>3. s = "ok" /\ {u \in stored' : u.user = pair[d].user} = {t}
      BY <1>2, <3>2
    <3>4. Undisturbed(d)'
      BY <1>0, <1>1, <1>3, <1>4, <2>0, <2>1, <3>1, <3>2, <3>3 DEF Undisturbed, Current, Kinds
    <3>5. \A e \in Devices \ {d} : Outdated(e, d)'
      BY <1>0, <1>1, <1>3, <2>0, <2>1 DEF Outdated, Kinds
    <3> QED BY <2>1, <3>4, <3>5 DEF Survives
  <2>2. CASE x # d
    <3>1. t.user # pair[x].user
      BY <1>0, <1>4, <2>0, <2>2 DEF Outdated, Kinds
    <3>2. Outdated(d, x)'
      BY <1>0, <1>1, <1>3, <1>4, <2>0, <2>2, <3>1 DEF Outdated, Kinds
    <3>3. {u \in stored' : u.user = pair[x].user} = {u \in stored : u.user = pair[x].user}
      BY <1>2, <3>1
    <3> QED BY <1>0, <1>1, <1>3, <2>0, <2>2, <3>2, <3>3, OtherSessions
  <2> QED BY <2>1, <2>2
<1> QED BY <1>5, <1>6 DEF SessionInv, ClientInv, Survives

-----------------------------------------------------------------------------
(* The theorems.                                                           *)

(* SessionInv is inductive: every variable keeps its type, a device has    *)
(* one refresh under way at most, and a session nothing has disturbed      *)
(* finds the table as its next refresh needs it, whatever other devices,   *)
(* of the same user or of others, do meanwhile.                            *)
THEOREM SessionInvariant == Spec => []SessionInv
<1>1. Init => SessionInv
  <2> SUFFICES ASSUME Init PROVE SessionInv
    OBVIOUS
  <2> DEFINE first == [user |-> FirstUser, version |-> 1, iat |-> 0]
  <2>1. first \in Token /\ first # None
    BY ConstantsAssumption, ClientAssumption DEF Token
  <2>2. PICK d \in Devices :
          /\ user = [e \in Devices |-> IF e = d THEN FirstUser ELSE None]
          /\ pair = [e \in Devices |-> IF e = d THEN first ELSE None]
          /\ excused = [e \in Devices |-> e # d]
    BY DEF Init
  <2>3. \A e \in Devices, k \in Kinds : call[e][k] = NoCall
    BY DEF Init
  <2>4. TypeOK
    <3>1. now \in 0 .. MaxTime /\ version \in [Users -> 1 .. MaxVersion]
      BY ConstantsAssumption DEF Init
    <3>2. stored \subseteq Token /\ disturbances \in 0 .. MaxDisturbances
      BY <2>1, ClientAssumption DEF Init
    <3>3. user \in [Devices -> Users \cup {None}] /\ pair \in [Devices -> Token \cup {None}]
      BY <2>1, <2>2, ClientAssumption
    <3>4. excused \in [Devices -> BOOLEAN]
      BY <2>2
    <3> QED BY <3>1, <3>2, <3>3, <3>4 DEF Init, TypeOK, RequestStates
  <2>5. OneRefresh
    <3>1. \A e \in Devices : Refreshers(e) = {}
      BY DEF Init, Refreshers, On
    <3> QED BY <2>3, <3>1 DEF OneRefresh, Kinds
  <2>6. TokensOfCalls
    BY <2>1, <2>2, <2>3 DEF Init, TokensOfCalls
  <2>7. ASSUME NEW x \in Devices, ~excused[x]
        PROVE  Undisturbed(x) /\ \A e \in Devices \ {x} : Outdated(e, x)
    <3>1. x = d
      BY <2>2, <2>7
    <3>2. FirstUser # None
      BY ConstantsAssumption, ClientAssumption
    <3>3. user[x] = FirstUser /\ pair[x] = first /\ stored = {first}
      BY <2>2, <3>1 DEF Init
    <3>4. Current(pair[x])
      BY <3>3, ClientAssumption DEF Init, Current
    <3>5. Undisturbed(x)
      BY <2>1, <2>3, <3>2, <3>3, <3>4 DEF Undisturbed, NoCall, Kinds
    <3>6. \A e \in Devices \ {x} : Outdated(e, x)
      BY <2>2, <2>3, <3>1 DEF Outdated, Kinds
    <3> QED BY <3>5, <3>6
  <2> QED BY <2>4, <2>5, <2>6, <2>7 DEF SessionInv, ClientInv
<1>2. SessionInv /\ [Next]_vars => SessionInv'
  <2> SUFFICES ASSUME SessionInv, [Next]_vars PROVE SessionInv'
    OBVIOUS
  <2>1. ASSUME NEW q \in Requests, Send(q) \/ React(q) PROVE SessionInv'
    BY <2>1, SendKeepsInv, AnswerKeepsInv, ReceiveRefusedKeepsInv DEF React
  <2>2. ASSUME NEW d \in Devices, NEW k \in Kinds, ServerStep(d, k) PROVE SessionInv'
    <3>1. CASE k = "login" /\ (LoginFind(d) \/ LoginDelete(d))
      BY <2>2, <3>1, LoginFindKeepsInv, LoginDeleteKeepsInv
    <3>2. CASE k = "refresh" /\ (RefreshFind(d) \/ RefreshDelete(d))
      BY <2>2, <3>2, RefreshFindKeepsInv, RefreshDeleteKeepsInv
    <3>3. CASE Sign(d, k) \/ InsertToken(d, k)
      BY <2>2, <3>3, SignKeepsInv, InsertKeepsInv
    <3> QED BY <2>2, <3>1, <3>2, <3>3 DEF ServerStep, Serve
  <2>3. ASSUME NEW d \in Devices, NEW k \in Kinds, Complete(d, k) \/ Lose(d, k)
        PROVE  SessionInv'
    BY <2>2, <2>3, RefreshOkKeepsInv, RefreshFailKeepsInv, LoginOkKeepsInv,
       LoginFailKeepsInv, LoseKeepsInv DEF Complete
  <2>4. ASSUME NEW d \in Devices, SignOut(d) \/ \E u \in Users : SignIn(d, u)
        PROVE  SessionInv'
    BY <2>4, SignOutKeepsInv, SignInKeepsInv
  <2>5. ASSUME \/ \E u \in Users : ChangeUser(u)
               \/ TimePasses
               \/ UNCHANGED vars
        PROVE  SessionInv'
    <3>0. TypeOK /\ OneRefresh /\ now \in Nat
      BY ClockIsNat DEF SessionInv, ClientInv
    <3>1. /\ UNCHANGED <<stored, call, user, pair, isRefreshing, request, sent, retried>>
          /\ now' \in 0 .. MaxTime /\ now' \in Nat /\ now' >= now
      <4>1. CASE \E u \in Users : ChangeUser(u)
        BY <3>0, <4>1 DEF ChangeUser, ChangePassword, SetActive, TypeOK
      <4>2. CASE TimePasses
        BY <3>0, <4>2, ConstantsAssumption DEF TimePasses, Tick, clientVars, TypeOK
      <4>3. CASE UNCHANGED vars
        BY <3>0, <4>3 DEF vars, serverVars, clientVars, TypeOK
      <4> QED BY <2>5, <4>1, <4>2, <4>3
    <3>2. /\ version' \in [Users -> 1 .. MaxVersion] /\ active' \in [Users -> BOOLEAN]
          /\ disturbances' \in 0 .. MaxDisturbances /\ excused' \in [Devices -> BOOLEAN]
          /\ \A d \in Devices : ~excused'[d] =>
               /\ ~excused[d]
               /\ pair[d] # None => /\ version'[pair[d].user] = version[pair[d].user]
                                   /\ active'[pair[d].user] = active[pair[d].user]
      <4>1. CASE \E u \in Users : ChangeUser(u)
        <5>1. PICK u \in Users : ChangeUser(u)
          BY <4>1
        <5>2. disturbances' \in 0 .. MaxDisturbances
          BY <3>0, <5>1, ClientAssumption DEF ChangeUser, Disturb, TypeOK
        <5>3. \A d \in Devices : pair[d] # None => pair[d].user \in Users
          BY <3>0 DEF TypeOK, Token
        <5>4. CASE SetActive(u, TRUE) /\ UNCHANGED excused
          <6>1. \A d \in Devices : ~excused[d] /\ pair[d] # None => active[pair[d].user]
            BY DEF SessionInv, Undisturbed, Current
          <6> QED BY <3>0, <5>2, <5>3, <5>4, <6>1 DEF SetActive, TypeOK
        <5>5. ASSUME ChangePassword(u) \/ SetActive(u, FALSE),
                     excused' = [e \in Devices |->
                       excused[e] \/ (pair[e] # None /\ pair[e].user = u)]
              PROVE  /\ version' \in [Users -> 1 .. MaxVersion]
                     /\ active' \in [Users -> BOOLEAN] /\ excused' \in [Devices -> BOOLEAN]
                     /\ \A d \in Devices : ~excused'[d] =>
                          /\ ~excused[d]
                          /\ pair[d] # None =>
                               /\ version'[pair[d].user] = version[pair[d].user]
                               /\ active'[pair[d].user] = active[pair[d].user]
          <6>1. excused' \in [Devices -> BOOLEAN]
            BY <3>0, <5>5 DEF TypeOK
          <6>2. \A d \in Devices : ~excused'[d] =>
                  ~excused[d] /\ (pair[d] # None => pair[d].user # u)
            BY <3>0, <5>5 DEF TypeOK
          <6>3. CASE ChangePassword(u)
            BY <3>0, <5>3, <6>1, <6>2, <6>3, ConstantsAssumption DEF ChangePassword, TypeOK
          <6>4. CASE SetActive(u, FALSE)
            BY <3>0, <5>3, <6>1, <6>2, <6>4 DEF SetActive, TypeOK
          <6> QED BY <5>5, <6>3, <6>4
        <5> QED BY <5>1, <5>2, <5>4, <5>5 DEF ChangeUser
      <4>2. CASE TimePasses \/ UNCHANGED vars
        BY <3>0, <4>2 DEF TimePasses, Tick, vars, serverVars, clientVars, TypeOK
      <4> QED BY <2>5, <4>1, <4>2
    <3>3. TypeOK' /\ OneRefresh'
      BY <3>0, <3>1, <3>2, RefreshesUnchanged DEF TypeOK
    <3>4. TokensOfCalls' /\ \A x \in Devices : Survives(x)'
      BY <3>1, <3>2, QuietStep
    <3> QED BY <3>3, <3>4 DEF SessionInv, ClientInv, Survives
  <2> QED BY <2>1, <2>3, <2>4, <2>5 DEF Next
<1> QED BY <1>1, <1>2, PTL DEF Spec

(* The expiry of an access token never ends a session, for any users,      *)
(* devices, calls and lifetimes of tokens.                                 *)
THEOREM SessionsSurviveExpiry == Spec => []SessionSurvives
<1>1. SessionInv => SessionSurvives
  <2> SUFFICES ASSUME SessionInv, NEW d \in Devices, ~excused[d]
               PROVE  /\ user[d] # None
                      /\ call[d]["refresh"] = NoCall => pair[d] \in stored /\ Current(pair[d])
    BY DEF SessionSurvives
  <2>1. Undisturbed(d)
    BY DEF SessionInv
  <2>2. call[d]["refresh"] = NoCall => {t \in stored : t.user = pair[d].user} = {pair[d]}
    BY <2>1 DEF Undisturbed, Current, NoCall
  <2> QED BY <2>1, <2>2 DEF Undisturbed
<1> QED BY <1>1, SessionInvariant, PTL

=============================================================================
