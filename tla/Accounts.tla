------------------------------ MODULE Accounts ------------------------------
(***************************************************************************)
(* The users table of RentGo and the handlers that write it: registration, *)
(* a user's own profile and licence, and the administration of users,      *)
(* whose transactions hold advisory lock 1.                                *)
(*                                                                         *)
(* One step is one database statement together with the JavaScript that    *)
(* runs until the next await.  Only BEGIN, the lock, COMMIT and ROLLBACK   *)
(* go over the transaction's client: the repository's statements go over   *)
(* the pool, although some are handed the client, and commit by themselves.*)
(***************************************************************************)
EXTENDS Naturals

CONSTANTS
  Ids,        \* the ids of users
  Phones,
  FirstUsers, \* the table at the start: a row or None for each id
  UserCalls,  \* the requests, each made at most once
  Asks,       \* what a request may ask for
  MaxFaults,  \* bound on processes that die and COMMITs that are lost
  None

Roles == {"user", "owner", "support", "moderator", "admin", "super_admin"}
Row == [phone : Phones, role : Roles, active : BOOLEAN,
        verified : BOOLEAN, deleted : BOOLEAN]
Locked == {"role", "deactivate", "delete"}
Operations == Locked \cup {"verify", "register", "profile", "license"}
(* registerSchema lets a new user choose between two roles.                *)
Ask == {a \in [op : Operations, by : Ids, target : Ids, role : Roles,
               flag : BOOLEAN, phone : Phones] :
          a.op = "register" => a.role \in {"user", "admin"}}

ASSUME AccountsAssumption ==
  /\ FirstUsers \in [Ids -> Row \cup {None}]
  /\ \A i, j \in Ids :
       FirstUsers[i] # None /\ FirstUsers[j] # None /\ FirstUsers[i].phone = FirstUsers[j].phone
         => i = j
  /\ Asks \subseteq Ask
  /\ MaxFaults \in Nat
  /\ None \notin Row \cup UserCalls \cup Ids \cup Roles \cup Asks

VARIABLES
  rows,     \* table users: the row of each id, None while there is none
  asked,    \* what each request asks for
  step,     \* the statement each request makes next
  seen,     \* the role in req.user, as protect read it
  holder,   \* the request whose transaction holds advisory lock 1
  answer,   \* the HTTP status of each request, 0 while undecided
  made,     \* history: the requests whose write found its row
  audited,  \* the requests with an entry in audit_logs
  failures

accountVars == <<rows, asked, step, seen, holder, answer, made, audited, failures>>

Live(i) == rows[i] # None /\ ~rows[i].deleted
SuperAdmin(i) == Live(i) /\ rows[i].active /\ rows[i].role = "super_admin"

InFlight == {"protect", "find", "lock", "actor", "target", "write",
             "commit", "rollback", "audit"}
Ended == {"done", "crashed", "orphan", "overdue"}

AccountsInit ==
  /\ rows = FirstUsers
  /\ asked = [c \in UserCalls |-> None]
  /\ step = [c \in UserCalls |-> "idle"]
  /\ seen = [c \in UserCalls |-> None]
  /\ holder = None
  /\ answer = [c \in UserCalls |-> 0]
  /\ made = {}
  /\ audited = {}
  /\ failures = 0

-----------------------------------------------------------------------------
(* Helpers.                                                                *)

(* ROLE_PERMISSIONS, for the administration of users.                      *)
MayDo(role, op) ==
  \/ role \in {"super_admin", "admin"}
  \/ op \in {"register", "profile", "license"}

To(c, s) == step' = [step EXCEPT ![c] = s]
Reply(c, status) == answer' = [answer EXCEPT ![c] = status]
(* throw, outside and inside the transaction.                              *)
Refuse(c, status) == To(c, "done") /\ Reply(c, status)
Abort(c, status) == To(c, "rollback") /\ Reply(c, status)
Continue(c, s) == To(c, s) /\ UNCHANGED answer

-----------------------------------------------------------------------------
(* Before the service.                                                     *)

AskFor(c, a) ==
  /\ step[c] = "idle"
  /\ asked' = [asked EXCEPT ![c] = a]
  /\ To(c, IF a.op = "register" THEN "find" ELSE "protect")
  /\ UNCHANGED <<rows, seen, holder, answer, made, audited, failures>>

(* protect, hasPermission and what the service tests before its first      *)
(* statement.                                                              *)
Authorise(c) ==
  LET a == asked[c]
      u == rows[a.by]
  IN
  /\ step[c] = "protect"
  /\ IF ~Live(a.by) \/ ~u.active THEN Refuse(c, 401) /\ UNCHANGED seen
     ELSE /\ seen' = [seen EXCEPT ![c] = u.role]
          /\ IF ~MayDo(u.role, a.op) THEN Refuse(c, 403)
             ELSE IF a.op \in {"deactivate", "delete"} /\ a.target = a.by THEN Refuse(c, 400)
             ELSE Continue(c, CASE a.op \in Locked -> "lock"
                                [] a.op = "profile" -> "find"
                                [] OTHER -> "write")
  /\ UNCHANGED <<rows, asked, holder, made, audited, failures>>

(* findByPhone of register and of updateProfile.                           *)
FindPhone(c) ==
  LET a == asked[c] IN
  /\ step[c] = "find"
  /\ IF \E i \in Ids : /\ Live(i) /\ rows[i].phone = a.phone
                       /\ a.op = "register" \/ i # a.by
     THEN Refuse(c, IF a.op = "register" THEN 400 ELSE 409)
     ELSE Continue(c, "write")
  /\ UNCHANGED <<rows, asked, seen, holder, made, audited, failures>>

-----------------------------------------------------------------------------
(* The transactions of the administration.                                 *)

(* Mutant: the transaction without its advisory lock.                      *)
AcquireNoLock(c) ==
  /\ step[c] = "lock"
  /\ Continue(c, IF asked[c].op = "role" THEN "actor" ELSE "target")
  /\ UNCHANGED <<rows, asked, seen, holder, made, audited, failures>>

(* BEGIN and SELECT pg_advisory_xact_lock(1).                              *)
Acquire(c) ==
  /\ step[c] = "lock"
  /\ holder = None
  /\ holder' = c
  /\ Continue(c, IF asked[c].op = "role" THEN "actor" ELSE "target")
  /\ UNCHANGED <<rows, asked, seen, made, audited, failures>>

(* Mutant: hasPermission is trusted to have checked the caller.            *)
TrustActor(c) ==
  /\ step[c] = "actor"
  /\ IF asked[c].target = asked[c].by THEN Abort(c, 400) ELSE Continue(c, "target")
  /\ UNCHANGED <<rows, asked, seen, holder, made, audited, failures>>

(* updateUserRole reads the caller again before it lets it promote.        *)
ReadActor(c) ==
  LET a == asked[c] IN
  /\ step[c] = "actor"
  /\ IF a.role = "super_admin" /\ ~(Live(a.by) /\ rows[a.by].role = "super_admin")
     THEN Abort(c, 403)
     ELSE IF a.target = a.by THEN Abort(c, 400) ELSE Continue(c, "target")
  /\ UNCHANGED <<rows, asked, seen, holder, made, audited, failures>>

(* Whether the request would take a super admin's power away.              *)
Demotes(a) ==
  \/ a.op = "delete"
  \/ a.op = "role" /\ a.role # "super_admin"
  \/ a.op = "deactivate" /\ ~a.flag

(* adminRepository has no getSuperAdminCount: the call throws a TypeError. *)
ReadTarget(c) ==
  LET a == asked[c] IN
  /\ step[c] = "target"
  /\ CASE a.op = "deactivate" /\ ~Live(a.target) -> Abort(c, 404)
       [] Live(a.target) /\ rows[a.target].role = "super_admin" /\ Demotes(a)
            -> Abort(c, 500)
       [] OTHER -> Continue(c, "write")
  /\ UNCHANGED <<rows, asked, seen, holder, made, audited, failures>>

Free(c) == holder' = IF holder = c THEN None ELSE holder

Commit(c) ==
  /\ step[c] = "commit"
  /\ Free(c)
  /\ Continue(c, "audit")
  /\ UNCHANGED <<rows, asked, seen, made, audited, failures>>

(* Mutant: the client goes back to the pool with its transaction open.     *)
RollbackForgotten(c) ==
  /\ step[c] = "rollback"
  /\ Continue(c, "done")
  /\ UNCHANGED <<rows, asked, seen, holder, made, audited, failures>>

Rollback(c) ==
  /\ step[c] = "rollback"
  /\ Free(c)
  /\ Continue(c, "done")
  /\ UNCHANGED <<rows, asked, seen, made, audited, failures>>

-----------------------------------------------------------------------------
(* The write of each operation, over the pool.                             *)

(* users.phone is UNIQUE, deleted rows included.                           *)
PhoneTaken(i, p) == \E j \in Ids \ {i} : rows[j] # None /\ rows[j].phone = p

Updated(a) ==
  LET u == rows[a.target] IN
  CASE a.op = "role" -> [u EXCEPT !.role = a.role]
    [] a.op = "deactivate" -> [u EXCEPT !.active = a.flag]
    [] a.op = "delete" -> [u EXCEPT !.deleted = TRUE]
    [] a.op = "verify" -> [u EXCEPT !.verified = a.flag]
    [] OTHER -> u

(* The statement's effect; hit is whether it found a row.                  *)
Execute(c, hit) ==
  LET a == asked[c] IN
  /\ made' = IF hit THEN made \cup {c} ELSE made
  /\ CASE ~hit -> UNCHANGED rows
       [] hit /\ a.op = "register" ->
            \E i \in Ids :
              /\ rows[i] = None
              /\ rows' = [rows EXCEPT ![i] =
                   [phone |-> a.phone, role |-> a.role, active |-> TRUE,
                    verified |-> FALSE, deleted |-> FALSE]]
       [] hit /\ a.op = "profile" -> rows' = [rows EXCEPT ![a.by].phone = a.phone]
       [] hit /\ a.op = "license" -> rows' = [rows EXCEPT ![a.by].verified = FALSE]
       [] OTHER -> rows' = [rows EXCEPT ![a.target] = Updated(a)]

(* INSERT always inserts, delete() does not look at deleted_at, update()   *)
(* does.                                                                   *)
Hits(a) ==
  CASE a.op = "register" -> TRUE
    [] a.op = "delete" -> rows[a.target] # None
    [] a.op \in {"profile", "license"} -> Live(a.by)
    [] OTHER -> Live(a.target)

Violates(a) ==
  \/ a.op = "register" /\ PhoneTaken(None, a.phone)
  \/ a.op = "profile" /\ Live(a.by) /\ PhoneTaken(a.by, a.phone)

Write(c) ==
  LET a == asked[c] IN
  /\ step[c] = "write"
  /\ Execute(c, ~Violates(a) /\ Hits(a))
  /\ IF Violates(a) THEN Refuse(c, 500)
     ELSE IF ~Hits(a) /\ a.op \in {"verify", "profile", "license"} THEN Refuse(c, 404)
     ELSE IF ~Hits(a) /\ a.op = "role" THEN Abort(c, 404)
     ELSE CASE a.op \in Locked -> Continue(c, "commit")
            [] a.op = "verify" -> Continue(c, "audit")
            [] a.op = "register" -> Refuse(c, 201)
            [] a.op \in {"profile", "license"} -> Refuse(c, 200)
  /\ UNCHANGED <<asked, seen, holder, audited, failures>>

(* Mutant: the controller writes its entry before it calls the service.    *)
AuditFirst(c) ==
  /\ step[c] \in {"lock", "audit"}
  /\ audited' = audited \cup {c}
  /\ IF step[c] = "audit" THEN Refuse(c, 200) ELSE UNCHANGED <<step, answer>>
  /\ UNCHANGED <<rows, asked, seen, holder, made, failures>>

(* auditService.log catches every error: the entry may be missing.         *)
Audit(c) ==
  /\ step[c] = "audit"
  /\ audited' \in {audited, audited \cup {c}}
  /\ Refuse(c, IF asked[c].op = "delete" THEN 204 ELSE 200)
  /\ UNCHANGED <<rows, asked, seen, holder, made, failures>>

-----------------------------------------------------------------------------
(* Faults.                                                                 *)

Fault == failures < MaxFaults /\ failures' = failures + 1

(* The worker dies: its connections close, which frees the lock, but a     *)
(* statement it has sent still runs.                                       *)
Die(c) ==
  /\ step[c] \in InFlight
  /\ Fault
  /\ To(c, IF step[c] = "write" THEN "orphan" ELSE "crashed")
  /\ Free(c)
  /\ UNCHANGED <<rows, asked, seen, answer, made, audited>>

OrphanWrite(c) ==
  /\ step[c] = "orphan"
  /\ To(c, "overdue")
  /\ Execute(c, ~Violates(asked[c]) /\ Hits(asked[c]))
  /\ UNCHANGED <<asked, seen, holder, answer, audited, failures>>

(* The client's connection is lost during COMMIT: the pool's writes stay.  *)
LoseCommit(c) ==
  /\ step[c] = "commit"
  /\ Fault
  /\ Free(c)
  /\ Refuse(c, 500)
  /\ UNCHANGED <<rows, asked, seen, made, audited>>

-----------------------------------------------------------------------------
Handle(c) ==
  \/ Authorise(c) \/ FindPhone(c)
  \/ Acquire(c) \/ ReadActor(c) \/ ReadTarget(c)
  \/ Write(c) \/ Commit(c) \/ Rollback(c) \/ Audit(c)

AccountsNext ==
  \E c \in UserCalls :
    \/ \E a \in Asks : AskFor(c, a)
    \/ Handle(c)
    \/ Die(c) \/ OrphanWrite(c) \/ LoseCommit(c)

AccountsSpec == AccountsInit /\ [][AccountsNext]_accountVars

-----------------------------------------------------------------------------
(* Properties.                                                             *)

(* Every variable keeps its type.                                          *)
AccountsTypeOK ==
  /\ rows \in [Ids -> Row \cup {None}]
  /\ asked \in [UserCalls -> Asks \cup {None}]
  /\ step \in [UserCalls -> InFlight \cup Ended \cup {"idle"}]
  /\ seen \in [UserCalls -> Roles \cup {None}]
  /\ holder \in UserCalls \cup {None}
  /\ answer \in [UserCalls -> Nat]
  /\ made \subseteq UserCalls
  /\ audited \subseteq UserCalls
  /\ failures \in 0 .. MaxFaults

(* The writes a dying worker left behind.                                  *)
Orphans == {c \in UserCalls : step[c] \in {"orphan", "overdue"}}

(* Whatever the administrators do at the same time, an active super admin  *)
(* keeps the role: nobody is demoted, blocked or deleted on the strength   *)
(* of a role that was read before the promotion.  Only a write that        *)
(* outlived its worker, and with it the lock, could do that.               *)
SuperAdminsKept ==
  [][Orphans' = {} => \A i \in Ids : SuperAdmin(i) => SuperAdmin(i)']_accountVars

(* A user becomes a super admin only by a request of somebody who is one   *)
(* at that moment, not just when the request was authorised.               *)
PromotedBySuperAdmin ==
  [][Orphans' = {} =>
      \A i \in Ids : ~SuperAdmin(i) /\ rows[i] # None /\ rows[i].role # "super_admin"
                      /\ SuperAdmin(i)' =>
        \E c \in UserCalls : step[c] = "write" /\ Live(asked[c].by)
                             /\ rows[asked[c].by].role = "super_admin"]_accountVars

(* Two requests that both found a phone free never both take it.           *)
PhoneHasOneOwner ==
  \A i, j \in Ids :
    rows[i] # None /\ rows[j] # None /\ rows[i].phone = rows[j].phone => i = j

(* A request that is refused has changed nothing, and one that succeeds or *)
(* is in the audit log has found its row, but for the deletion of an id    *)
(* that was nobody's and a write that outlived its worker.                 *)
AnswersTruthful ==
  \A c \in UserCalls :
    /\ answer[c] \in {400, 401, 403, 404, 409} => c \notin made
    /\ answer[c] \in {200, 201, 204} \/ c \in audited =>
         \/ c \in made
         \/ asked[c].op = "delete" /\ FirstUsers[asked[c].target] = None
         \/ Orphans # {}

(* Every request ends: no handler waits for lock 1 for ever.               *)
EveryRequestEnds ==
  \A c \in UserCalls : step[c] \in InFlight ~> step[c] \in Ended

-----------------------------------------------------------------------------
(* The inductive invariants behind them.                                   *)

(* A request that has begun says what it wants; only two look for a phone. *)
AskedFor ==
  \A c \in UserCalls :
    /\ step[c] # "idle" => asked[c] \in Asks
    /\ step[c] = "find" => asked[c].op \in {"register", "profile"}

InTransaction(c) ==
  \/ step[c] \in {"actor", "target", "commit", "rollback"}
  \/ step[c] = "write" /\ asked[c].op \in Locked

LockHeld == \A c \in UserCalls : InTransaction(c) => holder = c

IsSuper(i) == Live(i) /\ rows[i].role = "super_admin"

(* What a transaction has read of roles, unless a write has outlived its   *)
(* worker's lock.                                                          *)
RolesRead ==
  Orphans = {} => \A c \in UserCalls :
    /\ step[c] = "write" /\ asked[c].op \in Locked /\ Demotes(asked[c])
         => ~IsSuper(asked[c].target)
    /\ step[c] \in {"target", "write"} /\ asked[c].op = "role"
         /\ asked[c].role = "super_admin" => IsSuper(asked[c].by)

AccountsInv == AccountsTypeOK /\ PhoneHasOneOwner /\ AskedFor /\ LockHeld /\ RolesRead

(* The statements before a request's write.                                *)
Unwritten == {"idle", "protect", "find", "lock", "actor", "target", "write", "orphan"}

FoundRow(c) ==
  \/ c \in made
  \/ asked[c].op = "delete" /\ FirstUsers[asked[c].target] = None
  \/ Orphans # {}

(* How far a request is, and what it has done, said and logged by then.    *)
TruthInv ==
  /\ \A i \in Ids : FirstUsers[i] # None => rows[i] # None
  /\ \A c \in UserCalls :
       /\ step[c] \in Unwritten => answer[c] = 0 /\ c \notin made /\ c \notin audited
       /\ step[c] = "write" /\ asked[c].op = "deactivate"
            => Live(asked[c].target) \/ Orphans # {}
       /\ step[c] \in {"commit", "audit"} => answer[c] = 0 /\ FoundRow(c)
       /\ step[c] = "rollback" => c \notin made
       /\ step[c] = "overdue" => answer[c] = 0
       /\ answer[c] \in {400, 401, 403, 404, 409} => c \notin made
       /\ answer[c] \in {200, 201, 204} \/ c \in audited => FoundRow(c)
=============================================================================
