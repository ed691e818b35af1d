--------------------------- MODULE AccountsProofs ---------------------------
(* Proofs about Accounts.  Lock 1 makes what a transaction has read of a   *)
(* role good until its write, although the statements themselves run       *)
(* outside the transaction; the constraint on phones does the rest.        *)
EXTENDS Accounts, TLAPS


-----------------------------------------------------------------------------
(* Statements.                                                             *)

(* What a write does to a row that was there: the columns that make a      *)
(* super admin change only by the operation meant for them.                *)
Touches(a, i) ==
  /\ rows'[i] # None
  /\ a.op \notin Locked \/ i # a.target =>
       /\ rows'[i].role = rows[i].role /\ rows'[i].active = rows[i].active
       /\ rows'[i].deleted = rows[i].deleted
  /\ a.op = "role" =>
       /\ rows'[i].active = rows[i].active /\ rows'[i].deleted = rows[i].deleted
       /\ rows'[i].role \in {rows[i].role, a.role}
  /\ a.op = "deactivate" =>
       /\ rows'[i].role = rows[i].role /\ rows'[i].deleted = rows[i].deleted
       /\ rows'[i].active \in {rows[i].active, a.flag}
  /\ a.op = "delete" => rows'[i].role = rows[i].role

(* The whole effect of a statement on the table.                           *)
LEMMA Effect ==
  ASSUME AccountsTypeOK, PhoneHasOneOwner, NEW c \in UserCalls, asked[c] \in Asks,
         Execute(c, ~Violates(asked[c]) /\ Hits(asked[c]))
  PROVE  /\ rows' \in [Ids -> Row \cup {None}]
         /\ PhoneHasOneOwner'
         /\ made' \subseteq UserCalls
         /\ \A i \in Ids : /\ rows[i] # None => Touches(asked[c], i)
                           /\ rows[i] = None /\ rows'[i] # None => rows'[i].role # "super_admin"
<1> DEFINE a == asked[c]
           hit == ~Violates(a) /\ Hits(a)
           Kept(i) == /\ rows[i] # None => Touches(a, i)
                      /\ rows[i] = None /\ rows'[i] # None => rows'[i].role # "super_admin"
<1>0. a \in Ask /\ a.target \in Ids /\ a.by \in Ids /\ a.phone \in Phones /\ a.role \in Roles
  BY AccountsAssumption DEF Ask
<1>1. /\ rows \in [Ids -> Row \cup {None}] /\ None \notin Row /\ None \notin Ids
      /\ made' \subseteq UserCalls
  BY AccountsAssumption DEF AccountsTypeOK, Execute
<1>2. ASSUME NEW i \in Ids, rows'[i] = rows[i]
      PROVE  Kept(i)
  BY <1>2 DEF Touches
<1>3. CASE ~hit
  <2>1. rows' = rows
    BY <1>3 DEF Execute
  <2> QED BY <1>1, <1>2, <2>1 DEF PhoneHasOneOwner
<1>4. CASE hit /\ a.op = "register"
  <2> DEFINE new == [phone |-> a.phone, role |-> a.role, active |-> TRUE,
                     verified |-> FALSE, deleted |-> FALSE]
  <2>1. PICK i \in Ids : rows[i] = None /\ rows' = [rows EXCEPT ![i] = new]
    BY <1>4 DEF Execute
  <2>2. new \in Row /\ new.role # "super_admin" /\ new.phone = a.phone
    BY <1>0, <1>4 DEF Row, Ask
  <2>3. \A j \in Ids : rows[j] # None => rows[j].phone # a.phone
    BY <1>1, <1>4 DEF Violates, PhoneTaken
  <2>4. rows'[i] = new /\ \A j \in Ids \ {i} : rows'[j] = rows[j]
    BY <1>1, <2>1
  <2>5. PhoneHasOneOwner'
    BY <2>1, <2>2, <2>3, <2>4 DEF PhoneHasOneOwner
  <2>6. Kept(i)
    BY <2>1, <2>2, <2>4
  <2> QED BY <1>1, <1>2, <2>1, <2>2, <2>4, <2>5, <2>6
<1>5. ASSUME hit, NEW t \in Ids, rows[t] # None, NEW new \in Row,
             rows' = [rows EXCEPT ![t] = new],
             \A j \in Ids \ {t} : rows[j] # None => rows[j].phone # new.phone,
             Touches(a, t)
      PROVE  /\ rows' \in [Ids -> Row \cup {None}] /\ PhoneHasOneOwner'
             /\ \A i \in Ids : Kept(i)
  <2>1. rows'[t] = new /\ \A j \in Ids \ {t} : rows'[j] = rows[j]
    BY <1>1, <1>5
  <2>2. PhoneHasOneOwner'
    BY <1>5, <2>1 DEF PhoneHasOneOwner
  <2>3. Kept(t)
    BY <1>5
  <2> QED BY <1>1, <1>2, <1>5, <2>1, <2>2, <2>3
<1>6. CASE hit /\ a.op = "profile"
  <2> DEFINE t == a.by
             new == [rows[t] EXCEPT !.phone = a.phone]
  <2>1. rows' = [rows EXCEPT ![t] = new]
    BY <1>6 DEF Execute
  <2>2. rows[t] \in Row /\ rows[t] # None /\ Live(t)
    BY <1>0, <1>1, <1>6 DEF Hits, Live
  <2>3. /\ new \in Row /\ new.phone = a.phone /\ new.role = rows[t].role
        /\ new.active = rows[t].active /\ new.deleted = rows[t].deleted
    BY <1>0, <2>2 DEF Row
  <2>4. \A j \in Ids \ {t} : rows[j] # None => rows[j].phone # new.phone
    BY <1>6, <2>2, <2>3 DEF Violates, PhoneTaken
  <2>5. Touches(a, t)
    BY <1>0, <1>1, <1>6, <2>1, <2>3 DEF Touches, Locked
  <2> QED BY <1>0, <1>1, <1>5, <1>6, <2>1, <2>2, <2>3, <2>4, <2>5
<1>7. CASE hit /\ a.op = "license"
  <2> DEFINE t == a.by
             new == [rows[t] EXCEPT !.verified = FALSE]
  <2>1. rows' = [rows EXCEPT ![t] = new]
    BY <1>7 DEF Execute
  <2>2. rows[t] \in Row /\ rows[t] # None
    BY <1>0, <1>1, <1>7 DEF Hits, Live
  <2>3. /\ new \in Row /\ new.phone = rows[t].phone /\ new.role = rows[t].role
        /\ new.active = rows[t].active /\ new.deleted = rows[t].deleted
    BY <2>2 DEF Row
  <2>4. \A j \in Ids \ {t} : rows[j] # None => rows[j].phone # new.phone
    BY <1>0, <2>2, <2>3 DEF PhoneHasOneOwner
  <2>5. Touches(a, t)
    BY <1>0, <1>1, <1>7, <2>1, <2>3 DEF Touches, Locked
  <2> QED BY <1>0, <1>1, <1>5, <1>7, <2>1, <2>2, <2>3, <2>4, <2>5
<1>8. CASE hit /\ a.op \in {"role", "deactivate", "delete", "verify"}
  <2> DEFINE t == a.target
             new == Updated(a)
  <2>1. rows' = [rows EXCEPT ![t] = new]
    BY <1>8 DEF Execute
  <2>2. rows[t] \in Row /\ rows[t] # None
    BY <1>0, <1>1, <1>8 DEF Hits, Live
  <2>3. /\ new \in Row /\ new.phone = rows[t].phone
        /\ a.op # "role" => new.role = rows[t].role
        /\ a.op # "deactivate" => new.active = rows[t].active
        /\ a.op # "delete" => new.deleted = rows[t].deleted
        /\ new.role \in {rows[t].role, a.role} /\ new.active \in {rows[t].active, a.flag}
    <3>1. a.flag \in BOOLEAN
      BY <1>0 DEF Ask
    <3>2. CASE a.op = "role"
      BY <1>0, <2>2, <3>2 DEF Updated, Row
    <3>3. CASE a.op = "deactivate"
      BY <1>0, <2>2, <3>1, <3>3 DEF Updated, Row
    <3>4. CASE a.op = "delete"
      BY <1>0, <2>2, <3>4 DEF Updated, Row
    <3>5. CASE a.op = "verify"
      BY <1>0, <2>2, <3>1, <3>5 DEF Updated, Row
    <3> QED BY <1>8, <3>2, <3>3, <3>4, <3>5
  <2>4. \A j \in Ids \ {t} : rows[j] # None => rows[j].phone # new.phone
    BY <1>0, <2>2, <2>3 DEF PhoneHasOneOwner
  <2>5. rows'[t] = new /\ new # None
    BY <1>0, <1>1, <2>1, <2>3
  <2>6. Touches(a, t)
    BY <1>8, <2>3, <2>5 DEF Touches, Locked
  <2> HIDE DEF new, t
  <2>7. t \in Ids
    BY <1>0 DEF t
  <2> QED BY <1>1, <1>5, <1>8, <2>1, <2>2, <2>3, <2>4, <2>6, <2>7
<1> QED BY <1>0, <1>1, <1>3, <1>4, <1>6, <1>7, <1>8 DEF Ask, Operations, Locked

-----------------------------------------------------------------------------
(* Steps.                                                                  *)

(* No request is made yet.                                                 *)
LEMMA AccountsInvInit == AccountsInit => AccountsInv
<1> SUFFICES ASSUME AccountsInit PROVE AccountsInv
  OBVIOUS
<1>1. AccountsTypeOK
  BY AccountsAssumption DEF AccountsInit, AccountsTypeOK
<1>2. PhoneHasOneOwner
  BY AccountsAssumption DEF AccountsInit, PhoneHasOneOwner
<1>3. AskedFor /\ LockHeld /\ RolesRead
  BY DEF AccountsInit, AskedFor, LockHeld, InTransaction, RolesRead
<1> QED BY <1>1, <1>2, <1>3 DEF AccountsInv

(* The statements that do not write users.                                 *)
Reads(c) ==
  \/ Authorise(c) \/ FindPhone(c) \/ Acquire(c) \/ ReadActor(c) \/ ReadTarget(c)
  \/ Commit(c) \/ Rollback(c) \/ Audit(c) \/ Die(c) \/ LoseCommit(c)

(* A request is made.                                                      *)
LEMMA AskStep ==
  ASSUME AccountsInv, NEW c \in UserCalls, NEW a \in Asks, AskFor(c, a)
  PROVE  AccountsInv' /\ UNCHANGED rows /\ Orphans' = Orphans
<1>1. /\ step[c] = "idle" /\ asked' = [asked EXCEPT ![c] = a]
      /\ step' = [step EXCEPT ![c] = IF a.op = "register" THEN "find" ELSE "protect"]
      /\ UNCHANGED <<rows, seen, holder, answer, made, audited, failures>>
  BY DEF AskFor, To
<1>2. AccountsTypeOK'
  BY <1>1 DEF AccountsInv, AccountsTypeOK, InFlight
<1>3. /\ \A d \in UserCalls \ {c} : step'[d] = step[d] /\ asked'[d] = asked[d]
      /\ asked'[c] = a /\ step'[c] = IF a.op = "register" THEN "find" ELSE "protect"
  BY <1>1 DEF AccountsInv, AccountsTypeOK
<1>4. Orphans' = Orphans
  BY <1>1, <1>3 DEF Orphans
<1>5. AskedFor' /\ LockHeld' /\ PhoneHasOneOwner'
  BY <1>1, <1>3 DEF AccountsInv, AskedFor, LockHeld, InTransaction, PhoneHasOneOwner
<1>6. RolesRead'
  BY <1>1, <1>3, <1>4 DEF AccountsInv, RolesRead, IsSuper, Live
<1> QED BY <1>1, <1>2, <1>4, <1>5, <1>6 DEF AccountsInv

(* Where a read leads, and what it has found.                              *)
LEMMA ReadLeads ==
  ASSUME AccountsInv, NEW c \in UserCalls, Reads(c)
  PROVE  \E s \in InFlight \cup Ended :
           /\ step' = [step EXCEPT ![c] = s]
           /\ step[c] \in InFlight
           /\ s = "find" => asked[c].op = "profile"
           /\ s \in {"actor", "target"} \/ (s = "write" /\ asked[c].op \in Locked)
                \/ s \in {"commit", "rollback"} => holder' = c
           /\ s = "write" => asked[c].op \notin Locked \/ step[c] = "target"
           /\ s = "write" /\ asked[c].op \in Locked /\ Demotes(asked[c])
                => ~IsSuper(asked[c].target)
           /\ s = "target" /\ asked[c].op = "role" /\ asked[c].role = "super_admin"
                => IsSuper(asked[c].by)
           /\ s # "overdue"
<1> USE DEF InFlight, Ended, To, Continue, Refuse, Abort, Reply, AccountsInv
<1>1. CASE Authorise(c)
  BY <1>1 DEF Authorise, Locked
<1>2. CASE FindPhone(c)
  BY <1>2 DEF FindPhone, AskedFor, Locked
<1>3. CASE Acquire(c)
  BY <1>3 DEF Acquire
<1>4. CASE ReadActor(c)
  BY <1>4 DEF ReadActor, LockHeld, InTransaction, IsSuper
<1>5. CASE ReadTarget(c)
  BY <1>5 DEF ReadTarget, LockHeld, InTransaction, IsSuper
<1>6. CASE Commit(c) \/ Rollback(c) \/ Audit(c) \/ LoseCommit(c)
  BY <1>6 DEF Commit, Rollback, Audit, LoseCommit
<1>7. CASE Die(c) /\ step[c] = "write"
  BY <1>7 DEF Die
<1>8. CASE Die(c) /\ step[c] # "write"
  BY <1>8 DEF Die
<1> QED BY <1>1, <1>2, <1>3, <1>4, <1>5, <1>6, <1>7, <1>8 DEF Reads

(* Reads change neither users nor what is asked, and a lock is only taken  *)
(* when it is free or given up by its holder.                              *)
LEMMA ReadFrame ==
  ASSUME AccountsInv, NEW c \in UserCalls, Reads(c)
  PROVE  /\ UNCHANGED <<rows, asked>>
         /\ \A d \in UserCalls \ {c} : holder = d => holder' = d
         /\ holder' \in UserCalls \cup {None}
         /\ seen' \in [UserCalls -> Roles \cup {None}]
         /\ answer' \in [UserCalls -> Nat]
         /\ made' \subseteq UserCalls /\ audited' \subseteq UserCalls
         /\ failures' \in 0 .. MaxFaults
<1> USE AccountsAssumption
    DEF To, Continue, Refuse, Abort, Reply, AccountsInv, AccountsTypeOK, Free
<1>1. CASE Authorise(c)
  <2>1. rows[asked[c].by] # None => rows[asked[c].by].role \in Roles
    BY <1>1 DEF AskedFor, Authorise, Ask, Row
  <2> QED BY <1>1, <2>1 DEF Authorise, Live
<1>2. CASE FindPhone(c)
  BY <1>2 DEF FindPhone
<1>3. CASE Acquire(c)
  BY <1>3 DEF Acquire
<1>4. CASE ReadActor(c)
  BY <1>4 DEF ReadActor
<1>5. CASE ReadTarget(c)
  BY <1>5 DEF ReadTarget
<1>6. CASE Commit(c)
  BY <1>6 DEF Commit
<1>7. CASE Rollback(c)
  BY <1>7 DEF Rollback
<1>8. CASE Audit(c)
  BY <1>8 DEF Audit
<1>9. CASE LoseCommit(c)
  BY <1>9 DEF LoseCommit, Fault
<1>10. CASE Die(c)
  BY <1>10 DEF Die, Fault
<1> QED
  BY <1>1, <1>2, <1>3, <1>4, <1>5, <1>6, <1>7, <1>8, <1>9, <1>10 DEF Reads

(* Reads, the lock and the ends of a transaction keep the invariant.       *)
LEMMA ReadStep ==
  ASSUME AccountsInv, NEW c \in UserCalls, Reads(c)
  PROVE  AccountsInv' /\ UNCHANGED rows /\ (Orphans' = {} => Orphans = {})
<1>1. PICK s \in InFlight \cup Ended :
        /\ step' = [step EXCEPT ![c] = s]
        /\ step[c] \in InFlight
        /\ s = "find" => asked[c].op = "profile"
        /\ s \in {"actor", "target"} \/ (s = "write" /\ asked[c].op \in Locked)
             \/ s \in {"commit", "rollback"} => holder' = c
        /\ s = "write" => asked[c].op \notin Locked \/ step[c] = "target"
        /\ s = "write" /\ asked[c].op \in Locked /\ Demotes(asked[c])
             => ~IsSuper(asked[c].target)
        /\ s = "target" /\ asked[c].op = "role" /\ asked[c].role = "super_admin"
             => IsSuper(asked[c].by)
        /\ s # "overdue"
  BY ReadLeads
<1>2. /\ UNCHANGED <<rows, asked>>
      /\ \A d \in UserCalls \ {c} : holder = d => holder' = d
  BY ReadFrame
<1>3. step'[c] = s /\ \A d \in UserCalls \ {c} : step'[d] = step[d]
  BY <1>1 DEF AccountsInv, AccountsTypeOK
<1>4. AccountsTypeOK'
  <2>1. step' \in [UserCalls -> InFlight \cup Ended \cup {"idle"}]
    BY <1>1 DEF AccountsInv, AccountsTypeOK
  <2> QED BY <2>1, <1>2, ReadFrame DEF AccountsInv, AccountsTypeOK
<1>5. PhoneHasOneOwner' /\ AskedFor'
  BY <1>1, <1>2, <1>3 DEF AccountsInv, PhoneHasOneOwner, AskedFor, InFlight
<1>6. LockHeld'
  BY <1>1, <1>2, <1>3 DEF AccountsInv, LockHeld, InTransaction
<1>7. Orphans' = {} => Orphans = {}
  BY <1>1, <1>3 DEF Orphans, InFlight
<1>8. RolesRead'
  <2> SUFFICES ASSUME Orphans' = {} PROVE RolesRead'
    BY DEF RolesRead
  <2>1. ASSUME NEW d \in UserCalls
        PROVE  /\ step'[d] = "write" /\ asked[d].op \in Locked /\ Demotes(asked[d])
                    => ~IsSuper(asked[d].target)
               /\ step'[d] \in {"target", "write"} /\ asked[d].op = "role"
                    /\ asked[d].role = "super_admin" => IsSuper(asked[d].by)
    <3>1. CASE d = c
      BY <1>1, <1>3, <1>7, <3>1 DEF AccountsInv, RolesRead, Locked
    <3>2. CASE d # c
      BY <1>3, <1>7, <3>2 DEF AccountsInv, RolesRead
    <3> QED BY <3>1, <3>2
  <2> QED BY <1>2, <2>1 DEF RolesRead, IsSuper, Live, Demotes
<1> QED BY <1>2, <1>4, <1>5, <1>6, <1>7, <1>8 DEF AccountsInv

-----------------------------------------------------------------------------
(* Writes.                                                                 *)

(* What a write that has not outlived its worker does to super admins.     *)
LEMMA WriteLeads ==
  ASSUME AccountsInv, NEW c \in UserCalls, Write(c)
  PROVE  /\ step[c] = "write" /\ asked[c] \in Asks
         /\ rows' \in [Ids -> Row \cup {None}]
         /\ PhoneHasOneOwner'
         /\ made' \subseteq UserCalls
         /\ \A i \in Ids : /\ rows[i] # None => Touches(asked[c], i)
                           /\ rows[i] = None /\ rows'[i] # None => rows'[i].role # "super_admin"
         /\ \E s \in {"done", "rollback", "commit", "audit"} :
              /\ step' = [step EXCEPT ![c] = s]
              /\ s \in {"rollback", "commit"} => asked[c].op \in Locked
         /\ answer' \in [UserCalls -> Nat]
         /\ UNCHANGED <<asked, seen, holder, audited, failures>>
<1> DEFINE a == asked[c]
<1>1. step[c] = "write" /\ a \in Asks /\ Execute(c, ~Violates(a) /\ Hits(a))
      /\ UNCHANGED <<asked, seen, holder, audited, failures>>
  BY DEF Write, AccountsInv, AskedFor
<1>2. a.op \in Operations
  BY <1>1, AccountsAssumption DEF Ask
<1>3. /\ rows' \in [Ids -> Row \cup {None}]
      /\ PhoneHasOneOwner'
      /\ made' \subseteq UserCalls
      /\ \A i \in Ids : /\ rows[i] # None => Touches(a, i)
                        /\ rows[i] = None /\ rows'[i] # None => rows'[i].role # "super_admin"
  BY <1>1, Effect DEF AccountsInv
<1>4. /\ \E s \in {"done", "rollback", "commit", "audit"} :
           /\ step' = [step EXCEPT ![c] = s]
           /\ s \in {"rollback", "commit"} => a.op \in Locked
      /\ answer' \in [UserCalls -> Nat]
  <2>1. CASE Violates(a)
    BY <2>1 DEF Write, Refuse, To, Reply, AccountsInv, AccountsTypeOK
  <2>2. CASE ~Violates(a) /\ ~Hits(a) /\ a.op \in {"verify", "profile", "license"}
    BY <2>2 DEF Write, Refuse, To, Reply, AccountsInv, AccountsTypeOK
  <2>3. CASE ~Violates(a) /\ ~Hits(a) /\ a.op = "role"
    BY <2>3 DEF Write, Abort, To, Reply, AccountsInv, AccountsTypeOK, Locked
  <2>4. CASE /\ ~Violates(a)
             /\ Hits(a) \/ a.op \notin {"verify", "profile", "license", "role"}
    <3>1. CASE a.op \in Locked
      <4>1. /\ a.op # "verify" /\ a.op # "register"
            /\ a.op \notin {"profile", "license"}
            /\ a.op \in {"role"} => Hits(a)
        BY <2>4, <3>1 DEF Locked
      <4>2. Continue(c, "commit")
        BY <2>4, <3>1, <4>1 DEF Write
      <4> QED BY <3>1, <4>2 DEF Continue, To, AccountsInv, AccountsTypeOK
    <3>2. CASE a.op = "verify"
      BY <2>4, <3>2 DEF Write, Continue, To, AccountsInv, AccountsTypeOK, Locked
    <3>3. CASE a.op = "register"
      BY <2>4, <3>3 DEF Write, Refuse, To, Reply, AccountsInv, AccountsTypeOK, Locked
    <3>4. CASE a.op \in {"profile", "license"}
      <4>1. Refuse(c, 200)
        BY <2>4, <3>4 DEF Write, Locked
      <4> QED BY <4>1 DEF Refuse, To, Reply, AccountsInv, AccountsTypeOK
    <3> QED BY <1>2, <3>1, <3>2, <3>3, <3>4 DEF Operations
  <2> QED BY <2>1, <2>2, <2>3, <2>4
<1> QED BY <1>1, <1>3, <1>4

(* A write leaves alone the super admins that another transaction relies   *)
(* on: only the holder of lock 1 changes roles.                            *)
LEMMA OthersKeepRoles ==
  ASSUME AccountsInv, NEW c \in UserCalls, Write(c),
         NEW d \in UserCalls, d # c, InTransaction(d),
         NEW i \in Ids
  PROVE  IsSuper(i)' <=> IsSuper(i)
<1>1. asked[c].op \notin Locked
  BY WriteLeads DEF AccountsInv, LockHeld, InTransaction
<1>2. /\ rows[i] # None => Touches(asked[c], i)
      /\ rows[i] = None /\ rows'[i] # None => rows'[i].role # "super_admin"
  BY WriteLeads
<1> QED BY <1>1, <1>2 DEF Touches, IsSuper, Live

(* A write keeps the invariant.                                            *)
LEMMA WriteStep ==
  ASSUME AccountsInv, NEW c \in UserCalls, Write(c)
  PROVE  AccountsInv' /\ Orphans' = Orphans
<1>1. PICK s \in {"done", "rollback", "commit", "audit"} :
        /\ step' = [step EXCEPT ![c] = s]
        /\ s \in {"rollback", "commit"} => asked[c].op \in Locked
  BY WriteLeads
<1>2. step[c] = "write" /\ UNCHANGED <<asked, seen, holder, audited, failures>>
  BY WriteLeads
<1>3. step'[c] = s /\ \A d \in UserCalls \ {c} : step'[d] = step[d]
  BY <1>1 DEF AccountsInv, AccountsTypeOK
<1>4. AccountsTypeOK'
  <2>1. step' \in [UserCalls -> InFlight \cup Ended \cup {"idle"}]
    BY <1>1 DEF AccountsInv, AccountsTypeOK, InFlight, Ended
  <2> QED BY <2>1, WriteLeads DEF AccountsInv, AccountsTypeOK
<1>5. PhoneHasOneOwner' /\ AskedFor'
  BY <1>2, <1>3, WriteLeads DEF AccountsInv, AskedFor
<1>6. LockHeld'
  BY <1>1, <1>2, <1>3 DEF AccountsInv, LockHeld, InTransaction
<1>7. Orphans' = Orphans
  BY <1>1, <1>2, <1>3 DEF Orphans
<1>8. ASSUME Orphans = {}, NEW d \in UserCalls
      PROVE  /\ step'[d] = "write" /\ asked[d].op \in Locked /\ Demotes(asked[d])
                  => ~IsSuper(asked[d].target)'
             /\ step'[d] \in {"target", "write"} /\ asked[d].op = "role"
                  /\ asked[d].role = "super_admin" => IsSuper(asked[d].by)'
  <2>1. CASE d = c
    BY <1>3, <2>1
  <2>2. CASE d # c
    <3>1. asked'[d] = asked[d] /\ step'[d] = step[d]
      BY <1>2, <1>3, <2>2
    <3> SUFFICES ASSUME step[d] = "target" \/ (step[d] = "write" /\ asked[d].op \in Locked)
                 PROVE  /\ step[d] = "write" /\ asked[d].op \in Locked /\ Demotes(asked[d])
                             => ~IsSuper(asked[d].target)'
                        /\ step[d] \in {"target", "write"} /\ asked[d].op = "role"
                             /\ asked[d].role = "super_admin" => IsSuper(asked[d].by)'
      BY <3>1 DEF Locked
    <3>2. InTransaction(d) /\ asked[d] \in Ask
      BY AccountsAssumption DEF InTransaction, AccountsInv, AskedFor
    <3>3. asked[d].target \in Ids /\ asked[d].by \in Ids
      BY <3>2 DEF Ask
    <3>4. \A i \in Ids : IsSuper(i)' <=> IsSuper(i)
      BY <2>2, <3>2, OthersKeepRoles
    <3>5. /\ IsSuper(asked[d].target)' <=> IsSuper(asked[d].target)
          /\ IsSuper(asked[d].by)' <=> IsSuper(asked[d].by)
      BY <1>2, <3>3, <3>4 DEF IsSuper, Live
    <3> QED BY <1>8, <3>5 DEF AccountsInv, RolesRead
  <2> QED BY <2>1, <2>2
<1>9. RolesRead'
  BY <1>2, <1>7, <1>8 DEF RolesRead, Demotes
<1> QED BY <1>4, <1>5, <1>6, <1>7, <1>9 DEF AccountsInv

(* So does one that has outlived its worker.                               *)
LEMMA OrphanStep ==
  ASSUME AccountsInv, NEW c \in UserCalls, OrphanWrite(c)
  PROVE  AccountsInv' /\ Orphans' # {}
<1>1. /\ step[c] = "orphan" /\ step' = [step EXCEPT ![c] = "overdue"]
      /\ asked[c] \in Asks /\ Execute(c, ~Violates(asked[c]) /\ Hits(asked[c]))
      /\ UNCHANGED <<asked, seen, holder, answer, audited, failures>>
  BY DEF OrphanWrite, To, AccountsInv, AskedFor
<1>2. step'[c] = "overdue" /\ \A d \in UserCalls \ {c} : step'[d] = step[d]
  BY <1>1 DEF AccountsInv, AccountsTypeOK
<1>3. Orphans' # {}
  BY <1>2 DEF Orphans
<1>4. AccountsTypeOK' /\ PhoneHasOneOwner'
  <2>1. /\ rows' \in [Ids -> Row \cup {None}] /\ PhoneHasOneOwner'
        /\ made' \subseteq UserCalls
    BY <1>1, Effect DEF AccountsInv
  <2>2. step' \in [UserCalls -> InFlight \cup Ended \cup {"idle"}]
    BY <1>1 DEF AccountsInv, AccountsTypeOK, Ended
  <2> QED BY <1>1, <2>1, <2>2 DEF AccountsInv, AccountsTypeOK
<1>5. AskedFor' /\ LockHeld'
  BY <1>1, <1>2 DEF AccountsInv, AskedFor, LockHeld, InTransaction
<1> QED BY <1>3, <1>4, <1>5 DEF AccountsInv, RolesRead

(* Every step keeps the invariant.                                         *)
LEMMA AccountsInvStep ==
  ASSUME AccountsInv, [AccountsNext]_accountVars
  PROVE  AccountsInv'
<1>1. CASE UNCHANGED accountVars
  BY <1>1 DEF accountVars, AccountsInv, AccountsTypeOK, PhoneHasOneOwner, AskedFor,
              LockHeld, InTransaction, RolesRead, IsSuper, Live, Orphans
<1>2. CASE AccountsNext
  <2>1. PICK c \in UserCalls :
          \/ \E a \in Asks : AskFor(c, a)
          \/ Reads(c) \/ Write(c) \/ OrphanWrite(c)
    BY <1>2 DEF AccountsNext, Handle, Reads
  <2> QED BY <2>1, AskStep, ReadStep, WriteStep, OrphanStep
<1> QED BY <1>1, <1>2

-----------------------------------------------------------------------------
(* Theorems.                                                               *)

(* The inductive invariant, and with it the types.                         *)
THEOREM AccountsSafe == AccountsSpec => []AccountsInv
BY AccountsInvInit, AccountsInvStep, PTL DEF AccountsSpec

(* PhoneHasOneOwner for any number of users and requests: two requests     *)
(* that both found a phone free never both take it.                        *)
THEOREM AccountsPhones == AccountsSpec => []PhoneHasOneOwner
<1>1. AccountsInv => PhoneHasOneOwner
  BY DEF AccountsInv
<1> QED BY <1>1, AccountsSafe, PTL

(* SuperAdminsKept for any number of users and requests: between the read  *)
(* of a role and the write it permits, lock 1 keeps that role from being   *)
(* given, so nobody is demoted, blocked or deleted just after a promotion. *)
THEOREM AccountsSuperAdmins == AccountsSpec => SuperAdminsKept
<1> DEFINE Keeps == Orphans' = {} => \A i \in Ids : SuperAdmin(i) => SuperAdmin(i)'
<1>1. ASSUME AccountsInv, UNCHANGED rows
      PROVE  Keeps
  BY <1>1 DEF SuperAdmin, Live
<1>2. ASSUME AccountsInv, NEW c \in UserCalls, Write(c), Orphans' = {},
             NEW i \in Ids, SuperAdmin(i)
      PROVE  SuperAdmin(i)'
  <2> DEFINE a == asked[c]
  <2>1. Orphans = {}
    BY <1>2, WriteStep
  <2>2. /\ step[c] = "write" /\ rows[i] # None /\ Touches(a, i)
    BY <1>2, WriteLeads DEF SuperAdmin, Live
  <2>3. a.op \in Locked /\ Demotes(a) => ~IsSuper(a.target)
    BY <1>2, <2>1, <2>2 DEF AccountsInv, RolesRead
  <2>4. /\ ~rows[i].deleted /\ rows[i].active /\ rows[i].role = "super_admin"
    BY <1>2 DEF SuperAdmin, Live
  <2>5. /\ ~rows'[i].deleted /\ rows'[i].active /\ rows'[i].role = "super_admin"
    <3>1. CASE a.op \notin Locked \/ i # a.target
      BY <2>2, <2>4, <3>1 DEF Touches
    <3>2. CASE a.op \in Locked /\ i = a.target
      <4>1. ~Demotes(a)
        BY <1>2, <2>3, <3>2 DEF IsSuper, SuperAdmin
      <4> QED BY <2>2, <2>4, <3>2, <4>1 DEF Touches, Demotes, Locked
    <3> QED BY <3>1, <3>2
  <2> QED BY <2>2, <2>5 DEF SuperAdmin, Live, Touches
<1>3. AccountsInv /\ [AccountsNext]_accountVars => [Keeps]_accountVars
  <2> SUFFICES ASSUME AccountsInv, AccountsNext PROVE Keeps
    OBVIOUS
  <2>1. PICK c \in UserCalls :
          \/ \E a \in Asks : AskFor(c, a)
          \/ Reads(c) \/ Write(c) \/ OrphanWrite(c)
    BY DEF AccountsNext, Handle, Reads
  <2> QED BY <1>1, <1>2, <2>1, AskStep, ReadStep, OrphanStep
<1> QED BY <1>3, AccountsSafe, PTL DEF AccountsSpec, SuperAdminsKept

(* PromotedBySuperAdmin for any number of users and requests: who promotes *)
(* is a super admin when the promotion is written.                         *)
THEOREM AccountsPromotions == AccountsSpec => PromotedBySuperAdmin
<1> DEFINE Promoted(i) == /\ ~SuperAdmin(i) /\ rows[i] # None
                          /\ rows[i].role # "super_admin" /\ SuperAdmin(i)'
           BySuper == \E c \in UserCalls : step[c] = "write" /\ Live(asked[c].by)
                                          /\ rows[asked[c].by].role = "super_admin"
           Step == Orphans' = {} =>
                     \A i \in Ids : ~SuperAdmin(i) /\ rows[i] # None /\ rows[i].role # "super_admin"
                                     /\ SuperAdmin(i)' =>
                       \E c \in UserCalls : step[c] = "write" /\ Live(asked[c].by)
                                            /\ rows[asked[c].by].role = "super_admin"
<1>1. ASSUME AccountsInv, UNCHANGED rows
      PROVE  Step
  BY <1>1 DEF SuperAdmin, Live
<1>2. ASSUME AccountsInv, NEW c \in UserCalls, Write(c), Orphans' = {},
             NEW i \in Ids, Promoted(i)
      PROVE  BySuper
  <2> DEFINE a == asked[c]
  <2>1. Orphans = {}
    BY <1>2, WriteStep
  <2>2. step[c] = "write" /\ a \in Ask /\ Touches(a, i)
    BY <1>2, WriteLeads, AccountsAssumption
  <2>3. rows'[i].role = "super_admin" /\ rows[i].role # "super_admin"
    BY <1>2 DEF SuperAdmin
  <2>4. a.op = "role" /\ a.role = "super_admin"
    BY <2>2, <2>3 DEF Touches, Locked
  <2>5. IsSuper(a.by)
    BY <1>2, <2>1, <2>2, <2>4 DEF AccountsInv, RolesRead
  <2> QED BY <2>2, <2>5 DEF IsSuper
<1>3. AccountsInv /\ [AccountsNext]_accountVars => [Step]_accountVars
  <2> SUFFICES ASSUME AccountsInv, AccountsNext PROVE Step
    OBVIOUS
  <2>1. PICK c \in UserCalls :
          \/ \E a \in Asks : AskFor(c, a)
          \/ Reads(c) \/ Write(c) \/ OrphanWrite(c)
    BY DEF AccountsNext, Handle, Reads
  <2> QED BY <1>1, <1>2, <2>1, AskStep, ReadStep, OrphanStep
<1> QED BY <1>3, AccountsSafe, PTL DEF AccountsSpec, PromotedBySuperAdmin

-----------------------------------------------------------------------------
(* What requests are told.                                                 *)

Refusals == {400, 401, 403, 404, 409, 500}

(* A request's step is its own.                                            *)
OwnStep(c) ==
  \A d \in UserCalls \ {c} : step'[d] = step[d] /\ answer'[d] = answer[d]

LEMMA StepsAreOwn ==
  ASSUME AccountsInv, NEW c \in UserCalls
  PROVE  /\ \A s : Continue(c, s) => step'[c] = s /\ answer'[c] = answer[c] /\ OwnStep(c)
         /\ \A n : Refuse(c, n) => step'[c] = "done" /\ answer'[c] = n /\ OwnStep(c)
         /\ \A n : Abort(c, n) => step'[c] = "rollback" /\ answer'[c] = n /\ OwnStep(c)
BY DEF AccountsInv, AccountsTypeOK, Continue, Refuse, Abort, To, Reply, OwnStep

(* A read answers by refusing, until the audit entry is written.           *)
ReadAnswers(c) ==
  \/ /\ step[c] \in Unwritten \ {"idle", "orphan"} /\ audited' = audited
     /\ \/ step'[c] \in {"done", "rollback"} /\ answer'[c] \in Refusals
        \/ step'[c] \in (Unwritten \ {"idle"}) \cup {"crashed"} /\ answer'[c] = answer[c]
     /\ step'[c] = "write" /\ asked[c].op = "deactivate" => Live(asked[c].target)
  \/ /\ step[c] = "commit" /\ audited' = audited
     /\ \/ step'[c] \in {"audit", "crashed"} /\ answer'[c] = answer[c]
        \/ step'[c] = "done" /\ answer'[c] = 500
  \/ /\ step[c] = "rollback" /\ audited' = audited
     /\ step'[c] \in {"done", "crashed"} /\ answer'[c] = answer[c]
  \/ /\ step[c] = "audit" /\ audited' \in {audited, audited \cup {c}}
     /\ \/ step'[c] = "done" /\ answer'[c] \in {200, 204}
        \/ step'[c] = "crashed" /\ answer'[c] = answer[c] /\ audited' = audited

LEMMA ReadsAnswer ==
  ASSUME AccountsInv, NEW c \in UserCalls, Reads(c)
  PROVE  made' = made /\ OwnStep(c) /\ ReadAnswers(c)
<1> USE StepsAreOwn DEF ReadAnswers, Unwritten, Refusals
<1>1. CASE Authorise(c)
  BY <1>1 DEF Authorise, Locked
<1>2. CASE FindPhone(c)
  <2>1. asked[c].op # "deactivate"
    BY <1>2 DEF FindPhone, AccountsInv, AskedFor
  <2> QED BY <1>2, <2>1 DEF FindPhone
<1>3. CASE Acquire(c)
  BY <1>3 DEF Acquire
<1>4. CASE ReadActor(c)
  BY <1>4 DEF ReadActor
<1>5. CASE ReadTarget(c)
  <2> DEFINE gone == asked[c].op = "deactivate" /\ ~Live(asked[c].target)
             kept == /\ Live(asked[c].target) /\ rows[asked[c].target].role = "super_admin"
                     /\ Demotes(asked[c])
  <2>1. CASE gone
    BY <1>5, <2>1 DEF ReadTarget
  <2>2. CASE kept
    BY <1>5, <2>2 DEF ReadTarget
  <2>3. CASE ~gone /\ ~kept
    <3>1. Continue(c, "write")
      BY <1>5, <2>3 DEF ReadTarget
    <3> QED BY <1>5, <2>3, <3>1 DEF ReadTarget
  <2> QED BY <2>1, <2>2, <2>3
<1>6. CASE Commit(c) \/ Rollback(c)
  BY <1>6 DEF Commit, Rollback
<1>7. CASE Audit(c)
  BY <1>7 DEF Audit
<1>8. CASE LoseCommit(c)
  BY <1>8 DEF LoseCommit
<1>9. CASE Die(c)
  <2>1. Continue(c, IF step[c] = "write" THEN "orphan" ELSE "crashed")
    BY <1>9 DEF Die, Continue
  <2>2. /\ step'[c] = IF step[c] = "write" THEN "orphan" ELSE "crashed"
        /\ answer'[c] = answer[c] /\ OwnStep(c)
    BY <2>1
  <2>3. step[c] \in InFlight /\ UNCHANGED <<made, audited>>
    BY <1>9 DEF Die
  <2>4. CASE step[c] = "write"
    BY <2>2, <2>3, <2>4
  <2>5. CASE step[c] # "write"
    BY <2>2, <2>3, <2>5 DEF InFlight
  <2> QED BY <2>4, <2>5
<1> QED BY <1>1, <1>2, <1>3, <1>4, <1>5, <1>6, <1>7, <1>8, <1>9 DEF Reads

(* What a write answers, or leaves to be answered.                         *)
WriteAnswers(c) ==
  \/ /\ made' = made
     /\ step'[c] \in {"done", "rollback"} /\ answer'[c] \in {404, 500}
  \/ /\ made' = made \cup {c}
     /\ step'[c] = "done" /\ answer'[c] \in {200, 201}
  \/ /\ made' = made \cup {c}
     /\ step'[c] \in {"commit", "audit"} /\ answer'[c] = answer[c]
  \/ /\ made' = made
     /\ step'[c] \in {"commit", "audit"} /\ answer'[c] = answer[c]
     /\ \/ asked[c].op = "delete" /\ rows[asked[c].target] = None
        \/ asked[c].op = "deactivate" /\ ~Live(asked[c].target)

LEMMA WritesAnswer ==
  ASSUME AccountsInv, NEW c \in UserCalls, Write(c)
  PROVE  OwnStep(c) /\ WriteAnswers(c)
<1> DEFINE a == asked[c]
           hit == ~Violates(a) /\ Hits(a)
<1>1. made' = IF hit THEN made \cup {c} ELSE made
  BY DEF Write, Execute
<1>2. a.op \in Operations
  BY AccountsAssumption DEF Write, AccountsInv, AskedFor, Ask
<1> USE StepsAreOwn DEF WriteAnswers
<1>3. CASE Violates(a)
  <2>1. Refuse(c, 500)
    BY <1>3 DEF Write
  <2> QED BY <1>1, <1>3, <2>1
<1>4. CASE ~Violates(a) /\ ~Hits(a) /\ a.op \in {"verify", "profile", "license"}
  <2>1. Refuse(c, 404)
    BY <1>4 DEF Write
  <2> QED BY <1>1, <1>4, <2>1
<1>5. CASE ~Violates(a) /\ ~Hits(a) /\ a.op = "role"
  <2>1. Abort(c, 404)
    BY <1>5 DEF Write
  <2> QED BY <1>1, <1>5, <2>1
<1>6. CASE ~Violates(a) /\ a.op \in Locked /\ (Hits(a) \/ a.op # "role")
  <2>1. Continue(c, "commit")
    BY <1>6 DEF Write, Locked
  <2>2. CASE Hits(a)
    BY <1>1, <1>6, <2>1, <2>2
  <2>3. CASE ~Hits(a)
    <3>1. \/ a.op = "delete" /\ rows[a.target] = None
          \/ a.op = "deactivate" /\ ~Live(a.target)
      BY <1>6, <2>3 DEF Hits, Locked
    <3> QED BY <1>1, <2>1, <2>3, <3>1
  <2> QED BY <2>2, <2>3
<1>7. CASE ~Violates(a) /\ Hits(a) /\ a.op = "verify"
  <2>1. Continue(c, "audit")
    BY <1>7 DEF Write, Locked
  <2> QED BY <1>1, <1>7, <2>1
<1>8. CASE ~Violates(a) /\ a.op = "register"
  <2>1. Hits(a) /\ Refuse(c, 201)
    BY <1>8 DEF Write, Hits, Locked
  <2> QED BY <1>1, <1>8, <2>1
<1>9. CASE ~Violates(a) /\ Hits(a) /\ a.op \in {"profile", "license"}
  <2>1. Refuse(c, 200)
    BY <1>9 DEF Write, Locked
  <2> QED BY <1>1, <1>9, <2>1
<1> QED
  BY <1>2, <1>3, <1>4, <1>5, <1>6, <1>7, <1>8, <1>9 DEF Operations, Locked

(* TruthInv by the request.                                                *)
TruthOf(c) ==
  /\ step[c] \in Unwritten => answer[c] = 0 /\ c \notin made /\ c \notin audited
  /\ step[c] = "write" /\ asked[c].op = "deactivate"
       => Live(asked[c].target) \/ Orphans # {}
  /\ step[c] \in {"commit", "audit"} => answer[c] = 0 /\ FoundRow(c)
  /\ step[c] = "rollback" => c \notin made
  /\ step[c] = "overdue" => answer[c] = 0
  /\ answer[c] \in {400, 401, 403, 404, 409} => c \notin made
  /\ answer[c] \in {200, 201, 204} \/ c \in audited => FoundRow(c)

LEMMA TruthByRequest ==
  TruthInv <=> /\ \A i \in Ids : FirstUsers[i] # None => rows[i] # None
               /\ \A c \in UserCalls : TruthOf(c)
BY DEF TruthInv, TruthOf

LEMMA TruthAfterwards ==
  ASSUME \A i \in Ids : FirstUsers[i] # None => rows'[i] # None,
         \A c \in UserCalls : TruthOf(c)'
  PROVE  TruthInv'
BY DEF TruthInv, TruthOf

(* A step of one request leaves what is true of the others.                *)
LEMMA OthersStayTrue ==
  ASSUME TruthInv, AccountsInv, NEW c \in UserCalls, OwnStep(c), NEW d \in UserCalls \ {c},
         asked'[d] = asked[d], made' \in {made, made \cup {c}},
         audited' \in {audited, audited \cup {c}},
         Orphans # {} => Orphans' # {},
         step[d] = "write" /\ asked[d].op = "deactivate" /\ Live(asked[d].target)
           => Live(asked[d].target)' \/ Orphans' # {}
  PROVE  TruthOf(d)'
<1>1. /\ step'[d] = step[d] /\ answer'[d] = answer[d]
      /\ d \in made' <=> d \in made
      /\ d \in audited' <=> d \in audited
  BY DEF OwnStep
<1>2. FoundRow(d) => FoundRow(d)'
  BY <1>1 DEF FoundRow
<1> QED BY <1>1, <1>2, TruthByRequest DEF TruthOf

(* Initially nothing is asked, answered or logged.                         *)
LEMMA TruthInvInit == AccountsInit => TruthInv
BY AccountsAssumption DEF AccountsInit, TruthInv, Unwritten

(* A request that is made.                                                 *)
LEMMA AskTrue ==
  ASSUME TruthInv, AccountsInv, NEW c \in UserCalls, NEW a \in Asks, AskFor(c, a)
  PROVE  TruthInv'
<1>1. /\ step[c] = "idle" /\ step'[c] \in {"find", "protect"} /\ OwnStep(c)
      /\ UNCHANGED <<rows, answer, made, audited>>
      /\ \A d \in UserCalls \ {c} : asked'[d] = asked[d]
  BY DEF AskFor, To, OwnStep, AccountsInv, AccountsTypeOK
<1>2. Orphans' = Orphans
  BY AskStep
<1>3. TruthOf(c)'
  BY <1>1, TruthByRequest DEF TruthOf, Unwritten
<1>4. ASSUME NEW d \in UserCalls \ {c} PROVE TruthOf(d)'
  BY <1>1, <1>2, OthersStayTrue DEF Live
<1>5. \A i \in Ids : FirstUsers[i] # None => rows'[i] # None
  BY <1>1 DEF TruthInv
<1> QED BY <1>3, <1>4, <1>5, TruthAfterwards

(* A read, the lock, an end of a transaction, a death.                     *)
LEMMA ReadTrue ==
  ASSUME TruthInv, AccountsInv, NEW c \in UserCalls, Reads(c)
  PROVE  TruthInv'
<1>1. /\ UNCHANGED <<rows, asked, made>> /\ OwnStep(c) /\ ReadAnswers(c)
      /\ audited' \in {audited, audited \cup {c}}
  BY ReadFrame, ReadsAnswer DEF ReadAnswers
<1>2. Orphans # {} => Orphans' # {}
  <2>1. ASSUME NEW d \in Orphans PROVE d \in Orphans'
    <3>1. d # c
      BY <2>1, <1>1 DEF Orphans, ReadAnswers, Unwritten
    <3> QED BY <1>1, <2>1, <3>1 DEF Orphans, OwnStep
  <2> QED BY <2>1
<1>3. TruthOf(c)
  BY TruthByRequest
<1>4. FoundRow(c) => FoundRow(c)'
  BY <1>1, <1>2 DEF FoundRow
<1>5. TruthOf(c)'
  <2>1. CASE step[c] \in Unwritten \ {"idle", "orphan"}
    BY <1>1, <1>3, <1>4, <2>1 DEF ReadAnswers, TruthOf, Unwritten, Refusals, Live
  <2>2. CASE step[c] = "commit"
    BY <1>1, <1>3, <1>4, <2>2 DEF ReadAnswers, TruthOf, Unwritten
  <2>3. CASE step[c] = "rollback"
    BY <1>1, <1>3, <1>4, <2>3 DEF ReadAnswers, TruthOf, Unwritten
  <2>4. CASE step[c] = "audit"
    BY <1>1, <1>3, <1>4, <2>4 DEF ReadAnswers, TruthOf, Unwritten
  <2> QED BY <1>1, <2>1, <2>2, <2>3, <2>4 DEF ReadAnswers
<1>6. ASSUME NEW d \in UserCalls \ {c} PROVE TruthOf(d)'
  BY <1>1, <1>2, OthersStayTrue DEF Live
<1>7. \A i \in Ids : FirstUsers[i] # None => rows'[i] # None
  BY <1>1 DEF TruthInv
<1> QED BY <1>5, <1>6, <1>7, TruthAfterwards

(* A write leaves alone the users another transaction relies on.           *)
LEMMA OthersKeepLive ==
  ASSUME AccountsInv, NEW c \in UserCalls, Write(c),
         NEW d \in UserCalls, d # c, InTransaction(d),
         NEW i \in Ids, Live(i)
  PROVE  Live(i)'
<1>1. asked[c].op \notin Locked
  BY WriteLeads DEF AccountsInv, LockHeld, InTransaction
<1>2. rows[i] # None /\ Touches(asked[c], i)
  BY WriteLeads DEF Live
<1> QED BY <1>1, <1>2 DEF Touches, Live

(* A write, and the answer that follows it.                                *)
LEMMA WriteTrue ==
  ASSUME TruthInv, AccountsInv, NEW c \in UserCalls, Write(c)
  PROVE  TruthInv'
<1>1. /\ step[c] = "write" /\ asked[c] \in Ask
      /\ UNCHANGED <<asked, audited>> /\ OwnStep(c) /\ WriteAnswers(c)
      /\ made' \in {made, made \cup {c}}
  BY WriteLeads, WritesAnswer, AccountsAssumption DEF WriteAnswers
<1>2. Orphans' = Orphans
  BY WriteStep
<1>3. /\ answer[c] = 0 /\ c \notin made /\ c \notin audited
      /\ asked[c].op = "deactivate" => Live(asked[c].target) \/ Orphans # {}
  BY <1>1, TruthByRequest DEF TruthOf, Unwritten
<1>4. asked[c].op = "delete" /\ rows[asked[c].target] = None
        => FirstUsers[asked[c].target] = None
  BY <1>1 DEF TruthInv, Ask
<1>5. TruthOf(c)'
  <2>1. CASE step'[c] \in {"commit", "audit"} /\ answer'[c] = answer[c]
    <3>1. FoundRow(c)'
      BY <1>1, <1>2, <1>3, <1>4, <2>1 DEF WriteAnswers, FoundRow
    <3> QED BY <1>1, <1>3, <2>1, <3>1 DEF TruthOf, Unwritten
  <2>2. CASE made' = made \cup {c} /\ step'[c] = "done" /\ answer'[c] \in {200, 201}
    BY <1>1, <1>3, <2>2 DEF TruthOf, FoundRow, Unwritten
  <2>3. CASE made' = made /\ step'[c] \in {"done", "rollback"} /\ answer'[c] \in {404, 500}
    BY <1>1, <1>3, <2>3 DEF TruthOf, Unwritten
  <2> QED BY <1>1, <2>1, <2>2, <2>3 DEF WriteAnswers
<1>6. ASSUME NEW d \in UserCalls \ {c} PROVE TruthOf(d)'
  <2>1. ASSUME step[d] = "write", asked[d].op = "deactivate", Live(asked[d].target)
        PROVE  Live(asked[d].target)'
    <3>1. InTransaction(d) /\ asked[d] \in Ask
      BY <2>1, AccountsAssumption DEF InTransaction, Locked, AccountsInv, AskedFor
    <3>2. asked[d].target \in Ids
      BY <3>1 DEF Ask
    <3>3. \A i \in Ids : Live(i) => Live(i)'
      BY <3>1, OthersKeepLive
    <3> QED BY <1>1, <2>1, <3>2, <3>3 DEF Live
  <2> QED BY <1>1, <1>2, <2>1, OthersStayTrue
<1>7. \A i \in Ids : FirstUsers[i] # None => rows'[i] # None
  BY WriteLeads DEF TruthInv, Touches
<1> QED BY <1>5, <1>6, <1>7, TruthAfterwards

(* A write that outlived its worker is answered to nobody.                 *)
LEMMA OrphanTrue ==
  ASSUME TruthInv, AccountsInv, NEW c \in UserCalls, OrphanWrite(c)
  PROVE  TruthInv'
<1>1. /\ step[c] = "orphan" /\ step' = [step EXCEPT ![c] = "overdue"]
      /\ asked[c] \in Asks /\ Execute(c, ~Violates(asked[c]) /\ Hits(asked[c]))
      /\ UNCHANGED <<asked, answer, audited>>
  BY DEF OrphanWrite, To, AccountsInv, AskedFor
<1>2. step'[c] = "overdue" /\ OwnStep(c) /\ made' \in {made, made \cup {c}}
  BY <1>1 DEF OwnStep, Execute, AccountsInv, AccountsTypeOK
<1>3. Orphans' # {}
  BY OrphanStep
<1>4. \A i \in Ids : rows[i] # None => rows'[i] # None
  BY <1>1, Effect DEF AccountsInv, Touches
<1>5. TruthOf(c)'
  <2>1. answer[c] = 0
    BY <1>1, TruthByRequest DEF TruthOf, Unwritten
  <2>2. FoundRow(c)'
    BY <1>3 DEF FoundRow
  <2> QED BY <1>1, <1>2, <2>1, <2>2 DEF TruthOf, Unwritten
<1>6. ASSUME NEW d \in UserCalls \ {c} PROVE TruthOf(d)'
  BY <1>1, <1>2, <1>3, OthersStayTrue
<1>7. \A i \in Ids : FirstUsers[i] # None => rows'[i] # None
  BY <1>4 DEF TruthInv
<1> QED BY <1>5, <1>6, <1>7, TruthAfterwards

(* Every statement keeps what is true of the rows and the calls.           *)
LEMMA TruthInvStep == AccountsInv /\ TruthInv /\ [AccountsNext]_accountVars => TruthInv'
<1> SUFFICES ASSUME AccountsInv, TruthInv, [AccountsNext]_accountVars PROVE TruthInv'
  OBVIOUS
<1>1. CASE UNCHANGED accountVars
  BY <1>1 DEF accountVars, TruthInv, FoundRow, Orphans, Live
<1>2. CASE AccountsNext
  <2>1. PICK c \in UserCalls :
          \/ \E a \in Asks : AskFor(c, a)
          \/ Reads(c) \/ Write(c) \/ OrphanWrite(c)
    BY <1>2 DEF AccountsNext, Handle, Reads
  <2> QED BY <2>1, AskTrue, ReadTrue, WriteTrue, OrphanTrue
<1> QED BY <1>1, <1>2

(* TruthInv, for any users, requests and faults.                           *)
THEOREM AccountsTruth == AccountsSpec => []TruthInv
BY TruthInvInit, TruthInvStep, AccountsSafe, PTL DEF AccountsSpec

(* AnswersTruthful for any users, requests and faults: a refused request   *)
(* has changed nothing, and what is answered or logged as done was done.   *)
THEOREM AccountsAnswerTruly == AccountsSpec => []AnswersTruthful
<1>1. TruthInv => AnswersTruthful
  BY DEF TruthInv, FoundRow, AnswersTruthful
<1> QED BY <1>1, AccountsTruth, PTL
=============================================================================
