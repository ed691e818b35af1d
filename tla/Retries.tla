------------------------------ MODULE Retries ------------------------------
(***************************************************************************)
(* The idempotency middleware in front of POST /bookings: attempts that    *)
(* carry one X-Idempotency-Key.  One step is one statement on              *)
(* idempotency_keys, or the whole handler behind the middleware.           *)
(***************************************************************************)
EXTENDS Naturals, FiniteSets

CONSTANTS
  Attempts,    \* the attempts of one request
  Results,     \* what the handler may answer, errors included
  KeyTables,   \* whether the table is there, which the setup does not create
  MaxKeyFaults,  \* bound on statements that fail
  NoResult

ASSUME RetriesAssumption ==
  KeyTables \subseteq BOOLEAN /\ MaxKeyFaults \in Nat /\ NoResult \notin Results

VARIABLES
  hasTable,
  saved,     \* the row of the key
  attempt,   \* where each attempt is
  ran,       \* what the handler answered each attempt that reached it
  told,      \* what the client of each attempt is sent
  late,      \* history: the attempts made once one had been answered
  keyFaults

retryVars == <<hasTable, saved, attempt, ran, told, late, keyFaults>>

AttemptSteps == {"unsent", "looking", "handling", "open", "saving", "sending", "over"}

RetriesInit ==
  /\ hasTable \in KeyTables
  /\ saved = NoResult
  /\ attempt = [a \in Attempts |-> "unsent"]
  /\ ran = [a \in Attempts |-> NoResult]
  /\ told = [a \in Attempts |-> NoResult]
  /\ late = {} /\ keyFaults = 0

Moves(a, from, to) == attempt[a] = from /\ attempt' = [attempt EXCEPT ![a] = to]
KeyFault == keyFaults < MaxKeyFaults /\ keyFaults' = keyFaults + 1
FindsNoTable == ~hasTable /\ UNCHANGED keyFaults

Try(a) ==
  /\ Moves(a, "unsent", "looking")
  /\ late' = IF \E b \in Attempts : attempt[b] = "over" THEN late \cup {a} ELSE late
  /\ UNCHANGED <<hasTable, saved, ran, told, keyFaults>>

(* SELECT: the row's answer, or next() with res.json replaced.             *)
LookForKey(a) ==
  /\ hasTable
  /\ IF saved # NoResult
     THEN Moves(a, "looking", "over") /\ told' = [told EXCEPT ![a] = saved]
     ELSE Moves(a, "looking", "handling") /\ UNCHANGED told
  /\ UNCHANGED <<hasTable, saved, ran, late, keyFaults>>

(* Fail-open: the handler runs and its answer is not kept.                 *)
CannotLook(a) ==
  /\ KeyFault \/ FindsNoTable
  /\ Moves(a, "looking", "open")
  /\ UNCHANGED <<hasTable, saved, ran, told, late>>

RunHandler(a, r) ==
  /\ Moves(a, "handling", "saving") \/ Moves(a, "open", "sending")
  /\ ran' = [ran EXCEPT ![a] = r]
  /\ UNCHANGED <<hasTable, saved, told, late, keyFaults>>

(* Mutant: the answer is sent first and kept behind its back.              *)
KeepLater(a) ==
  /\ Moves(a, "saving", "over")
  /\ told' = [told EXCEPT ![a] = ran[a]]
  /\ UNCHANGED <<hasTable, saved, ran, late, keyFaults>>

(* INSERT, ON CONFLICT DO NOTHING; the answer goes out even if it fails.   *)
KeepAnswer(a) ==
  /\ Moves(a, "saving", "sending")
  /\ \/ saved' = (IF saved = NoResult THEN ran[a] ELSE saved) /\ UNCHANGED keyFaults
     \/ KeyFault /\ UNCHANGED saved
  /\ UNCHANGED <<hasTable, ran, told, late>>

SendAnswer(a) ==
  /\ Moves(a, "sending", "over")
  /\ told' = [told EXCEPT ![a] = ran[a]]
  /\ UNCHANGED <<hasTable, saved, ran, late, keyFaults>>

RetriesNext ==
  \E a \in Attempts :
    \/ Try(a) \/ LookForKey(a) \/ CannotLook(a) \/ KeepAnswer(a) \/ SendAnswer(a)
    \/ \E r \in Results : RunHandler(a, r)

RetriesSpec == RetriesInit /\ [][RetriesNext]_retryVars

-----------------------------------------------------------------------------
(* Properties.                                                             *)

(* The variables keep their types.                                         *)
RetriesTypeOK ==
  /\ hasTable \in BOOLEAN /\ saved \in Results \cup {NoResult}
  /\ attempt \in [Attempts -> AttemptSteps]
  /\ ran \in [Attempts -> Results \cup {NoResult}]
  /\ told \in [Attempts -> Results \cup {NoResult}]
  /\ late \subseteq Attempts /\ keyFaults \in 0 .. MaxKeyFaults

(* A retry that is made once an attempt has been answered runs nothing and *)
(* repeats one and the same answer, as long as the table is there and no   *)
(* statement on it fails; attempts made at once may each run the handler.  *)
RetriesAgree ==
  hasTable /\ keyFaults = 0 =>
    \A a \in late : ran[a] = NoResult /\ told[a] \in {saved, NoResult}

-----------------------------------------------------------------------------
(* The inductive invariant behind it.                                      *)

(* No attempt has passed the middleware without keeping its answer; those  *)
(* that came late have not passed it at all.                               *)
AnswersKept ==
  hasTable /\ keyFaults = 0 =>
    /\ \A a \in Attempts :
         /\ attempt[a] # "open"
         /\ attempt[a] \in {"sending", "over"} => saved # NoResult
         /\ attempt[a] = "saving" => ran[a] # NoResult
         /\ attempt[a] \in {"unsent", "looking"} => ran[a] = NoResult /\ told[a] = NoResult
    /\ \A a \in late : /\ saved # NoResult
                       /\ attempt[a] \in {"looking", "over"}
                       /\ ran[a] = NoResult /\ told[a] \in {saved, NoResult}

RetriesInv == RetriesTypeOK /\ AnswersKept
=============================================================================
