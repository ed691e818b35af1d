------------------------------ MODULE Startup ------------------------------
(***************************************************************************)
(* The workers of RentGo's cluster from their start to their end: each one *)
(* sets the database up (setupDatabase, runSeedData), listens, serves and  *)
(* is stopped by a signal, with no lock between them.                      *)
(*                                                                         *)
(* One step is one database statement with the JavaScript up to the next   *)
(* await.  What a worker has read is where it goes next: a worker about to *)
(* insert the super admin is one that found none.                          *)
(***************************************************************************)
EXTENDS Naturals, Sequences, FiniteSets

CONSTANTS
  Workers,      \* the processes of the cluster
  Served,       \* the requests made to them
  FirstData,    \* the databases the cluster may be started on
  AutoInit,     \* AUTO_DB_INIT
  MaxDeaths     \* bound on processes killed and transactions that fail

Schema == <<"users", "regions", "cars", "reviews">>  \* the order of schema.sql
Tables == {Schema[i] : i \in DOMAIN Schema}
Columns == {"deleted_at", "location", "car_type", "status"}
SampleCars == 3

Person == {"none", "user", "super_admin", "deleted"}
Data == [database : BOOLEAN, tables : SUBSET Tables, columns : SUBSET Columns,
         regions : BOOLEAN,      \* whether the regions are there
         admin : Person,         \* the row with the super admin's phone
         john : Person,          \* the row with the regular user's phone
         cars : Nat]

(* The tables of a database are made in the order of schema.sql.           *)
InOrder(tables) ==
  \A i \in DOMAIN Schema : Schema[i] \in tables => \A j \in 1 .. i : Schema[j] \in tables

ASSUME StartupAssumption ==
  /\ IsFiniteSet(Workers)
  /\ FirstData \subseteq Data
  /\ \A d \in FirstData : InOrder(d.tables)
  /\ AutoInit \in BOOLEAN
  /\ MaxDeaths \in Nat

VARIABLES
  data,    \* the database
  stage,   \* the statement each worker makes next
  nth,     \* how many of a loop's statements it has made
  pooled,  \* whether the worker's pool still hands out connections
  signal,  \* the signal that stopped it
  served,  \* the requests: where each is, and how it was answered
  deaths

startupVars == <<data, stage, nth, pooled, signal, served, deaths>>

SettingUp == {"start", "database", "create", "check", "look", "migrate", "columns",
              "alter", "regions", "locate", "constraint", "super", "phone", "promote",
              "insertSuper", "john", "insertJohn", "owner", "cars", "sample"}
Stages == SettingUp \cup {"listening", "ending", "closing", "stopped", "failed"}
Request == [at : Workers \cup {"nobody"}, state : {"new", "running", "answered", "broken"}]

StartupInit ==
  /\ data \in FirstData
  /\ stage = [w \in Workers |-> "start"]
  /\ nth = [w \in Workers |-> 1]
  /\ pooled = [w \in Workers |-> TRUE]
  /\ signal = [w \in Workers |-> "none"]
  /\ served = [r \in Served |-> [at |-> "nobody", state |-> "new"]]
  /\ deaths = 0

-----------------------------------------------------------------------------
(* Setting up.  From(w, s) is the statement a worker at s makes; Then is   *)
(* where it goes.                                                          *)

At(w, s) == stage[w] = s
Then(w, s) == stage' = [stage EXCEPT ![w] = s]
Reset(w) == nth' = [nth EXCEPT ![w] = 1]
Count(w) == nth' = [nth EXCEPT ![w] = @ + 1]
NoServing == UNCHANGED <<pooled, signal, served, deaths>>
OnlyReads == UNCHANGED data /\ NoServing

Begin(w) ==
  /\ At(w, "start")
  /\ Then(w, IF AutoInit THEN "database" ELSE "listening")
  /\ UNCHANGED nth /\ OnlyReads

(* ensureDatabaseExists: two workers may both find none.                   *)
FindDatabase(w) ==
  /\ At(w, "database")
  /\ Then(w, IF data.database THEN "check" ELSE "create")
  /\ UNCHANGED nth /\ OnlyReads

CreateDatabase(w) ==
  /\ At(w, "create")
  /\ IF data.database THEN Then(w, "failed") /\ UNCHANGED data
     ELSE Then(w, "check") /\ data' = [data EXCEPT !.database = TRUE]
  /\ UNCHANGED nth /\ NoServing

(* Mutant: the check as it was before the table reviews.                   *)
RequiredBefore == {"users", "regions"}

(* The check asks for these: not for cars, which stands before reviews.    *)
Required == {"users", "regions", "reviews"}

CheckTables(w) ==
  /\ At(w, "check")
  /\ Then(w, IF Required \subseteq data.tables THEN "columns" ELSE "look")
  /\ Reset(w) /\ OnlyReads

(* Mutant: CREATE TABLE without IF NOT EXISTS.                             *)
NeverLook(w) ==
  /\ At(w, "look")
  /\ Then(w, IF nth[w] > Len(Schema) THEN "columns" ELSE "migrate")
  /\ UNCHANGED nth /\ OnlyReads

(* CREATE TABLE IF NOT EXISTS looks, then enters the catalogue, where a    *)
(* table made in between is a duplicate key.                               *)
LookForTable(w) ==
  /\ At(w, "look")
  /\ IF nth[w] > Len(Schema) THEN Then(w, "columns") /\ UNCHANGED nth
     ELSE IF Schema[nth[w]] \in data.tables THEN Then(w, "look") /\ Count(w)
     ELSE Then(w, "migrate") /\ UNCHANGED nth
  /\ OnlyReads

CreateTable(w) ==
  /\ At(w, "migrate")
  /\ IF Schema[nth[w]] \in data.tables
     THEN Then(w, "failed") /\ UNCHANGED <<data, nth>>
     ELSE /\ Then(w, "look") /\ Count(w)
          /\ data' = [data EXCEPT !.tables = @ \cup {Schema[nth[w]]},
                       !.columns = IF Schema[nth[w]] = "cars" THEN Columns ELSE @]
  /\ NoServing

(* One look at the columns, then ADD COLUMN IF NOT EXISTS for each group.  *)
CheckColumns(w) ==
  /\ At(w, "columns")
  /\ Then(w, IF data.columns = Columns THEN "regions" ELSE "alter")
  /\ UNCHANGED nth /\ OnlyReads

AddColumns(w) ==
  /\ At(w, "alter")
  /\ \/ \E c \in Columns \ data.columns :
          data' = [data EXCEPT !.columns = @ \cup {c}] /\ UNCHANGED stage
     \/ data.columns = Columns /\ Then(w, "regions") /\ UNCHANGED data
  /\ UNCHANGED nth /\ NoServing

CountRegions(w) ==
  /\ At(w, "regions")
  /\ Then(w, IF data.regions THEN "constraint" ELSE "locate")
  /\ UNCHANGED nth /\ OnlyReads

(* One transaction, ON CONFLICT DO NOTHING; its failure is only logged.    *)
SeedRegions(w) ==
  /\ At(w, "locate")
  /\ \/ data' = [data EXCEPT !.regions = TRUE] /\ UNCHANGED deaths
     \/ deaths < MaxDeaths /\ deaths' = deaths + 1 /\ UNCHANGED data
  /\ Then(w, "constraint")
  /\ UNCHANGED <<nth, pooled, signal, served>>

-----------------------------------------------------------------------------
(* runSeedData.                                                            *)

(* users_role_check with every role, and table audit_logs.                 *)
FixConstraint(w) ==
  /\ At(w, "constraint")
  /\ Then(w, "super")
  /\ UNCHANGED nth /\ OnlyReads

FindSuperAdmin(w) ==
  /\ At(w, "super")
  /\ Then(w, IF data.admin = "super_admin" THEN "john" ELSE "phone")
  /\ UNCHANGED nth /\ OnlyReads

FindAdminPhone(w) ==
  /\ At(w, "phone")
  /\ Then(w, IF data.admin \in {"none", "deleted"} THEN "insertSuper" ELSE "promote")
  /\ UNCHANGED nth /\ OnlyReads

Promote(w) ==
  /\ At(w, "promote")
  /\ data' = [data EXCEPT !.admin = "super_admin"]
  /\ Then(w, "john")
  /\ UNCHANGED nth /\ NoServing

(* The phone is UNIQUE, deleted rows included.                             *)
InsertSuper(w) ==
  /\ At(w, "insertSuper")
  /\ IF data.admin # "none" THEN Then(w, "failed") /\ UNCHANGED data
     ELSE Then(w, "john") /\ data' = [data EXCEPT !.admin = "super_admin"]
  /\ UNCHANGED nth /\ NoServing

FindJohn(w) ==
  /\ At(w, "john")
  /\ Then(w, IF data.john \in {"none", "deleted"} THEN "insertJohn" ELSE "owner")
  /\ UNCHANGED nth /\ OnlyReads

InsertJohn(w) ==
  /\ At(w, "insertJohn")
  /\ IF data.john # "none" THEN Then(w, "failed") /\ UNCHANGED data
     ELSE Then(w, "owner") /\ data' = [data EXCEPT !.john = "user"]
  /\ UNCHANGED nth /\ NoServing

FindOwner(w) ==
  /\ At(w, "owner")
  /\ Then(w, IF data.admin = "super_admin" THEN "cars" ELSE "failed")
  /\ UNCHANGED nth /\ OnlyReads

(* Mutant: the sample cars are inserted on every start.                    *)
AlwaysSample(w) ==
  /\ At(w, "cars")
  /\ Then(w, "sample")
  /\ Reset(w) /\ OnlyReads

CountCars(w) ==
  /\ At(w, "cars")
  /\ Then(w, IF data.cars = 0 THEN "sample" ELSE "listening")
  /\ Reset(w) /\ OnlyReads

(* The sample cars refer to regions.                                       *)
InsertSample(w) ==
  /\ At(w, "sample")
  /\ IF ~data.regions THEN Then(w, "failed") /\ UNCHANGED <<data, nth>>
     ELSE /\ data' = [data EXCEPT !.cars = @ + 1]
          /\ Then(w, IF nth[w] = SampleCars THEN "listening" ELSE "sample")
          /\ Count(w)
  /\ NoServing

SetUp(w) ==
  \/ Begin(w) \/ FindDatabase(w) \/ CreateDatabase(w) \/ CheckTables(w)
  \/ LookForTable(w) \/ CreateTable(w) \/ CheckColumns(w) \/ AddColumns(w)
  \/ CountRegions(w) \/ SeedRegions(w) \/ FixConstraint(w)
  \/ FindSuperAdmin(w) \/ FindAdminPhone(w) \/ Promote(w) \/ InsertSuper(w)
  \/ FindJohn(w) \/ InsertJohn(w) \/ FindOwner(w) \/ CountCars(w) \/ InsertSample(w)

-----------------------------------------------------------------------------
(* Serving and stopping.                                                   *)

(* An administrator deletes the regular user.                              *)
DeleteJohn ==
  /\ \E w \in Workers : At(w, "listening")
  /\ data.john = "user"
  /\ data' = [data EXCEPT !.john = "deleted"]
  /\ UNCHANGED <<stage, nth>> /\ NoServing

Running(w) == {r \in Served : served[r].at = w /\ served[r].state = "running"}

(* The server accepts connections until server.close, even once the pool   *)
(* has ended.                                                              *)
Accept(w, r) ==
  /\ stage[w] \in {"listening", "ending"}
  /\ served[r].state = "new"
  /\ served' = [served EXCEPT ![r] = [at |-> w, state |-> "running"]]
  /\ UNCHANGED <<data, stage, nth, pooled, signal, deaths>>

(* A statement over a pool that has ended is rejected.                     *)
Finish(w, r) ==
  /\ r \in Running(w)
  /\ served' = [served EXCEPT ![r].state = IF pooled[w] THEN "answered" ELSE "broken"]
  /\ UNCHANGED <<data, stage, nth, pooled, signal, deaths>>

Signal(w, s) == signal' = [signal EXCEPT ![w] = s]

(* Mutant: SIGTERM ends the pool first, as SIGINT does.                    *)
SigtermEndsPool(w) ==
  /\ At(w, "listening")
  /\ Then(w, "closing")
  /\ pooled' = [pooled EXCEPT ![w] = FALSE]
  /\ Signal(w, "SIGTERM")
  /\ UNCHANGED <<data, nth, served, deaths>>

(* server.close, on SIGTERM and on an unhandled rejection.                 *)
Sigterm(w) ==
  /\ At(w, "listening")
  /\ Then(w, "closing")
  /\ Signal(w, "SIGTERM")
  /\ UNCHANGED <<data, nth, pooled, served, deaths>>

(* pool.end comes before server.close.                                     *)
Sigint(w) ==
  /\ At(w, "listening")
  /\ pooled' = [pooled EXCEPT ![w] = FALSE]
  /\ Signal(w, "SIGINT")
  /\ Then(w, "ending")
  /\ UNCHANGED <<data, nth, served, deaths>>

PoolEnded(w) ==
  /\ At(w, "ending")
  /\ Then(w, "closing")
  /\ UNCHANGED nth /\ OnlyReads

Closed(w) ==
  /\ At(w, "closing")
  /\ Running(w) = {}
  /\ Then(w, "stopped")
  /\ UNCHANGED nth /\ OnlyReads

(* Killed while it sets up.  The process manager restarts what fails.      *)
Killed(w) ==
  /\ stage[w] \in SettingUp \ {"start"}
  /\ deaths < MaxDeaths
  /\ deaths' = deaths + 1
  /\ Then(w, "failed")
  /\ UNCHANGED <<data, nth, pooled, signal, served>>

Restart(w) ==
  /\ At(w, "failed")
  /\ Then(w, "start")
  /\ Reset(w) /\ OnlyReads

WorkerStep(w) ==
  \/ SetUp(w) \/ Restart(w) \/ Killed(w)
  \/ Sigterm(w) \/ Sigint(w) \/ PoolEnded(w) \/ Closed(w)
  \/ \E r \in Served : Accept(w, r) \/ Finish(w, r)

StartupNext == DeleteJohn \/ \E w \in Workers : WorkerStep(w)

StartupSpec == StartupInit /\ [][StartupNext]_startupVars

(* What goes on by itself in a worker.                                     *)
Proceeds(w) ==
  \/ SetUp(w) \/ Restart(w) \/ PoolEnded(w) \/ Closed(w)
  \/ \E r \in Served : Finish(w, r)

-----------------------------------------------------------------------------
(* Properties.                                                             *)

(* Every variable keeps its type.                                          *)
StartupTypeOK ==
  /\ data \in Data
  /\ stage \in [Workers -> Stages]
  /\ nth \in [Workers -> 1 .. SampleCars + 2]
  /\ pooled \in [Workers -> BOOLEAN]
  /\ signal \in [Workers -> {"none", "SIGTERM", "SIGINT"}]
  /\ served \in [Served -> Request]
  /\ deaths \in 0 .. MaxDeaths

(* A worker that listens after setting up finds a database that is         *)
(* complete, whoever of the cluster made which part of it and wherever one *)
(* of them died: all tables and columns, a super admin and a car.          *)
ListeningMeansReady ==
  AutoInit => \A w \in Workers : stage[w] \in {"listening", "ending", "closing"} =>
    /\ data.tables = Tables /\ data.columns = Columns
    /\ data.admin = "super_admin" /\ data.cars > 0

(* A worker that is killed and restarted does not insert its sample cars   *)
(* again: there is at most one set of them for each worker, unless the     *)
(* cars are those the database was first started with.                     *)
SamplesBounded ==
  \/ data.cars <= SampleCars * Cardinality(Workers)
  \/ data.cars \in {d.cars : d \in FirstData}

(* A database that has cars, with no worker in the midst of inserting      *)
(* samples, keeps their number: no start or restart from there on begins   *)
(* to insert any, however the workers race.                                *)
FoundCarsStay ==
  [][data.cars > 0 /\ (\A w \in Workers : ~At(w, "sample")) =>
       data'.cars = data.cars /\ \A w \in Workers : stage'[w] # "sample"]_startupVars

(* Only SIGINT breaks requests: one accepted by a worker that was stopped  *)
(* by SIGTERM is answered before the worker ends.                          *)
TermIsGraceful ==
  \A r \in Served :
    /\ served[r].state = "broken" => signal[served[r].at] = "SIGINT"
    /\ served[r].state = "running" => ~At(served[r].at, "stopped")

(* However the workers race, each one listens in the end, unless the seeds *)
(* meet the phone of somebody who was deleted.                             *)
EveryWorkerListens ==
  \A w \in Workers :
    stage[w] \in SettingUp ~> \/ At(w, "listening")
                              \/ "deleted" \in {data.john, data.admin}

-----------------------------------------------------------------------------
(* The inductive invariants behind them.                                   *)

(* The stages by what a worker there has made sure of.                     *)
Serving == {"listening", "ending", "closing"}
HasAdmin == {"john", "insertJohn", "owner", "cars", "sample"} \cup Serving
HasColumns ==
  {"regions", "locate", "constraint", "super", "phone", "promote", "insertSuper"} \cup HasAdmin
HasTables == {"columns", "alter"} \cup HasColumns

(* What a worker has made sure of is there, and stays there.               *)
ProvidedTo(w) ==
  /\ stage[w] \in {"look", "migrate"} => \A i \in 1 .. nth[w] - 1 : Schema[i] \in data.tables
  /\ stage[w] = "migrate" => nth[w] <= Len(Schema)
  /\ stage[w] = "sample" => nth[w] <= SampleCars
  /\ AutoInit =>
       /\ stage[w] \in HasTables => data.tables = Tables
       /\ stage[w] \in HasColumns => data.columns = Columns
       /\ stage[w] \in HasAdmin => data.admin = "super_admin"
       /\ stage[w] \in Serving => data.cars > 0
Provided == InOrder(data.tables) /\ \A w \in Workers : ProvidedTo(w)

(* Either every car is a sample that one worker inserted, each at most     *)
(* once, or the first database had cars and nobody inserts any.            *)
Sampled ==
  \/ \E samples \in SUBSET (Workers \X (1 .. SampleCars)) :
       /\ Cardinality(samples) = data.cars
       /\ \A w \in Workers : At(w, "sample") =>
            \A i \in 1 .. SampleCars : <<w, i>> \in samples <=> i < nth[w]
  \/ /\ data.cars \in {d.cars : d \in FirstData} \ {0}
     /\ \A w \in Workers : ~At(w, "sample")

(* Only SIGINT ends a pool; a worker is signalled once; what it has begun  *)
(* to answer it finishes before it stops.                                  *)
Stopping ==
  /\ \A w \in Workers :
       /\ ~pooled[w] => signal[w] = "SIGINT"
       /\ signal[w] # "none" => stage[w] \in {"ending", "closing", "stopped"}
  /\ \A r \in Served :
       /\ served[r].state \in {"running", "broken"} => served[r].at \in Workers
       /\ served[r].state = "running" => stage[served[r].at] \in Serving
       /\ served[r].state = "broken" => signal[served[r].at] = "SIGINT"

StartupInv == StartupTypeOK /\ Provided /\ Sampled /\ Stopping
=============================================================================
