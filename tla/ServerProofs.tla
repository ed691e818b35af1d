---------------------------- MODULE ServerProofs ----------------------------
(* Proofs about what the server does beside its transactions: it starts    *)
(* and stops (Startup), and answers a retry (Retries).                     *)
EXTENDS Startup, Retries, FiniteSetTheorems, TLAPS

(* The tables by their place in schema.sql.                                *)
LEMMA SchemaOrder ==
  /\ Len(Schema) = 4 /\ DOMAIN Schema = 1 .. 4
  /\ Schema[1] = "users" /\ Schema[2] = "regions" /\ Schema[3] = "cars" /\ Schema[4] = "reviews"
  /\ Tables = {"users", "regions", "cars", "reviews"}
BY DEF Schema, Tables

(* A database that has the last table of schema.sql, or all of them up to  *)
(* it, has them all.                                                       *)
LEMMA LastTable ==
  ASSUME NEW tables \in SUBSET Tables, InOrder(tables)
  PROVE  (Required \subseteq tables \/ \A i \in 1 .. Len(Schema) : Schema[i] \in tables)
           => tables = Tables
<1>1. \A i \in 1 .. 4 : Schema[i] \in tables => \A j \in 1 .. i : Schema[j] \in tables
  BY SchemaOrder DEF InOrder
<1>2. CASE Required \subseteq tables
  <2>1. \A j \in 1 .. 4 : Schema[j] \in tables
    BY <1>1, <1>2, SchemaOrder DEF Required
  <2>2. "users" \in tables /\ "regions" \in tables /\ "cars" \in tables /\ "reviews" \in tables
    BY <2>1, SchemaOrder
  <2> QED BY <2>2, SchemaOrder
<1>3. CASE \A i \in 1 .. Len(Schema) : Schema[i] \in tables
  <2>1. "users" \in tables /\ "regions" \in tables /\ "cars" \in tables /\ "reviews" \in tables
    BY <1>3, SchemaOrder
  <2> QED BY <2>1, SchemaOrder
<1> QED BY <1>2, <1>3

(* The next table may be added.                                            *)
LEMMA NextTable ==
  ASSUME NEW tables \in SUBSET Tables, InOrder(tables), NEW n \in 1 .. Len(Schema),
         \A i \in 1 .. n - 1 : Schema[i] \in tables
  PROVE  /\ InOrder(tables \cup {Schema[n]}) /\ tables \cup {Schema[n]} \subseteq Tables
         /\ \A i \in 1 .. n : Schema[i] \in tables \cup {Schema[n]}
<1>1. tables \cup {Schema[n]} \subseteq Tables
  BY SchemaOrder DEF Tables
<1>2. \A i \in 1 .. n : Schema[i] \in tables \cup {Schema[n]}
  BY SchemaOrder
<1>3. \A i \in 1 .. 4 : Schema[i] \in tables => \A j \in 1 .. i : Schema[j] \in tables
  BY SchemaOrder DEF InOrder
<1>4. \A i \in 1 .. 4 : Schema[i] = Schema[n] => i = n
  BY SchemaOrder
<1>5. \A i \in 1 .. 4 : Schema[i] \in tables \cup {Schema[n]} =>
        \A j \in 1 .. i : Schema[j] \in tables \cup {Schema[n]}
  BY <1>2, <1>3, <1>4
<1> QED BY <1>1, <1>2, <1>5, SchemaOrder DEF InOrder

(* A statement that writes one field leaves a database.                    *)
LEMMA DataWritten ==
  ASSUME NEW d \in Data
  PROVE  /\ [d EXCEPT !.database = TRUE] \in Data
         /\ \A tables \in SUBSET Tables, columns \in SUBSET Columns :
              [d EXCEPT !.tables = tables, !.columns = columns] \in Data
         /\ \A columns \in SUBSET Columns : [d EXCEPT !.columns = columns] \in Data
         /\ [d EXCEPT !.regions = TRUE] \in Data
         /\ \A who \in Person : [d EXCEPT !.admin = who] \in Data /\ [d EXCEPT !.john = who] \in Data
         /\ \A n \in Nat : [d EXCEPT !.cars = n] \in Data
BY DEF Data

-----------------------------------------------------------------------------
(* Initially nothing is set up and nothing is sampled.                     *)
LEMMA StartupInvInit == StartupInit => StartupInv
<1> SUFFICES ASSUME StartupInit PROVE StartupInv
  OBVIOUS
<1>1. StartupTypeOK
  BY StartupAssumption DEF StartupInit, StartupTypeOK, Stages, SettingUp, Request, SampleCars
<1>2. Provided
  BY StartupAssumption
  DEF StartupInit, Provided, ProvidedTo, HasTables, HasColumns, HasAdmin, Serving
<1>3. Sampled
  <2>1. data \in FirstData /\ data.cars \in Nat /\ \A w \in Workers : ~At(w, "sample")
    BY StartupAssumption DEF StartupInit, Data, At
  <2>2. CASE data.cars = 0
    <3>1. {} \in SUBSET (Workers \X (1 .. SampleCars)) /\ Cardinality({}) = data.cars
      BY <2>2, FS_EmptySet
    <3> QED BY <2>1, <3>1 DEF Sampled
  <2>3. CASE data.cars # 0
    BY <2>1, <2>3 DEF Sampled
  <2> QED BY <2>2, <2>3
<1>4. Stopping
  BY DEF StartupInit, Stopping
<1> QED BY <1>1, <1>2, <1>3, <1>4 DEF StartupInv

(* Every step keeps the types.                                             *)
LEMMA StartupTypeStep ==
  ASSUME StartupInv, [StartupNext]_startupVars
  PROVE  StartupTypeOK'
<1> USE DEF StartupInv, StartupTypeOK, At, Then, NoServing, OnlyReads
<1>0. CASE UNCHANGED startupVars
  BY <1>0 DEF startupVars
<1>1. CASE DeleteJohn
  BY <1>1 DEF DeleteJohn, Data, Person
<1> SUFFICES ASSUME NEW w \in Workers, StartupNext,
                    WorkerStep(w)
             PROVE  StartupTypeOK'
  BY <1>0, <1>1 DEF StartupNext
<1>2. CASE Begin(w) \/ FindDatabase(w)
  BY <1>2 DEF Begin, FindDatabase, Stages, SettingUp
<1>3. CASE CreateDatabase(w)
  <2>1. data' \in Data
    BY <1>3, DataWritten DEF CreateDatabase
  <2> QED BY <1>3, <2>1 DEF CreateDatabase, Stages, SettingUp
<1>4. CASE CheckTables(w)
  BY <1>4 DEF CheckTables, Reset, Stages, SettingUp, SampleCars
<1>5. CASE LookForTable(w)
  BY <1>5, SchemaOrder DEF LookForTable, Count, Stages, SettingUp, SampleCars
<1>6. CASE CreateTable(w)
  <2>1. CASE Schema[nth[w]] \in data.tables
    BY <1>6, <2>1 DEF CreateTable, Stages
  <2>2. CASE Schema[nth[w]] \notin data.tables
    <3>1. nth[w] \in 1 .. 4
      BY <1>6, SchemaOrder DEF CreateTable, Provided, ProvidedTo, SampleCars
    <3>2. Schema[nth[w]] \in Tables
      BY <3>1, SchemaOrder
    <3>3. data' \in Data
      <4>1. data.tables \in SUBSET Tables /\ data.columns \in SUBSET Columns
        BY DEF Data
      <4>2. \E columns \in SUBSET Columns :
              data' = [data EXCEPT !.tables = data.tables \cup {Schema[nth[w]]}, !.columns = columns]
        BY <1>6, <2>2, <4>1 DEF CreateTable
      <4>3. data.tables \cup {Schema[nth[w]]} \in SUBSET Tables
        BY <3>2, <4>1
      <4>4. PICK columns \in SUBSET Columns :
              data' = [data EXCEPT !.tables = data.tables \cup {Schema[nth[w]]}, !.columns = columns]
        BY <4>2
      <4>5. [data EXCEPT !.tables = data.tables \cup {Schema[nth[w]]}, !.columns = columns] \in Data
        BY <4>3, DataWritten
      <4> QED BY <4>4, <4>5
    <3>4. nth' \in [Workers -> 1 .. SampleCars + 2]
      BY <1>6, <2>2, <3>1 DEF CreateTable, Count, SampleCars
    <3>5. stage' \in [Workers -> Stages]
      BY <1>6, <2>2 DEF CreateTable, Stages, SettingUp
    <3> QED BY <1>6, <3>3, <3>4, <3>5 DEF CreateTable
  <2> QED BY <2>1, <2>2
<1>7. CASE CheckColumns(w) \/ CountRegions(w) \/ FixConstraint(w) \/ FindSuperAdmin(w)
             \/ FindAdminPhone(w) \/ FindJohn(w) \/ FindOwner(w)
  BY <1>7 DEF CheckColumns, CountRegions, FixConstraint, FindSuperAdmin, FindAdminPhone,
              FindJohn, FindOwner, Stages, SettingUp
<1>8. CASE AddColumns(w)
  <2>1. data' \in Data
    <3>1. data.columns \in SUBSET Columns
      BY DEF Data
    <3>2. \A c \in Columns \ data.columns : data.columns \cup {c} \in SUBSET Columns
      BY <3>1
    <3> QED BY <1>8, <3>2, DataWritten DEF AddColumns
  <2>2. stage' \in [Workers -> Stages]
    BY <1>8 DEF AddColumns, Stages, SettingUp
  <2> QED BY <1>8, <2>1, <2>2 DEF AddColumns
<1>9. CASE SeedRegions(w)
  <2>1. data' \in Data
    BY <1>9, DataWritten DEF SeedRegions
  <2>2. deaths' \in 0 .. MaxDeaths
    BY <1>9, StartupAssumption DEF SeedRegions
  <2> QED BY <1>9, <2>1, <2>2 DEF SeedRegions, Stages, SettingUp
<1>10. CASE Promote(w) \/ InsertSuper(w) \/ InsertJohn(w)
  BY <1>10 DEF Promote, InsertSuper, InsertJohn, Stages, SettingUp, Data, Person
<1>11. CASE CountCars(w)
  BY <1>11 DEF CountCars, Reset, Stages, SettingUp, SampleCars
<1>12. CASE InsertSample(w)
  <2>1. data' \in Data
    <3>1. data.cars \in Nat
      BY DEF Data
    <3>2. data.cars + 1 \in Nat
      BY <3>1
    <3>3. [data EXCEPT !.cars = data.cars + 1] \in Data
      BY <3>2, DataWritten
    <3> QED BY <1>12, <3>3 DEF InsertSample
  <2>2. nth' \in [Workers -> 1 .. SampleCars + 2]
    <3>1. stage[w] = "sample" /\ nth[w] \in 1 .. 3
      BY <1>12 DEF InsertSample, Provided, ProvidedTo, SampleCars
    <3>2. nth' = nth \/ nth' = [nth EXCEPT ![w] = nth[w] + 1]
      BY <1>12 DEF InsertSample, Count
    <3> QED BY <3>1, <3>2 DEF SampleCars
  <2> QED BY <1>12, <2>1, <2>2 DEF InsertSample, Stages, SettingUp
<1>13. CASE Restart(w)
  BY <1>13 DEF Restart, Reset, Stages, SettingUp, SampleCars
<1>14. CASE Killed(w)
  BY <1>14, StartupAssumption DEF Killed, Stages
<1>15. CASE Sigterm(w) \/ Sigint(w) \/ PoolEnded(w) \/ Closed(w)
  BY <1>15 DEF Sigterm, Sigint, PoolEnded, Closed, Signal, Stages
<1>16. ASSUME NEW r \in Served, Accept(w, r) \/ Finish(w, r)
       PROVE  StartupTypeOK'
  BY <1>16 DEF Accept, Finish, Request
<1> QED
  BY <1>2, <1>3, <1>4, <1>5, <1>6, <1>7, <1>8, <1>9, <1>10, <1>11, <1>12, <1>13, <1>14,
     <1>15, <1>16
  DEF WorkerStep, SetUp

(* What is set up is never taken down: tables, columns, the super admin    *)
(* and the cars stay.                                                      *)
LEMMA DataGrows ==
  ASSUME StartupInv, [StartupNext]_startupVars
  PROVE  /\ InOrder(data'.tables) /\ data.tables \subseteq data'.tables
         /\ data.tables = Tables => data'.tables = Tables
         /\ data.columns = Columns => data'.columns = Columns
         /\ data.admin = "super_admin" => data'.admin = "super_admin"
         /\ data.cars > 0 => data'.cars > 0
<1> USE DEF StartupInv, StartupTypeOK, At
<1>a. /\ data \in Data /\ data.tables \subseteq Tables /\ data.columns \subseteq Columns
      /\ data.cars \in Nat /\ InOrder(data.tables)
  BY DEF Data, Provided
<1>1. CASE UNCHANGED data
  BY <1>1, <1>a
<1>2. CASE DeleteJohn
  BY <1>2, <1>a DEF DeleteJohn, Data
<1>3. ASSUME NEW w \in Workers, CreateTable(w)
      PROVE  /\ InOrder(data'.tables) /\ data.tables \subseteq data'.tables
             /\ data'.tables \subseteq Tables
             /\ data.columns = Columns => data'.columns = Columns
             /\ data'.admin = data.admin /\ data'.cars = data.cars
  <2>1. CASE Schema[nth[w]] \in data.tables
    BY <1>3, <1>a, <2>1 DEF CreateTable
  <2>2. CASE Schema[nth[w]] \notin data.tables
    <3>1. /\ nth[w] \in 1 .. Len(Schema)
          /\ \A i \in 1 .. nth[w] - 1 : Schema[i] \in data.tables
      BY <1>3, SchemaOrder DEF CreateTable, Provided, ProvidedTo
    <3>2. /\ InOrder(data.tables \cup {Schema[nth[w]]})
          /\ data.tables \cup {Schema[nth[w]]} \subseteq Tables
      <4>1. PICK n \in 1 .. Len(Schema) : n = nth[w]
        BY <3>1
      <4>2. PICK tables \in SUBSET Tables : tables = data.tables
        BY <1>a
      <4>3. InOrder(tables) /\ \A i \in 1 .. n - 1 : Schema[i] \in tables
        BY <3>1, <4>1, <4>2, <1>a
      <4>4. InOrder(tables \cup {Schema[n]}) /\ tables \cup {Schema[n]} \subseteq Tables
        BY <4>3, NextTable
      <4> QED BY <4>1, <4>2, <4>4
    <3>3. /\ data'.tables = data.tables \cup {Schema[nth[w]]}
          /\ data'.columns \in {data.columns, Columns}
          /\ data'.admin = data.admin /\ data'.cars = data.cars
      BY <1>3, <1>a, <2>2 DEF CreateTable, Data
    <3> QED BY <3>2, <3>3
  <2> QED BY <2>1, <2>2
<1>4. ASSUME NEW w \in Workers, AddColumns(w)
      PROVE  /\ data'.tables = data.tables
             /\ data.columns = Columns => data'.columns = Columns
             /\ data'.admin = data.admin /\ data'.cars = data.cars
  BY <1>4, <1>a DEF AddColumns, Data
<1>5. ASSUME NEW w \in Workers,
             CreateDatabase(w) \/ SeedRegions(w) \/ Promote(w) \/ InsertSuper(w)
               \/ InsertJohn(w)
      PROVE  /\ data'.tables = data.tables /\ data'.columns = data.columns
             /\ data'.admin \in {data.admin, "super_admin"} /\ data'.cars = data.cars
  BY <1>5, <1>a DEF CreateDatabase, SeedRegions, Promote, InsertSuper, InsertJohn, Data
<1>6. ASSUME NEW w \in Workers, InsertSample(w)
      PROVE  /\ data'.tables = data.tables /\ data'.columns = data.columns
             /\ data'.admin = data.admin /\ data'.cars \in {data.cars, data.cars + 1}
  BY <1>6, <1>a DEF InsertSample, Data
<1>7. ASSUME StartupNext, ~DeleteJohn,
             \A w \in Workers : /\ ~CreateTable(w) /\ ~AddColumns(w) /\ ~InsertSample(w)
                                /\ ~(CreateDatabase(w) \/ SeedRegions(w) \/ Promote(w)
                                      \/ InsertSuper(w) \/ InsertJohn(w))
      PROVE  UNCHANGED data
  BY <1>7
  DEF StartupNext, WorkerStep, SetUp, Begin, FindDatabase, CheckTables, LookForTable, CheckColumns,
      CountRegions, FixConstraint, FindSuperAdmin, FindAdminPhone, FindJohn, FindOwner, CountCars,
      Restart, Killed, Sigterm, Sigint, PoolEnded, Closed, Accept, Finish, OnlyReads
<1>8. UNCHANGED startupVars => UNCHANGED data
  BY DEF startupVars
<1>9. \/ UNCHANGED data \/ DeleteJohn
      \/ \E w \in Workers : CreateTable(w) \/ AddColumns(w) \/ InsertSample(w)
           \/ CreateDatabase(w) \/ SeedRegions(w) \/ Promote(w) \/ InsertSuper(w) \/ InsertJohn(w)
  BY <1>7, <1>8
<1> QED BY <1>1, <1>2, <1>3, <1>4, <1>5, <1>6, <1>9, <1>a

(* A step of a worker leaves the other ones where they are.                *)
LEMMA OthersStay ==
  ASSUME StartupTypeOK, NEW w \in Workers, WorkerStep(w), NEW v \in Workers, v # w
  PROVE  /\ stage'[v] = stage[v] /\ nth'[v] = nth[v] /\ pooled'[v] = pooled[v]
         /\ signal'[v] = signal[v]
BY DEF StartupTypeOK, WorkerStep, SetUp, Begin, FindDatabase, CreateDatabase, CheckTables,
       LookForTable, CreateTable, CheckColumns, AddColumns, CountRegions, SeedRegions,
       FixConstraint, FindSuperAdmin, FindAdminPhone, Promote, InsertSuper, FindJohn, InsertJohn,
       FindOwner, CountCars, InsertSample, Restart, Killed, Sigterm, Sigint, PoolEnded, Closed,
       Accept, Finish, Then, Count, Reset, Signal, NoServing, OnlyReads

(* Where a worker goes, what it needs there is there.                      *)
LEMMA ProvidedStep ==
  ASSUME StartupInv, [StartupNext]_startupVars
  PROVE  Provided'
<1>a. StartupTypeOK /\ Provided /\ data \in Data
  BY DEF StartupInv, StartupTypeOK
<1>b. /\ InOrder(data'.tables) /\ data.tables \subseteq data'.tables
      /\ data.tables = Tables => data'.tables = Tables
      /\ data.columns = Columns => data'.columns = Columns
      /\ data.admin = "super_admin" => data'.admin = "super_admin"
      /\ data.cars > 0 => data'.cars > 0
  BY DataGrows
<1>c. ASSUME NEW v \in Workers, stage'[v] = stage[v], nth'[v] = nth[v]
      PROVE  ProvidedTo(v)'
  BY <1>a, <1>b, <1>c DEF Provided, ProvidedTo
<1>1. CASE UNCHANGED startupVars \/ DeleteJohn
  BY <1>1, <1>b, <1>c DEF startupVars, DeleteJohn, Provided
<1> SUFFICES ASSUME NEW w \in Workers, WorkerStep(w)
             PROVE  ProvidedTo(w)'
  <2>1. CASE ~(UNCHANGED startupVars \/ DeleteJohn)
    <3>1. PICK w \in Workers : WorkerStep(w)
      BY <2>1 DEF StartupNext, WorkerStep
    <3>2. ProvidedTo(w)'
      BY <3>1
    <3>3. \A v \in Workers \ {w} : ProvidedTo(v)'
      BY <3>1, <1>a, <1>c, OthersStay
    <3> QED BY <1>b, <3>2, <3>3 DEF Provided
  <2> QED BY <2>1, <1>1
<1> USE <1>a, <1>b DEF StartupTypeOK, At, Then, NoServing, OnlyReads, HasTables, HasColumns,
                       HasAdmin, Serving
<1>d. ProvidedTo(w)
  BY DEF Provided
<1>2. CASE Begin(w) \/ FindDatabase(w) \/ CreateDatabase(w) \/ Restart(w) \/ Killed(w)
  BY <1>2 DEF Begin, FindDatabase, CreateDatabase, Restart, Killed, SettingUp, ProvidedTo
<1>3. CASE CheckTables(w)
  <2>1. Required \subseteq data.tables => data.tables = Tables
    BY LastTable DEF Data, Provided
  <2>2. stage'[w] \in {"columns", "look"} /\ nth'[w] = 1 /\ data' = data
    BY <1>3 DEF CheckTables, Reset
  <2>3. stage'[w] = "columns" => data'.tables = Tables
    BY <1>3, <2>1 DEF CheckTables
  <2> QED BY <2>2, <2>3 DEF ProvidedTo
<1>4. CASE LookForTable(w)
  <2>1. \A i \in 1 .. nth[w] - 1 : Schema[i] \in data.tables
    BY <1>4, <1>d DEF LookForTable, ProvidedTo
  <2>2. CASE nth[w] > Len(Schema)
    <3>1. \A i \in 1 .. Len(Schema) : Schema[i] \in data.tables
      BY <2>1, <2>2, SchemaOrder
    <3>2. data.tables = Tables
      BY <3>1, LastTable DEF Data, Provided
    <3>3. stage'[w] = "columns" /\ data' = data
      BY <1>4, <2>2 DEF LookForTable
    <3> QED BY <3>2, <3>3 DEF ProvidedTo
  <2>3. CASE nth[w] <= Len(Schema) /\ Schema[nth[w]] \in data.tables
    <3>1. stage'[w] = "look" /\ nth'[w] = nth[w] + 1 /\ data' = data
      BY <1>4, <2>3, SchemaOrder DEF LookForTable, Count
    <3>2. \A i \in 1 .. nth'[w] - 1 : Schema[i] \in data'.tables
      BY <2>1, <2>3, <3>1
    <3> QED BY <3>1, <3>2 DEF ProvidedTo
  <2>4. CASE nth[w] <= Len(Schema) /\ Schema[nth[w]] \notin data.tables
    <3>1. stage'[w] = "migrate" /\ nth' = nth /\ data' = data
      BY <1>4, <2>4, SchemaOrder DEF LookForTable
    <3> QED BY <2>1, <2>4, <3>1 DEF ProvidedTo
  <2> QED BY <2>2, <2>3, <2>4, SchemaOrder
<1>5. CASE CreateTable(w)
  <2>1. CASE Schema[nth[w]] \in data.tables
    BY <1>5, <2>1 DEF CreateTable, ProvidedTo
  <2>2. CASE Schema[nth[w]] \notin data.tables
    <3>1. stage'[w] = "look" /\ nth'[w] = nth[w] + 1
      BY <1>5, <2>2 DEF CreateTable, Count
    <3>2. data'.tables = data.tables \cup {Schema[nth[w]]}
      BY <1>5, <2>2 DEF CreateTable, Data
    <3>3. \A i \in 1 .. nth[w] - 1 : Schema[i] \in data.tables
      BY <1>5, <1>d DEF CreateTable, ProvidedTo
    <3>4. \A i \in 1 .. nth'[w] - 1 : Schema[i] \in data'.tables
      BY <3>1, <3>2, <3>3
    <3> QED BY <3>1, <3>4 DEF ProvidedTo
  <2> QED BY <2>1, <2>2
<1>6. CASE CheckColumns(w) \/ CountRegions(w) \/ SeedRegions(w) \/ FixConstraint(w)
             \/ FindSuperAdmin(w) \/ FindAdminPhone(w)
  BY <1>6, <1>d
  DEF CheckColumns, CountRegions, SeedRegions, FixConstraint, FindSuperAdmin, FindAdminPhone,
      ProvidedTo
<1>7. CASE AddColumns(w)
  BY <1>7, <1>d DEF AddColumns, ProvidedTo
<1>8. CASE Promote(w) \/ InsertSuper(w)
  <2>1. stage'[w] \in {"john", "failed"} /\ (stage'[w] = "john" => data'.admin = "super_admin")
    BY <1>8 DEF Promote, InsertSuper, Data
  <2>2. AutoInit => data.tables = Tables /\ data.columns = Columns
    BY <1>8, <1>d DEF Promote, InsertSuper, ProvidedTo
  <2> QED BY <2>1, <2>2 DEF ProvidedTo
<1>9. CASE FindJohn(w) \/ InsertJohn(w) \/ FindOwner(w)
  BY <1>9, <1>d DEF FindJohn, InsertJohn, FindOwner, ProvidedTo
<1>10. CASE CountCars(w)
  <2>1. data.cars = 0 \/ data.cars > 0
    BY DEF Data
  <2>2. data' = data /\ nth'[w] = 1 /\ stage'[w] \in {"sample", "listening"}
    BY <1>10 DEF CountCars, Reset
  <2>3. stage'[w] = "listening" => data.cars # 0
    BY <1>10 DEF CountCars
  <2> QED BY <1>10, <1>d, <2>1, <2>2, <2>3 DEF CountCars, ProvidedTo, SampleCars
<1>11. CASE InsertSample(w)
  <2>1. CASE ~data.regions
    BY <1>11, <2>1 DEF InsertSample, ProvidedTo
  <2>2. CASE data.regions
    <3>1. data'.cars = data.cars + 1 /\ data.cars \in Nat /\ nth'[w] = nth[w] + 1
      BY <1>11, <2>2 DEF InsertSample, Data, Count
    <3>2. stage'[w] = (IF nth[w] = SampleCars THEN "listening" ELSE "sample")
      BY <1>11, <2>2 DEF InsertSample
    <3>3. nth[w] <= SampleCars /\ stage[w] = "sample"
      BY <1>11, <1>d DEF InsertSample, ProvidedTo
    <3> QED BY <1>d, <3>1, <3>2, <3>3 DEF ProvidedTo, SampleCars
  <2> QED BY <2>1, <2>2
<1>12. CASE Sigterm(w) \/ Sigint(w) \/ PoolEnded(w) \/ Closed(w)
  BY <1>12, <1>d DEF Sigterm, Sigint, PoolEnded, Closed, ProvidedTo
<1>13. ASSUME NEW r \in Served, Accept(w, r) \/ Finish(w, r)
       PROVE  ProvidedTo(w)'
  BY <1>13, <1>c DEF Accept, Finish
<1> QED
  BY <1>2, <1>3, <1>4, <1>5, <1>6, <1>7, <1>8, <1>9, <1>10, <1>11, <1>12, <1>13
  DEF WorkerStep, SetUp

-----------------------------------------------------------------------------
(* Every car is a sample that one worker inserted once, or was there.      *)

(* There are finitely many samples to insert.                              *)
LEMMA SamplesFinite ==
  /\ IsFiniteSet(Workers \X (1 .. SampleCars))
  /\ Cardinality(Workers \X (1 .. SampleCars)) = SampleCars * Cardinality(Workers)
  /\ Cardinality(Workers) \in Nat
<1>1. IsFiniteSet(Workers) /\ Cardinality(Workers) \in Nat
  BY StartupAssumption, FS_CardinalityType
<1>2. 1 \in Int /\ SampleCars \in Int
  BY DEF SampleCars
<1>3. IsFiniteSet(1 .. SampleCars)
  BY <1>2, FS_Interval
<1>4. Cardinality(1 .. SampleCars) = 3
  <2>1. Cardinality(1 .. SampleCars) = IF 1 > SampleCars THEN 0 ELSE SampleCars - 1 + 1
    BY <1>2, FS_Interval
  <2> QED BY <2>1 DEF SampleCars
<1>5. /\ IsFiniteSet(Workers \X (1 .. SampleCars))
      /\ Cardinality(Workers \X (1 .. SampleCars))
           = Cardinality(Workers) * Cardinality(1 .. SampleCars)
  BY <1>1, <1>3, FS_Product
<1> QED BY <1>1, <1>4, <1>5 DEF SampleCars

(* A worker that is not inserting may go on as it likes.                   *)
LEMMA SampledFrame ==
  ASSUME Sampled, data'.cars = data.cars,
         \A w \in Workers : At(w, "sample")' => At(w, "sample") /\ nth'[w] = nth[w]
  PROVE  Sampled'
<1>1. CASE \E samples \in SUBSET (Workers \X (1 .. SampleCars)) :
             /\ Cardinality(samples) = data.cars
             /\ \A w \in Workers : At(w, "sample") =>
                  \A i \in 1 .. SampleCars : <<w, i>> \in samples <=> i < nth[w]
  <2>1. PICK samples \in SUBSET (Workers \X (1 .. SampleCars)) :
             /\ Cardinality(samples) = data.cars
             /\ \A w \in Workers : At(w, "sample") =>
                  \A i \in 1 .. SampleCars : <<w, i>> \in samples <=> i < nth[w]
    BY <1>1
  <2>2. /\ Cardinality(samples) = data'.cars
        /\ \A w \in Workers : At(w, "sample")' =>
             \A i \in 1 .. SampleCars : <<w, i>> \in samples <=> i < nth'[w]
    BY <2>1
  <2> QED BY <2>2 DEF Sampled
<1>2. CASE /\ data.cars \in {d.cars : d \in FirstData} \ {0}
           /\ \A w \in Workers : ~At(w, "sample")
  BY <1>2 DEF Sampled
<1> QED BY <1>1, <1>2 DEF Sampled

(* Counting finds no car only where no sample is; each insert adds one.    *)
LEMMA SampledStep ==
  ASSUME StartupInv, [StartupNext]_startupVars
  PROVE  Sampled'
<1>a. StartupTypeOK /\ Provided /\ Sampled /\ data \in Data /\ data.cars \in Nat
  BY DEF StartupInv, StartupTypeOK, Data
<1>1. CASE UNCHANGED startupVars \/ DeleteJohn
  <2>1. data'.cars = data.cars /\ UNCHANGED <<stage, nth>>
    BY <1>1, <1>a DEF startupVars, DeleteJohn, Data
  <2> QED BY <2>1, <1>a, SampledFrame DEF At
<1> SUFFICES ASSUME NEW w \in Workers, WorkerStep(w), ~UNCHANGED startupVars
             PROVE  Sampled'
  BY <1>1 DEF StartupNext
<1>b. \A v \in Workers \ {w} : stage'[v] = stage[v] /\ nth'[v] = nth[v]
  BY <1>a, OthersStay
<1>2. CASE CountCars(w) /\ data.cars = 0
  <2>1. PICK samples \in SUBSET (Workers \X (1 .. SampleCars)) :
             /\ Cardinality(samples) = data.cars
             /\ \A v \in Workers : At(v, "sample") =>
                  \A i \in 1 .. SampleCars : <<v, i>> \in samples <=> i < nth[v]
    BY <1>2, <1>a DEF Sampled
  <2>2. samples = {}
    <3>2. IsFiniteSet(samples)
      BY SamplesFinite, FS_Subset
    <3> QED BY <3>2, <2>1, <1>2, FS_EmptySet
  <2>3. data' = data /\ nth'[w] = 1
    BY <1>2, <1>a DEF CountCars, OnlyReads, Reset, StartupTypeOK
  <2>4. \A v \in Workers : At(v, "sample")' =>
             \A i \in 1 .. SampleCars : <<v, i>> \in samples <=> i < nth'[v]
    BY <1>b, <2>1, <2>2, <2>3 DEF At, SampleCars
  <2> QED BY <2>1, <2>3, <2>4 DEF Sampled
<1>3. CASE InsertSample(w) /\ data.regions
  <2>a. At(w, "sample") /\ nth[w] \in 1 .. SampleCars
    BY <1>3, <1>a DEF InsertSample, At, StartupTypeOK, Provided, ProvidedTo, SampleCars
  <2>1. PICK samples \in SUBSET (Workers \X (1 .. SampleCars)) :
             /\ Cardinality(samples) = data.cars
             /\ \A v \in Workers : At(v, "sample") =>
                  \A i \in 1 .. SampleCars : <<v, i>> \in samples <=> i < nth[v]
    BY <2>a, <1>a DEF Sampled
  <2> DEFINE more == samples \cup {<<w, nth[w]>>}
  <2>2. more \in SUBSET (Workers \X (1 .. SampleCars)) /\ <<w, nth[w]>> \notin samples
    <3>1. <<w, nth[w]>> \in Workers \X (1 .. SampleCars)
      BY <2>a
    <3>2. <<w, nth[w]>> \in samples <=> nth[w] < nth[w]
      BY <2>a, <2>1
    <3> QED BY <2>a, <3>1, <3>2
  <2>3. Cardinality(more) = data.cars + 1
    <3>2. IsFiniteSet(samples)
      BY SamplesFinite, FS_Subset
    <3> QED BY <3>2, <2>1, <2>2, FS_AddElement
  <2>4. data'.cars = data.cars + 1 /\ nth'[w] = nth[w] + 1
    BY <1>3, <1>a DEF InsertSample, Count, Data, StartupTypeOK
  <2>5. ASSUME NEW v \in Workers, At(v, "sample")', NEW i \in 1 .. SampleCars
        PROVE  <<v, i>> \in more <=> i < nth'[v]
    <3>1. CASE v = w
      <4>1. <<w, i>> \in samples <=> i < nth[w]
        BY <2>a, <2>1
      <4>2. <<w, i>> = <<w, nth[w]>> <=> i = nth[w]
        OBVIOUS
      <4>3. nth[w] \in Nat /\ i \in Nat
        BY <2>a
      <4> QED BY <2>4, <3>1, <4>1, <4>2, <4>3
    <3>2. CASE v # w
      <4>1. <<v, i>> # <<w, nth[w]>>
        BY <3>2
      <4> QED BY <2>1, <2>5, <1>b, <3>2, <4>1 DEF At
    <3> QED BY <3>1, <3>2
  <2> HIDE DEF more
  <2> QED BY <2>2, <2>3, <2>4, <2>5 DEF Sampled
<1>4. CASE ~(CountCars(w) /\ data.cars = 0) /\ ~(InsertSample(w) /\ data.regions)
  <2>1. data'.cars = data.cars
    BY <1>4, <1>a
    DEF WorkerStep, SetUp, Begin, FindDatabase, CreateDatabase, CheckTables, LookForTable,
        CreateTable, CheckColumns, AddColumns, CountRegions, SeedRegions, FixConstraint,
        FindSuperAdmin, FindAdminPhone, Promote, InsertSuper, FindJohn, InsertJohn, FindOwner,
        CountCars, InsertSample, Restart, Killed, Sigterm, Sigint, PoolEnded, Closed, Accept,
        Finish, NoServing, OnlyReads, Data
  <2>2. At(w, "sample")' => At(w, "sample") /\ nth'[w] = nth[w]
    BY <1>4, <1>a
    DEF WorkerStep, SetUp, Begin, FindDatabase, CreateDatabase, CheckTables, LookForTable,
        CreateTable, CheckColumns, AddColumns, CountRegions, SeedRegions, FixConstraint,
        FindSuperAdmin, FindAdminPhone, Promote, InsertSuper, FindJohn, InsertJohn, FindOwner,
        CountCars, InsertSample, Restart, Killed, Sigterm, Sigint, PoolEnded, Closed, Accept,
        Finish, Then, At, StartupTypeOK
  <2>3. \A v \in Workers : At(v, "sample")' => At(v, "sample") /\ nth'[v] = nth[v]
    BY <2>2, <1>b DEF At
  <2> QED BY <2>1, <2>3, <1>a, SampledFrame
<1> QED BY <1>2, <1>3, <1>4

-----------------------------------------------------------------------------
(* Only the signals stop a worker, and none stops while it answers.        *)
LEMMA StoppingStep ==
  ASSUME StartupInv, [StartupNext]_startupVars
  PROVE  Stopping'
<1>a. StartupTypeOK /\ Stopping
  BY DEF StartupInv
<1>1. CASE UNCHANGED startupVars \/ DeleteJohn
  BY <1>1, <1>a DEF startupVars, DeleteJohn, NoServing, Stopping
<1> SUFFICES ASSUME NEW w \in Workers, WorkerStep(w)
             PROVE  Stopping'
  BY <1>1 DEF StartupNext
<1> USE <1>a DEF Stopping, StartupTypeOK, At, Then, Serving
<1>2. CASE SetUp(w) \/ Restart(w) \/ Killed(w)
  <2>1. /\ stage[w] \in SettingUp \cup {"failed"} /\ stage'[w] \in Stages
        /\ UNCHANGED <<pooled, signal, served>>
    BY <1>2, StartupTypeStep
    DEF SetUp, Begin, FindDatabase, CreateDatabase, CheckTables, LookForTable, CreateTable,
        CheckColumns, AddColumns, CountRegions, SeedRegions, FixConstraint, FindSuperAdmin,
        FindAdminPhone, Promote, InsertSuper, FindJohn, InsertJohn, FindOwner, CountCars,
        InsertSample, Restart, Killed, NoServing, OnlyReads, SettingUp
  <2>2. \A v \in Workers \ {w} : stage'[v] = stage[v]
    BY OthersStay
  <2>3. signal[w] = "none" /\ \A r \in Served : served[r].state = "running" => served[r].at # w
    BY <2>1 DEF SettingUp
  <2> QED BY <2>1, <2>2, <2>3
<1>3. CASE Sigterm(w) \/ Sigint(w)
  <2>1. /\ stage[w] = "listening" /\ stage'[w] \in {"closing", "ending"}
        /\ pooled'[w] = FALSE => signal'[w] = "SIGINT"
    BY <1>3 DEF Sigterm, Sigint, Signal
  <2>2. \A v \in Workers \ {w} : stage'[v] = stage[v] /\ pooled'[v] = pooled[v] /\ signal'[v] = signal[v]
    BY OthersStay
  <2>3. UNCHANGED served
    BY <1>3 DEF Sigterm, Sigint
  <2>4. signal[w] = "none"
    BY <2>1
  <2> QED BY <2>1, <2>2, <2>3, <2>4
<1>4. CASE PoolEnded(w) \/ Closed(w)
  BY <1>4 DEF PoolEnded, Closed, OnlyReads, NoServing, Running
<1>5. ASSUME NEW r \in Served, Accept(w, r) \/ Finish(w, r)
      PROVE  Stopping'
  <2>1. UNCHANGED <<stage, pooled, signal>>
    BY <1>5 DEF Accept, Finish
  <2>2. \A q \in Served \ {r} : served'[q] = served[q]
    BY <1>5 DEF Accept, Finish
  <2>3. CASE Accept(w, r)
    <3>1. served'[r].at = w /\ served'[r].state = "running" /\ stage[w] \in Serving
      BY <2>3 DEF Accept
    <3> QED BY <2>1, <2>2, <3>1
  <2>4. CASE Finish(w, r)
    <3>1. /\ served[r].at = w /\ served'[r].at = w
          /\ served'[r].state = (IF pooled[w] THEN "answered" ELSE "broken")
      BY <2>4 DEF Finish, Running, Request
    <3> QED BY <2>1, <2>2, <3>1
  <2> QED BY <1>5, <2>3, <2>4
<1> QED BY <1>2, <1>3, <1>4, <1>5 DEF WorkerStep

(* Every step of a worker or its database.                                 *)
LEMMA StartupInvStep == StartupInv /\ [StartupNext]_startupVars => StartupInv'
BY StartupTypeStep, ProvidedStep, SampledStep, StoppingStep DEF StartupInv

(* StartupInv, for any cluster, first databases and requests.              *)
THEOREM StartupInvariant == StartupSpec => []StartupInv
<1>1. StartupInit => StartupInv
  BY StartupInvInit
<1>2. StartupInv /\ [StartupNext]_startupVars => StartupInv'
  BY StartupInvStep
<1> QED BY <1>1, <1>2, PTL DEF StartupSpec

(* ListeningMeansReady for clusters of any size: whichever of its workers  *)
(* made which part of the database, wherever the others died, a worker     *)
(* that listens finds it complete.                                         *)
THEOREM WorkersListenReady == StartupSpec => []ListeningMeansReady
<1>1. StartupInv => ListeningMeansReady
  BY DEF StartupInv, Provided, ProvidedTo, ListeningMeansReady, Serving, HasAdmin, HasColumns,
         HasTables
<1> QED BY <1>1, StartupInvariant, PTL

(* SamplesBounded for clusters of any size: each sample car is inserted at *)
(* most once by each worker, restarted workers included, unless the number *)
(* of cars is that of a first database.                                    *)
THEOREM SamplesAreBounded == StartupSpec => []SamplesBounded
<1>1. ASSUME StartupInv PROVE SamplesBounded
  <2>1. CASE data.cars \in {d.cars : d \in FirstData}
    BY <2>1 DEF SamplesBounded
  <2>2. CASE data.cars \notin {d.cars : d \in FirstData}
    <3>1. PICK samples \in SUBSET (Workers \X (1 .. SampleCars)) :
                 Cardinality(samples) = data.cars
      BY <1>1, <2>2 DEF StartupInv, Sampled
    <3>2. Cardinality(samples) <= SampleCars * Cardinality(Workers)
      BY SamplesFinite, FS_Subset
    <3> QED BY <3>1, <3>2 DEF SamplesBounded
  <2> QED BY <2>1, <2>2
<1> QED BY <1>1, StartupInvariant, PTL

(* Who finds cars, with nobody inserting samples, leaves their number.     *)
LEMMA FoundCarsStep ==
  ASSUME StartupInv, [StartupNext]_startupVars,
         data.cars > 0, \A w \in Workers : ~At(w, "sample")
  PROVE  data'.cars = data.cars /\ \A w \in Workers : ~At(w, "sample")'
<1>a. data \in Data /\ stage \in [Workers -> Stages]
  BY DEF StartupInv, StartupTypeOK
<1>1. CASE UNCHANGED startupVars
  BY <1>1 DEF startupVars, At
<1>2. CASE DeleteJohn
  BY <1>2, <1>a DEF DeleteJohn, Data, At
<1>3. ASSUME NEW w \in Workers, WorkerStep(w)
      PROVE  data'.cars = data.cars /\ \A v \in Workers : ~At(v, "sample")'
  <2>1. \A v \in Workers \ {w} : stage'[v] = stage[v]
    BY <1>3, OthersStay DEF StartupInv
  <2>2. CASE SetUp(w)
    <3>1. stage[w] # "sample" /\ data.cars # 0
      BY DEF At
    <3>2. stage'[w] # "sample"
      BY <2>2, <3>1, <1>a
      DEF SetUp, Begin, FindDatabase, CreateDatabase, CheckTables, LookForTable, CreateTable,
          CheckColumns, AddColumns, CountRegions, SeedRegions, FixConstraint, FindSuperAdmin,
          FindAdminPhone, Promote, InsertSuper, FindJohn, InsertJohn, FindOwner, CountCars,
          InsertSample, Then, At
    <3>3. data'.cars = data.cars
      BY <2>2, <3>1, <1>a
      DEF SetUp, Begin, FindDatabase, CreateDatabase, CheckTables, LookForTable, CreateTable,
          CheckColumns, AddColumns, CountRegions, SeedRegions, FixConstraint, FindSuperAdmin,
          FindAdminPhone, Promote, InsertSuper, FindJohn, InsertJohn, FindOwner, CountCars,
          InsertSample, OnlyReads, At, Data
    <3> QED BY <2>1, <3>2, <3>3 DEF At
  <2>3. CASE ~SetUp(w)
    <3>1. UNCHANGED data /\ stage'[w] # "sample"
      BY <1>3, <2>3, <1>a
      DEF WorkerStep, Restart, Killed, Sigterm, Sigint, PoolEnded, Closed, Accept, Finish,
          OnlyReads, Then, At
    <3> QED BY <2>1, <3>1 DEF At
  <2> QED BY <2>2, <2>3
<1> QED BY <1>1, <1>2, <1>3 DEF StartupNext

(* FoundCarsStay for clusters of any size.                                 *)
THEOREM FoundCarsAlwaysStay == StartupSpec => FoundCarsStay
<1>1. StartupInv /\ [StartupNext]_startupVars =>
        [data.cars > 0 /\ (\A w \in Workers : ~At(w, "sample")) =>
           data'.cars = data.cars /\ \A w \in Workers : stage'[w] # "sample"]_startupVars
  BY FoundCarsStep DEF At
<1> QED BY <1>1, StartupInvariant, PTL DEF StartupSpec, FoundCarsStay

(* So a database that is first started with n cars has n cars ever after,  *)
(* whatever starts, dies and starts again on it.                           *)
THEOREM CarsAreKept ==
  ASSUME NEW CONSTANT n \in Nat \ {0}
  PROVE  StartupSpec /\ data.cars = n => [](data.cars = n)
<1> DEFINE Kept == data.cars = n /\ \A w \in Workers : ~At(w, "sample")
<1>1. StartupInit /\ data.cars = n => Kept
  BY DEF StartupInit, At
<1>2. Kept /\ StartupInv /\ [StartupNext]_startupVars => Kept'
  BY FoundCarsStep
<1>3. Kept => data.cars = n
  OBVIOUS
<1> QED BY <1>1, <1>2, <1>3, StartupInvariant, PTL DEF StartupSpec

(* TermIsGraceful for any cluster: only SIGINT breaks a request, and no    *)
(* worker ends while it answers one.                                       *)
THEOREM TermIsAlwaysGraceful == StartupSpec => []TermIsGraceful
<1>1. StartupInv => TermIsGraceful
  BY DEF StartupInv, Stopping, TermIsGraceful, Serving, At
<1> QED BY <1>1, StartupInvariant, PTL

-----------------------------------------------------------------------------
(* Retries: where the table is there and its statements do not fail, an    *)
(* answer goes out only once the row of its key is written, so whoever     *)
(* asks after an answer finds the row.                                     *)

(* Initially no attempt is made.                                           *)
LEMMA RetriesInvInit == RetriesInit => RetriesInv
BY RetriesAssumption DEF RetriesInit, RetriesInv, RetriesTypeOK, AnswersKept, AttemptSteps

(* Every statement of an attempt keeps the types.                          *)
LEMMA RetriesTypeStep ==
  ASSUME RetriesTypeOK, [RetriesNext]_retryVars
  PROVE  RetriesTypeOK'
<1>1. CASE UNCHANGED retryVars
  BY <1>1 DEF RetriesTypeOK, retryVars
<1>2. ASSUME NEW a \in Attempts, Try(a)
      PROVE  RetriesTypeOK'
  BY <1>2 DEF RetriesTypeOK, AttemptSteps, Try, Moves
<1>3. ASSUME NEW a \in Attempts, LookForKey(a)
      PROVE  RetriesTypeOK'
  BY <1>3 DEF RetriesTypeOK, AttemptSteps, LookForKey, Moves
<1>4. ASSUME NEW a \in Attempts, CannotLook(a)
      PROVE  RetriesTypeOK'
  BY <1>4, RetriesAssumption
  DEF RetriesTypeOK, AttemptSteps, CannotLook, Moves, KeyFault, FindsNoTable
<1>5. ASSUME NEW a \in Attempts, KeepAnswer(a)
      PROVE  RetriesTypeOK'
  BY <1>5, RetriesAssumption DEF RetriesTypeOK, AttemptSteps, KeepAnswer, Moves, KeyFault
<1>6. ASSUME NEW a \in Attempts, SendAnswer(a)
      PROVE  RetriesTypeOK'
  BY <1>6 DEF RetriesTypeOK, AttemptSteps, SendAnswer, Moves
<1>7. ASSUME NEW a \in Attempts, NEW r \in Results, RunHandler(a, r)
      PROVE  RetriesTypeOK'
  BY <1>7 DEF RetriesTypeOK, AttemptSteps, RunHandler, Moves
<1> QED BY <1>1, <1>2, <1>3, <1>4, <1>5, <1>6, <1>7 DEF RetriesNext

(* Every statement of an attempt keeps what was answered.                  *)
LEMMA AnswersKeptStep ==
  ASSUME RetriesInv, [RetriesNext]_retryVars
  PROVE  AnswersKept'
<1> USE DEF RetriesInv, RetriesTypeOK, AnswersKept
<1>1. CASE UNCHANGED retryVars
  BY <1>1 DEF retryVars
<1>2. ASSUME NEW a \in Attempts, Try(a)
      PROVE  AnswersKept'
  <2>1. \A b \in Attempts : attempt'[b] = IF b = a THEN "looking" ELSE attempt[b]
    BY <1>2 DEF Try, Moves
  <2>2. attempt[a] = "unsent" /\ UNCHANGED <<hasTable, saved, ran, told, keyFaults>>
    BY <1>2 DEF Try, Moves
  <2>3. \A b \in late' : b \in late \/ (b = a /\ \E c \in Attempts : attempt[c] = "over")
    BY <1>2 DEF Try
  <2> QED BY <2>1, <2>2, <2>3
<1>3. ASSUME NEW a \in Attempts, LookForKey(a)
      PROVE  AnswersKept'
  BY <1>3 DEF LookForKey, Moves
<1>4. ASSUME NEW a \in Attempts, CannotLook(a)
      PROVE  AnswersKept'
  BY <1>4 DEF CannotLook, KeyFault, FindsNoTable
<1>5. ASSUME NEW a \in Attempts, KeepAnswer(a)
      PROVE  AnswersKept'
  <2>1. SUFFICES ASSUME hasTable', keyFaults' = 0 PROVE AnswersKept'
    OBVIOUS
  <2>2. hasTable /\ keyFaults = 0 /\ ran[a] # NoResult
    BY <1>5, <2>1 DEF KeepAnswer, Moves, KeyFault
  <2>3. saved' = (IF saved = NoResult THEN ran[a] ELSE saved)
    BY <1>5, <2>1, <2>2 DEF KeepAnswer, KeyFault
  <2> QED BY <1>5, <2>2, <2>3 DEF KeepAnswer, Moves
<1>6. ASSUME NEW a \in Attempts, SendAnswer(a)
      PROVE  AnswersKept'
  BY <1>6 DEF SendAnswer, Moves
<1>7. ASSUME NEW a \in Attempts, NEW r \in Results, RunHandler(a, r)
      PROVE  AnswersKept'
  BY <1>7, RetriesAssumption DEF RunHandler, Moves
<1> QED BY <1>1, <1>2, <1>3, <1>4, <1>5, <1>6, <1>7 DEF RetriesNext

(* Retries keeps its types, whatever the attempts and the faults.          *)
THEOREM RetriesTypes == RetriesSpec => []RetriesTypeOK
<1>1. RetriesInit => RetriesTypeOK
  BY RetriesInvInit DEF RetriesInv
<1>2. RetriesTypeOK /\ [RetriesNext]_retryVars => RetriesTypeOK'
  BY RetriesTypeStep
<1> QED BY <1>1, <1>2, PTL DEF RetriesSpec

(* Every step of an attempt.                                               *)
LEMMA RetriesInvStep == RetriesInv /\ [RetriesNext]_retryVars => RetriesInv'
BY RetriesTypeStep, AnswersKeptStep DEF RetriesInv

(* RetriesAgree for any number of attempts: a retry of a POST /bookings    *)
(* that was answered before it was made repeats the answer and books       *)
(* nothing, where the table of the keys is there and does not fail.        *)
THEOREM RetriesAlwaysAgree == RetriesSpec => []RetriesAgree
<1>1. RetriesInit => RetriesInv
  BY RetriesInvInit
<1>2. RetriesInv /\ [RetriesNext]_retryVars => RetriesInv'
  BY RetriesInvStep
<1>3. RetriesInv => RetriesAgree
  BY DEF RetriesInv, AnswersKept, RetriesAgree
<1> QED BY <1>1, <1>2, <1>3, PTL DEF RetriesSpec
=============================================================================
