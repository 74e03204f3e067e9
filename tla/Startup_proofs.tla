----------------------------- MODULE Startup_proofs -----------------------------
(***************************************************************************)
(* What a start rests on, for every list of tables, files and environments,  *)
(* and any number of starts, outages and edits.  The invariant says how far   *)
(* the start has come at each of its steps.                                   *)
(***************************************************************************)
EXTENDS Startup, TLAPS

PastGorm == {"tables", "influx", "create", "policy", "alter", "listen"} \cup Running
PastTables == PastGorm \ {"tables"}
PastInflux == {"listen"} \cup Running

\* The file that was loaded is one there is.
FileLoaded ==
  /\ file \in Files /\ env \in Envs
  /\ pc \notin {"load", "dead"} => loaded \in Files \ {Missing}

\* The section that was read is the one db.used names.
SectionRead ==
  pc = "connect" => config = [used |-> loaded.used, section |-> Section(loaded.used),
                              settings |-> Settings(loaded, env)]

\* The database that is open is the one that was read.
DatabaseOpen ==
  pc \in PastGorm =>
     /\ Opened(loaded.used) = Section(loaded.used)
     /\ access = [section |-> Section(loaded.used), settings |-> Settings(loaded, env)]

\* The tables before the one AutoMigrate is at exist; after it, all do.
TablesSoFar ==
  /\ pc = "tables" => \A t \in 1..at - 1 : <<access, Tables[t]>> \in tables
  /\ pc \in PastTables => \A t \in 1..Len(Tables) : <<access, Tables[t]>> \in tables

\* How far InitInfluxDb is; alter is tried only where create was refused.
SeriesSoFar ==
  /\ pc \notin {"policy", "alter", "dead"} \cup PastInflux => client = None
  /\ pc \in {"load", "config", "connect", "tables"} => at \in 1..Len(Tables)
  /\ pc \in {"load", "config", "connect"} => at = 1
  /\ pc \in {"create", "policy", "alter"} => Wanted(Influx(loaded, env))
  /\ pc \in {"policy", "alter"} => client = Influx(loaded, env).name
  /\ pc = "alter" => "influx" \in failed \/ policy[client] \notin {None, Duration}
  /\ pc \in PastInflux =>
       \/ ~ Wanted(Influx(loaded, env)) /\ client = None
       \/ "influx" \in failed
       \/ client = Influx(loaded, env).name /\ policy[client] = Duration

IInv == /\ TypeOK /\ FileLoaded /\ SectionRead /\ DatabaseOpen
        /\ TablesSoFar /\ SeriesSoFar /\ DiesForAReason

-----------------------------------------------------------------------------
LEMMA InitIInv == Init => IInv
  BY StartupAssumption
  DEF Init, IInv, TypeOK, FileLoaded, SectionRead, DatabaseOpen, TablesSoFar, SeriesSoFar,
      DiesForAReason, PastGorm, PastTables, PastInflux, Running, Servers

\* A wanted database of InfluxDB has a policy to speak of.
LEMMA WantedName ==
  ASSUME IInv, pc \notin {"load", "dead"}, Wanted(Influx(loaded, env))
  PROVE  Influx(loaded, env).name \in Names
  BY StartupAssumption DEF IInv, FileLoaded, Wanted, Influx

\* GormInit and GetDBConfig differ only where the file names SQLite.
LEMMA Agree ==
  ASSUME NEW used, Opened(used) # Section(used)
  PROVE  used \in {"sqlite", "sqlite3"}
  BY DEF Opened, Section

LEMMA LoadStep == IInv /\ LoadConfig => IInv'
<1> SUFFICES ASSUME IInv, LoadConfig PROVE IInv'
  OBVIOUS
<1> QED
  BY DEF LoadConfig, IInv, TypeOK, FileLoaded, SectionRead, DatabaseOpen, TablesSoFar,
     SeriesSoFar, DiesForAReason, PastGorm, PastTables, PastInflux, Running, world

LEMMA ConfigStep == IInv /\ GetDBConfig => IInv'
<1> SUFFICES ASSUME IInv, GetDBConfig PROVE IInv'
  OBVIOUS
<1> QED
  BY DEF GetDBConfig, IInv, TypeOK, FileLoaded, SectionRead, DatabaseOpen, TablesSoFar,
     SeriesSoFar, DiesForAReason, PastGorm, PastTables, PastInflux, Running, world, Unusable

LEMMA GormStep == IInv /\ GormInit => IInv'
<1> SUFFICES ASSUME IInv, GormInit PROVE IInv'
  OBVIOUS
<1> USE DEF PastGorm, PastTables, PastInflux, Running, world
<1>1. config = [used |-> loaded.used, section |-> Section(loaded.used),
                settings |-> Settings(loaded, env)]
  BY DEF GormInit, IInv, SectionRead
<1>2. config.used = loaded.used /\ config.section = Section(loaded.used)
      /\ config.settings = Settings(loaded, env)
  BY <1>1
<1>3. at \in 1..Len(Tables) /\ at = 1 /\ 1..at - 1 = {}
  BY DEF GormInit, IInv, SeriesSoFar
<1>4. TypeOK'
  BY <1>3 DEF GormInit, IInv, TypeOK, Answers, Fails, Servers
<1>5. FileLoaded' /\ SectionRead'
  BY DEF GormInit, IInv, FileLoaded, SectionRead
<1>6. TablesSoFar'
  BY <1>3 DEF GormInit, TablesSoFar
<1>7. DatabaseOpen'
  BY <1>2 DEF GormInit, DatabaseOpen, Answers, Fails
<1>8. SeriesSoFar'
  BY DEF GormInit, IInv, SeriesSoFar, Answers, Fails
<1>9. DiesForAReason'
  BY <1>2, Agree DEF GormInit, DiesForAReason, Answers, Fails
<1> QED
  BY <1>4, <1>5, <1>6, <1>7, <1>8, <1>9 DEF IInv

LEMMA TableStep == IInv /\ RegisterTable => IInv'
<1> SUFFICES ASSUME IInv, RegisterTable PROVE IInv'
  OBVIOUS
<1> USE StartupAssumption DEF PastGorm, PastTables, PastInflux, Running, world
<1>1. at \in 1..Len(Tables)
  BY DEF RegisterTable, IInv, TypeOK
<1>2. pc' = "tables" => at' \in 1..Len(Tables)
  BY <1>1 DEF RegisterTable
<1>3. pc' \in {"tables", "influx", "dead"} /\ failed' \subseteq Servers
  BY DEF RegisterTable, IInv, TypeOK, Answers, Fails, Servers
<1>4. TypeOK'
  BY <1>2, <1>3 DEF RegisterTable, IInv, TypeOK
<1>5. FileLoaded' /\ SectionRead'
  BY DEF RegisterTable, IInv, FileLoaded, SectionRead
<1>6. DatabaseOpen'
  BY DEF RegisterTable, IInv, DatabaseOpen, Answers, Fails
<1>7. TablesSoFar'
  BY <1>1 DEF RegisterTable, IInv, TablesSoFar, Answers, Fails
<1>8. SeriesSoFar'
  BY <1>1 DEF RegisterTable, IInv, SeriesSoFar, Answers, Fails
<1>9. DiesForAReason'
  BY DEF RegisterTable, DiesForAReason, Answers, Fails
<1> QED
  BY <1>4, <1>5, <1>6, <1>7, <1>8, <1>9 DEF IInv

\* A step of InitInfluxDb keeps what the steps before it have done.
LEMMA KeepsDatabase ==
  ASSUME IInv, pc \in PastTables, pc' \in PastTables \cup {"dead"},
         UNCHANGED <<file, env, loaded, access, tables>>
  PROVE  FileLoaded' /\ SectionRead' /\ DatabaseOpen' /\ TablesSoFar'
  BY DEF IInv, FileLoaded, SectionRead, DatabaseOpen, TablesSoFar, PastGorm, PastTables, Running

LEMMA ConnStep == IInv /\ ConnInfluxDB => IInv'
<1> SUFFICES ASSUME IInv, ConnInfluxDB PROVE IInv'
  OBVIOUS
<1> USE DEF PastGorm, PastTables, PastInflux, Running, world
<1>1. FileLoaded' /\ SectionRead' /\ DatabaseOpen' /\ TablesSoFar'
  BY KeepsDatabase DEF ConnInfluxDB
<1>2. TypeOK' /\ SeriesSoFar'
  BY DEF ConnInfluxDB, IInv, TypeOK, SeriesSoFar, Duration
<1>3. DiesForAReason'
  BY DEF ConnInfluxDB, DiesForAReason, Wanted
<1> QED
  BY <1>1, <1>2, <1>3 DEF IInv

LEMMA CreateStep == IInv /\ CreateDatabase => IInv'
<1> SUFFICES ASSUME IInv, CreateDatabase PROVE IInv'
  OBVIOUS
<1> USE DEF PastGorm, PastTables, PastInflux, Running, world
<1>1. FileLoaded' /\ SectionRead' /\ DatabaseOpen' /\ TablesSoFar'
  BY KeepsDatabase DEF CreateDatabase
<1>2. Wanted(Influx(loaded, env))
  BY DEF CreateDatabase, IInv, SeriesSoFar
<1>3. Influx(loaded, env).name \in Names
  BY <1>2, WantedName DEF CreateDatabase
<1>4. TypeOK' /\ SeriesSoFar'
  BY <1>2, <1>3 DEF CreateDatabase, IInv, TypeOK, SeriesSoFar, Answers, Fails, Duration, Servers
<1>5. DiesForAReason'
  BY DEF CreateDatabase, DiesForAReason
<1> QED
  BY <1>1, <1>4, <1>5 DEF IInv

\* CreatePolicy and AlterPolicy speak of the policy of the client's database.
LEMMA PolicyStep == IInv /\ (CreatePolicy \/ AlterPolicy) => IInv'
<1> SUFFICES ASSUME IInv, CreatePolicy \/ AlterPolicy PROVE IInv'
  OBVIOUS
<1> USE DEF PastGorm, PastTables, PastInflux, Running, world, process
<1>1. FileLoaded' /\ SectionRead' /\ DatabaseOpen' /\ TablesSoFar'
  BY KeepsDatabase DEF CreatePolicy, AlterPolicy
<1>2. Wanted(Influx(loaded, env)) /\ client = Influx(loaded, env).name
  BY DEF CreatePolicy, AlterPolicy, IInv, SeriesSoFar
<1>3. client \in Names /\ client # None
  BY <1>2, WantedName, StartupAssumption DEF CreatePolicy, AlterPolicy
<1>4. TypeOK'
  BY DEF CreatePolicy, AlterPolicy, IInv, TypeOK, Answers, Fails, Servers
<1>5. SeriesSoFar'
  <2>1. DOMAIN policy = Names
    BY DEF IInv, TypeOK
  <2>2. CASE CreatePolicy
    BY <1>2, <1>3, <2>1, <2>2 DEF CreatePolicy, IInv, SeriesSoFar, Answers, Fails, Duration
  <2>3. CASE AlterPolicy
    BY <1>2, <1>3, <2>1, <2>3 DEF AlterPolicy, IInv, SeriesSoFar, Answers, Fails, Duration
  <2> QED
    BY <2>2, <2>3
<1>6. DiesForAReason'
  BY DEF CreatePolicy, AlterPolicy, DiesForAReason
<1> QED
  BY <1>1, <1>4, <1>5, <1>6 DEF IInv

LEMMA ListenStep == IInv /\ Listen => IInv'
<1> SUFFICES ASSUME IInv, Listen PROVE IInv'
  OBVIOUS
<1> USE DEF PastGorm, PastTables, PastInflux, Running, world, process
<1>1. FileLoaded' /\ SectionRead' /\ DatabaseOpen' /\ TablesSoFar'
  BY KeepsDatabase DEF Listen
<1>2. TypeOK' /\ SeriesSoFar' /\ DiesForAReason'
  BY DEF Listen, IInv, TypeOK, SeriesSoFar, DiesForAReason, Duration
<1> QED
  BY <1>1, <1>2 DEF IInv

\* Kills, starts, outages and edits.
LEMMA WorldStep ==
  IInv /\ (Kill \/ Restart \/ Edit \/ \E s \in Servers : GoDown(s) \/ ComeUp(s)) => IInv'
<1> SUFFICES ASSUME IInv, Kill \/ Restart \/ Edit \/ \E s \in Servers : GoDown(s) \/ ComeUp(s)
             PROVE  IInv'
  OBVIOUS
<1> USE DEF IInv, TypeOK, FileLoaded, SectionRead, DatabaseOpen, TablesSoFar, SeriesSoFar,
            DiesForAReason, PastGorm, PastTables, PastInflux, Running, world, process
<1>1. CASE Kill
  BY <1>1 DEF Kill, Duration
<1>2. CASE Restart
  BY <1>2, StartupAssumption DEF Restart
<1>3. CASE Edit
  BY <1>3 DEF Edit, Duration
<1>4. ASSUME NEW s \in Servers, GoDown(s) \/ ComeUp(s) PROVE IInv'
  BY <1>4 DEF GoDown, ComeUp, Duration
<1> QED
  BY <1>1, <1>2, <1>3, <1>4

LEMMA StutterStep == IInv /\ UNCHANGED vars => IInv'
  BY DEF vars, IInv, TypeOK, FileLoaded, SectionRead, DatabaseOpen, TablesSoFar, SeriesSoFar,
     DiesForAReason, Duration

LEMMA Inductive == Spec => []IInv
<1>1. IInv /\ [Next]_vars => IInv'
  BY LoadStep, ConfigStep, GormStep, TableStep, ConnStep, CreateStep, PolicyStep, ListenStep,
     WorldStep, StutterStep DEF Next, Step
<1> QED
  BY <1>1, InitIInv, PTL DEF Spec

-----------------------------------------------------------------------------
\* The types of Startup hold in every state of every behaviour.
THEOREM TypeCorrect == Spec => []TypeOK
<1>1. IInv => TypeOK
  BY DEF IInv
<1> QED
  BY <1>1, Inductive, PTL

\* A running process has every table of RegisterTables, in the database its file
\* and its environment name, whatever the starts before it left behind.
THEOREM RunsOnTables == Spec => []ServesOnTables
<1>1. IInv => ServesOnTables
  <2> SUFFICES ASSUME IInv, pc \in Running PROVE ServesOnTables
    BY DEF ServesOnTables
  <2>1. \A t \in 1..Len(Tables) : <<access, Tables[t]>> \in tables
    BY DEF IInv, TablesSoFar, PastTables, PastGorm, Running
  <2>2. /\ Opened(loaded.used) = Section(loaded.used)
        /\ access = [section |-> Section(loaded.used), settings |-> Settings(loaded, env)]
    BY DEF IInv, DatabaseOpen, PastGorm
  <2>3. CASE loaded.used = "mysql"
    BY <2>1, <2>2, <2>3 DEF ServesOnTables, Section, Settings
  <2>4. CASE loaded.used # "mysql"
    <3>1. Section(loaded.used) = "postgre"
      BY <2>2, <2>4 DEF Opened, Section
    <3>2. access.section = "postgre" /\ access.settings = Merged(loaded.db["postgre"], env.db)
      BY <2>2, <3>1 DEF Settings
    <3> QED
      BY <2>1, <2>4, <3>2 DEF ServesOnTables, Merged
  <2> QED
    BY <2>3, <2>4
<1> QED
  BY <1>1, Inductive, PTL

\* A running process has the client and the retention its file asks for, unless
\* InfluxDB is not wanted or failed it during this start.
THEOREM SeriesReady == Spec => []TimeSeriesReady
<1>1. IInv => TimeSeriesReady
  BY DEF IInv, SeriesSoFar, PastInflux, TimeSeriesReady
<1> QED
  BY <1>1, Inductive, PTL

\* A start fails only for one of the reasons DiesForAReason lists.
THEOREM DeathExplained == Spec => []DiesForAReason
<1>1. IInv => DiesForAReason
  BY DEF IInv
<1> QED
  BY <1>1, Inductive, PTL
=============================================================================
