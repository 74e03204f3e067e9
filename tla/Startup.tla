-------------------------------- MODULE Startup --------------------------------
(***************************************************************************)
(* The start of the process: the configuration is loaded, the database is   *)
(* opened and its tables registered, InfluxDB is prepared and the web        *)
(* server listens.  Servers go down and come back, the configuration file is *)
(* edited, the process is killed and started again.                          *)
(***************************************************************************)
EXTENDS Naturals, Sequences, FiniteSets

CONSTANTS
  Files,       \* what config.yaml may say, see Init; Missing is no readable file
  Envs,        \* environments: [db, influx], settings that override the file's
  Tables,      \* the tables of RegisterTables, in its order
  Names,       \* names of InfluxDB databases
  Blank, Missing, None,
  MaxStarts,   \* bound: starts of the process
  MaxOutages,  \* bound: servers going down or statements failing
  MaxEdits     \* bound: edits of the file

ASSUME StartupAssumption ==
  /\ Len(Tables) \in Nat \ {0}
  /\ Blank \notin Names /\ None \notin Names
  /\ \A f \in Files \ {Missing}, e \in Envs :
       (IF e.influx # Blank THEN e.influx ELSE f.influx.name) \in Names \cup {Blank}

VARIABLES
  file,     \* config.yaml
  env,      \* the environment of the process
  loaded,   \* ITHINGS_CONFIG
  config,   \* DBConfig: [used, section, settings], or None
  access,   \* global.DBAccess: [section, settings] of the database, or None
  client,   \* xClient: the name of its database, or None
  pc,       \* where the start is
  at,       \* the table AutoMigrate is at
  flag,     \* the retries of InitInfluxDb
  tables,   \* tables that exist: <<access, table>>
  policy,   \* name -> duration of its retention policy, or None
  down,     \* servers that cannot be reached
  starts, outages, edits,
  failed,   \* ghost: servers that failed this start
  killed    \* ghost: this start was ended from outside

vars == <<file, env, loaded, config, access, client, pc, at, flag, tables, policy,
          down, starts, outages, edits, failed, killed>>
world == <<file, env, down, starts, outages, edits>>
process == <<loaded, config, access, client, at, flag>>

Servers == {"db", "influx"}
Running == {"serving", "deaf"}  \* the init functions have returned

Merged(settings, override) ==
  [key \in DOMAIN settings |-> IF override[key] # Blank THEN override[key] ELSE settings[key]]
Complete(settings) == \A key \in DOMAIN settings : settings[key] # Blank

\* A statement is answered unless its server is down; then it fails.
Fails(s) == s \in down /\ failed' = failed \cup {s}
Answers(s) == s \notin down /\ UNCHANGED failed

-----------------------------------------------------------------------------
(* config.init and dbm.init. *)

LoadConfig ==
  /\ pc = "load"
  /\ loaded' = file /\ pc' = IF file = Missing THEN "dead" ELSE "config"
  /\ UNCHANGED <<world, config, access, client, at, flag, tables, policy, failed, killed>>

\* GetDBConfig reads the section that db.used names; anything but mysql and
\* sqlite3 is postgre, whose settings the environment overrides.
Section(used) == IF used \in {"mysql", "sqlite3"} THEN used ELSE "postgre"
Settings(f, e) == LET s == Section(f.used)
                  IN  IF s = "postgre" THEN Merged(f.db[s], e.db) ELSE f.db[s]

\* Deliberately wrong: the settings must be complete before the environment is read.
UnusableFile(f, e) == f.used = Blank \/ ~ Complete(f.db[Section(f.used)])
Unusable(f, e) == f.used = Blank \/ ~ Complete(Settings(f, e))

GetDBConfig ==
  /\ pc = "config"
  /\ \/ Unusable(loaded, env) /\ pc' = "dead" /\ UNCHANGED config
     \/ /\ ~ Unusable(loaded, env) /\ pc' = "connect"
        /\ config' = [used |-> loaded.used, section |-> Section(loaded.used),
                      settings |-> Settings(loaded, env)]
  /\ UNCHANGED <<world, loaded, access, client, at, flag, tables, policy, failed, killed>>

\* GormInit goes by db.used again, and knows sqlite by another name.
Opened(used) == CASE used = "mysql" -> "mysql"
                  [] used = "sqlite" -> "sqlite3"
                  [] OTHER -> "postgre"

GormInit ==
  /\ pc = "connect"
  /\ \/ /\ Opened(config.used) # config.section  \* that section is nil: Fatalf
        /\ pc' = "dead" /\ UNCHANGED <<access, failed>>
     \/ /\ Opened(config.used) = config.section
        /\ \/ /\ Answers("db") /\ pc' = "tables"
              /\ access' = [section |-> config.section, settings |-> config.settings]
           \/ Fails("db") /\ pc' = "dead" /\ UNCHANGED access
  /\ UNCHANGED <<world, loaded, config, client, at, flag, tables, policy, killed>>

\* Deliberately wrong: a database that has the first table is taken to be complete.
MigrateOnce ==
  /\ pc = "tables"
  /\ \/ /\ at > 1 \/ <<access, Tables[1]>> \notin tables
        /\ Answers("db") /\ tables' = tables \cup {<<access, Tables[at]>>}
        /\ at' = at + 1 /\ pc' = IF at = Len(Tables) THEN "influx" ELSE pc
     \/ /\ at = 1 /\ <<access, Tables[1]>> \in tables
        /\ Answers("db") /\ pc' = "influx" /\ UNCHANGED <<at, tables>>
     \/ /\ Fails("db") /\ pc' = "dead" /\ UNCHANGED <<at, tables>>
  /\ UNCHANGED <<world, loaded, config, access, client, flag, policy, killed>>

\* RegisterTables: AutoMigrate creates each table that is missing.
RegisterTable ==
  /\ pc = "tables"
  /\ \/ /\ Answers("db") /\ tables' = tables \cup {<<access, Tables[at]>>}
        /\ at' = at + 1 /\ pc' = IF at = Len(Tables) THEN "influx" ELSE pc
     \/ /\ Fails("db") /\ pc' = "dead" /\ UNCHANGED <<at, tables>>
  /\ UNCHANGED <<world, loaded, config, access, client, flag, policy, killed>>

-----------------------------------------------------------------------------
(* InitInfluxDb, whose error dbm.init drops. *)

\* GetInfluxDbConfig: the address is the file's, the environment may name the rest.
Influx(f, e) == [address |-> f.influx.address, enable |-> f.influx.enable,
                 name |-> IF e.influx # Blank THEN e.influx ELSE f.influx.name]
Wanted(i) == i.address # Blank /\ i.name # Blank /\ i.enable

\* Deliberately wrong: the retries are not counted; one too many is made.
ConnForever ==
  /\ pc = "influx"
  /\ LET i == Influx(loaded, env)
     IN  pc' = IF ~ Wanted(i) THEN "listen" ELSE IF i.address = "bad" THEN pc ELSE "create"
  /\ UNCHANGED <<world, process, tables, policy, failed, killed>>
ConnOnceMore ==
  /\ pc = "influx"
  /\ LET i == Influx(loaded, env)
     IN  \/ ~ Wanted(i) /\ pc' = "listen" /\ UNCHANGED flag
         \/ Wanted(i) /\ i.address # "bad" /\ pc' = "create" /\ UNCHANGED flag
         \/ /\ Wanted(i) /\ i.address = "bad"
            /\ IF flag <= 3 THEN flag' = flag + 1 /\ UNCHANGED pc
                            ELSE pc' = "dead" /\ UNCHANGED flag
  /\ UNCHANGED <<world, loaded, config, access, client, at, tables, policy, failed, killed>>

\* No client can be made for a bad address; after three retries the nil client is
\* used all the same.
ConnInfluxDB ==
  /\ pc = "influx"
  /\ LET i == Influx(loaded, env)
     IN  \/ ~ Wanted(i) /\ pc' = "listen" /\ UNCHANGED flag
         \/ Wanted(i) /\ i.address # "bad" /\ pc' = "create" /\ UNCHANGED flag
         \/ /\ Wanted(i) /\ i.address = "bad"
            /\ IF flag < 3 THEN flag' = flag + 1 /\ UNCHANGED pc
                           ELSE pc' = "dead" /\ UNCHANGED flag
  /\ UNCHANGED <<world, loaded, config, access, client, at, tables, policy, failed, killed>>

\* create database, then RegisterInfluxDb.
CreateDatabase ==
  /\ pc = "create"
  /\ \/ /\ Answers("influx") /\ pc' = "policy"
        /\ client' = Influx(loaded, env).name
     \/ Fails("influx") /\ pc' = "listen" /\ UNCHANGED client
  /\ UNCHANGED <<world, loaded, config, access, at, flag, tables, policy, killed>>

Duration == loaded.influx.duration

\* Deliberately wrong: a policy that is there is left as it is.
CreateOnly ==
  /\ pc = "policy" /\ pc' = "listen"
  /\ \/ Answers("influx") /\ policy' = [policy EXCEPT ![client] = IF @ = None THEN Duration ELSE @]
     \/ Fails("influx") /\ UNCHANGED policy
  /\ UNCHANGED <<world, process, tables, killed>>

\* CreateRetentionPolicy: create is refused if there is another policy of the name.
CreatePolicy ==
  /\ pc = "policy"
  /\ \/ /\ Answers("influx") /\ policy[client] \in {None, Duration}
        /\ policy' = [policy EXCEPT ![client] = Duration] /\ pc' = "listen"
     \/ /\ Answers("influx") /\ policy[client] \notin {None, Duration}
        /\ pc' = "alter" /\ UNCHANGED policy
     \/ Fails("influx") /\ pc' = "alter" /\ UNCHANGED policy
  /\ UNCHANGED <<world, process, tables, killed>>

\* alter needs the policy to be there; its error is only logged.
AlterPolicy ==
  /\ pc = "alter" /\ pc' = "listen"
  /\ \/ Answers("influx") /\ policy' = [policy EXCEPT ![client] = IF @ = None THEN @ ELSE Duration]
     \/ Fails("influx") /\ UNCHANGED policy
  /\ UNCHANGED <<world, process, tables, killed>>

-----------------------------------------------------------------------------
(* The web server and the world. *)

\* WebServer.Start: an error of ListenAndServe is logged; the process stays.
Listen ==
  /\ pc = "listen" /\ pc' \in Running
  /\ UNCHANGED <<world, process, tables, policy, failed, killed>>

Kill ==
  /\ pc # "dead" /\ pc' = "dead" /\ killed' = TRUE
  /\ UNCHANGED <<world, process, tables, policy, failed>>

Restart ==
  /\ pc = "dead" /\ starts < MaxStarts
  /\ starts' = starts + 1 /\ pc' = "load" /\ env' \in Envs
  /\ loaded' = Missing /\ config' = None /\ access' = None /\ client' = None
  /\ at' = 1 /\ flag' = 0 /\ failed' = {} /\ killed' = FALSE
  /\ UNCHANGED <<file, down, outages, edits, tables, policy>>

GoDown(s) ==
  /\ s \notin down /\ outages < MaxOutages
  /\ down' = down \cup {s} /\ outages' = outages + 1
  /\ UNCHANGED <<file, env, starts, edits, process, pc, tables, policy, failed, killed>>

ComeUp(s) ==
  /\ s \in down /\ down' = down \ {s}
  /\ UNCHANGED <<file, env, starts, outages, edits, process, pc, tables, policy, failed, killed>>

Edit ==
  /\ edits < MaxEdits /\ edits' = edits + 1 /\ file' \in Files
  /\ UNCHANGED <<env, down, starts, outages, process, pc, tables, policy, failed, killed>>

\* A file: [used, db (section -> settings), influx ([address, name, enable,
\* duration])]; "bad" is an address no client can be made for.
Init ==
  /\ file \in Files /\ env \in Envs
  /\ loaded = Missing /\ config = None /\ access = None /\ client = None
  /\ pc = "load" /\ at = 1 /\ flag = 0
  /\ tables = {} /\ policy = [n \in Names |-> None]
  /\ down = {} /\ starts = 1 /\ outages = 0 /\ edits = 0
  /\ failed = {} /\ killed = FALSE

Step == \/ LoadConfig \/ GetDBConfig \/ GormInit \/ RegisterTable
        \/ ConnInfluxDB \/ CreateDatabase \/ CreatePolicy \/ AlterPolicy
        \/ Listen

Next ==
  \/ Step
  \/ Kill \/ Restart \/ Edit
  \/ \E s \in Servers : GoDown(s) \/ ComeUp(s)

Spec == Init /\ [][Next]_vars

\* The process runs: every call of the start returns, with an answer or an error.
FairSpec == Spec /\ WF_vars(Step)

-----------------------------------------------------------------------------
(* Properties. *)

\* The loop over the tables stays within them, and InfluxDB is tried four times.
TypeOK ==
  /\ pc \in {"load", "config", "connect", "tables", "influx", "create", "policy", "alter",
             "listen", "dead"} \cup Running
  /\ pc = "tables" => at \in 1..Len(Tables)
  /\ flag \in 0..3
  /\ client \in Names \cup {None} /\ DOMAIN policy = Names
  /\ down \subseteq Servers /\ failed \subseteq Servers

\* Whatever the starts before it left behind, a process past dbm.init has all its
\* tables, in the database the file and the environment name.
ServesOnTables ==
  pc \in Running =>
     /\ \A key \in DOMAIN access.settings :
          access.settings[key] = IF loaded.used # "mysql" /\ env.db[key] # Blank
                                 THEN env.db[key] ELSE loaded.db[access.section][key]
     /\ \A t \in 1..Len(Tables) : <<access, Tables[t]>> \in tables

\* A running process writes time series under the retention the file asks for,
\* also if an earlier file asked for another, unless InfluxDB is not wanted or
\* failed it during this start.
TimeSeriesReady ==
  pc \in Running =>
     \/ ~ Wanted(Influx(loaded, env)) /\ client = None
     \/ "influx" \in failed
     \/ client = Influx(loaded, env).name /\ policy[client] = Duration

\* A start fails only for its file, the database, or an address of InfluxDB no
\* client can be made for; an InfluxDB that is down does not stop it.
DiesForAReason ==
  pc = "dead" =>
     \/ killed \/ "db" \in failed
     \/ loaded = Missing
     \/ loaded.used = Blank \/ ~ Complete(Settings(loaded, env))
     \/ loaded.used \in {"sqlite", "sqlite3"}
     \/ Influx(loaded, env).address = "bad" /\ Influx(loaded, env).enable

\* Every start comes to an end: the process runs or is dead.
StartEnds == (pc = "load") ~> (pc \in Running \cup {"dead"})

\* "GormInit init the database according to the config file." (dbm.go:17): a file
\* that names its database and says all of it gets past GormInit, if nothing fails.
OpensWhatTheFileNames ==
  pc = "dead" /\ ~ killed /\ failed = {} /\ loaded # Missing =>
     \/ loaded.used = Blank \/ access # None
     \/ ~ Complete(loaded.db[IF loaded.used = "sqlite" THEN "sqlite3" ELSE Section(loaded.used)])
=============================================================================
