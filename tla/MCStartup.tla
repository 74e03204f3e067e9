------------------------------- MODULE MCStartup -------------------------------
(* Files for each database, without a name or a setting, with InfluxDB off, on  *)
(* for two durations and with a bad address; environments that say nothing, or  *)
(* name another host and another database of InfluxDB.                          *)
EXTENDS Startup

MCTables == <<"device_model", "service_model", "device_instance">>
MCNames == {"ithings", "other"}

Server(h, u) == [host |-> h, user |-> u]
Sections(server, path) ==
  [section \in {"mysql", "sqlite3", "postgre"} |->
     IF section = "sqlite3" THEN [path |-> path] ELSE server]
NoInflux == [address |-> Blank, name |-> Blank, enable |-> FALSE, duration |-> "3d"]
Series(address, enable, duration) ==
  [address |-> address, name |-> "ithings", enable |-> enable, duration |-> duration]
Yaml(used, db, influx) == [used |-> used, db |-> db, influx |-> influx]
Local == Sections(Server("local", "root"), "ithings.db")
NoHost == Sections(Server(Blank, "root"), Blank)

MCFiles == {
  Missing,
  Yaml(Blank, Local, NoInflux),
  Yaml("mysql", Local, NoInflux),
  Yaml("mysql", NoHost, NoInflux),
  Yaml("sqlite", Local, NoInflux),
  Yaml("sqlite3", Local, NoInflux),
  Yaml("postgre", NoHost, Series("good", TRUE, "3d")),
  Yaml("postgre", Local, Series("good", FALSE, "3d")),
  Yaml("postgre", Local, Series("good", TRUE, "3d")),
  Yaml("postgre", Local, Series("good", TRUE, "7d")),
  Yaml("postgre", Local, Series("bad", TRUE, "3d"))}
MCEnvs == {
  [db |-> Server(Blank, Blank), influx |-> Blank],
  [db |-> Server("remote", Blank), influx |-> "other"]}
=============================================================================
