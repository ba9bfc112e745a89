-------------------------- MODULE MCServeLifecycle --------------------------
(***************************************************************************)
(* Instances of ServeLifecycle for TLC.  The file sets one field or none,  *)
(* to any class of value; the environment and the flags one or none of a   *)
(* few that differ in how they are parsed, checked or used.                *)
(***************************************************************************)
EXTENDS ServeLifecycle

Set(f, v) == [g \in {f} |-> v]

Setting(fields) == {NoSource} \cup UNION {{Set(f, v) : v \in Class[f]} : f \in fields}

Malformed(fields) == {Set(f, "malformed") : f \in fields}

MCFiles == Setting(Field) \cup Malformed({"server.port"})
MCEnvironments ==
    Setting({"server.port", "server.read_timeout", "server.tls_key_file", "auth.token",
             "auth.enabled", "history.disk_path", "log.level"})
    \cup Malformed({"server.port", "server.read_timeout", "auth.enabled"})
MCFlags == Setting({"log.level"})
MCServeFlags == Setting({"server.addr", "server.port"})

\* For the run about the history loop.
WithDiskPath == {Set("history.disk_path", "text")}
Unset == {NoSource}
=============================================================================
