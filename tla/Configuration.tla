--------------------------- MODULE Configuration ---------------------------
(***************************************************************************)
(* internal/config: the configuration is the defaults, overlaid by a file, *)
(* the environment and flags, and validated once.  A value is the class    *)
(* its parser or Validate puts it in: numbers and durations by their sign, *)
(* checked texts by whether the check accepts them, other texts by whether *)
(* they are empty.  auth.public_paths, of which nothing is asked, is left  *)
(* out.                                                                    *)
(***************************************************************************)
EXTENDS Naturals, Sequences

Durations == {"server.read_timeout", "server.write_timeout", "server.idle_timeout",
              "server.shutdown_timeout", "probes.timeout", "cache.probe_ttl",
              "history.flush_interval"}
Counts == {"ratelimit.requests_per_minute", "ratelimit.burst", "history.max_entries"}
Numbers == Durations \cup Counts \cup {"server.port", "probes.max_retries"}
Required == {"server.addr", "probes.dns_host"}
Optional == {"server.tls_cert_file", "server.tls_key_file", "auth.token", "history.disk_path"}
Checked == {"probes.vpc_cidr", "probes.subnet_cidr", "probes.echo_urls", "log.level", "log.format"}

Field == Numbers \cup Required \cup Optional \cup Checked
           \cup {"probes.imds_base_url", "auth.enabled"}

\* The classes of a field's values.
Class == [f \in Field |->
    CASE f = "server.port" -> {"negative", "zero", "positive", "above_65535"}
      [] f \in Numbers \ {"server.port"} -> {"negative", "zero", "positive"}
      [] f \in Required \cup Optional -> {"empty", "text"}
      [] f \in Checked -> {"valid", "invalid"}
      [] f = "probes.imds_base_url" -> {"empty", "valid", "invalid"}
      [] f = "auth.enabled" -> {"true", "false"}]

Defaults == [f \in Field |->
    CASE f \in Numbers -> "positive"
      [] f \in Required -> "text"
      [] f \in Checked -> "valid"
      [] f \in Optional \cup {"probes.imds_base_url"} -> "empty"
      [] f = "auth.enabled" -> "false"]

----------------------------------------------------------------------------
\* A source is a partial function: what it does not set stays as it was.
NoSource == [f \in {} |-> "empty"]

Overlay(config, source) ==
    [f \in DOMAIN config |-> IF f \in DOMAIN source THEN source[f] ELSE config[f]]

\* setInt, setBool and setDuration refuse a text that is not of their type;
\* an empty variable is set, and is such a text.
Parses(env) == \A f \in DOMAIN env : env[f] # "malformed"

\* Mutant: the file is applied over the environment.
Loaded_FileLast(file, env, flags) ==
    Overlay(Overlay(Overlay(Defaults, env), file), flags)

\* Load: every source over the ones before it.
Loaded(file, env, flags) == Overlay(Overlay(Overlay(Defaults, file), env), flags)

----------------------------------------------------------------------------
\* What Validate finds wrong with a field by itself.
Rejected(f, class) ==
    \/ f = "server.port" /\ class # "positive"
    \/ f \in Durations \cup Counts /\ class \in {"negative", "zero"}
    \/ f = "probes.max_retries" /\ class = "negative"
    \/ f \in Required /\ class = "empty"
    \/ class = "invalid"

\* What it finds wrong with fields together.
Incomplete(config) ==
    (IF config["server.tls_cert_file"] # config["server.tls_key_file"]
     THEN {"server.tls_cert_file", "server.tls_key_file"} ELSE {})
    \cup (IF config["auth.enabled"] = "true" /\ config["auth.token"] = "empty"
          THEN {"auth.token"} ELSE {})

\* Validate: the fields it reports.
InvalidFields(config) == {f \in Field : Rejected(f, config[f])} \cup Incomplete(config)

----------------------------------------------------------------------------
\* The precedence that is documented (config.go:4-9, load.go:40-42), stated
\* without applying anything: of the sources that set a field the last counts.
ByPrecedence(sources) ==
    [f \in Field |->
        LET setting == {i \in DOMAIN sources : f \in DOMAIN sources[i]}
        IN  IF setting = {} THEN Defaults[f]
            ELSE sources[CHOOSE i \in setting : \A j \in setting : j <= i][f]]
=============================================================================
