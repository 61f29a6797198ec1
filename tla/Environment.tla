----------------------------- MODULE Environment -----------------------------
(***************************************************************************)
(* The configuration two processes start with: the backend's               *)
(* (config/index.ts with utils and schemas) and the MCP server's           *)
(* (mcp-backend/src/config/env).                                           *)
(*                                                                         *)
(* A variable's raw value is [kind, number, parts]: "unset", "blank",      *)
(* "number" with its value, "fraction", "url", "flag" ("true" or "false",  *)
(* number 1 or 0), "list" with the trimmed parts between its commas, or    *)
(* "text".  An environment is a function from variables to raw values.     *)
(***************************************************************************)
EXTENDS Absent

Raw(kind) == [kind |-> kind, number |-> 0, parts |-> <<>>]
NumberRaw(n) == [kind |-> "number", number |-> n, parts |-> <<>>]
FlagRaw(isTrue) == [kind |-> "flag", number |-> IF isTrue THEN 1 ELSE 0, parts |-> <<>>]
ListRaw(parts) == [kind |-> "list", number |-> 0, parts |-> parts]

IsSet(raw) == raw.kind # "unset"
IsBlank(raw) == raw.kind \in {"unset", "blank"}

Result(ok, value) == [ok |-> ok, value |-> value]
Rejected == Result(FALSE, None)

\* z.coerce.number(): Number("") is 0, and an unset variable never gets there when
\* the schema has a default or is optional.
coerced(raw) ==
  CASE raw.kind = "number" -> raw.number
    [] raw.kind = "blank" -> 0
    [] OTHER -> None

-----------------------------------------------------------------------------
\* The backend's schemas

nonEmpty(raw) == IF IsBlank(raw) THEN Rejected ELSE Result(TRUE, raw)

url(raw) == IF raw.kind = "url" THEN Result(TRUE, raw) ELSE Rejected

\* z.enum(['true', 'false']) and the comparison with 'true' at its use.
flag(raw) == IF raw.kind = "flag" THEN Result(TRUE, raw.number = 1) ELSE Rejected

\* Mutant: zero passes, as a blank value then does.
naturalWithZero(raw, least, most, default) ==
  IF ~IsSet(raw) THEN Result(TRUE, default)
  ELSE IF coerced(raw) # None /\ coerced(raw) \in 0..most THEN Result(TRUE, coerced(raw))
  ELSE Rejected

\* z.coerce.number().int() from least to most, with a default for an unset variable.
natural(raw, least, most, default) ==
  IF ~IsSet(raw) THEN Result(TRUE, default)
  ELSE IF coerced(raw) # None /\ coerced(raw) \in least..most THEN Result(TRUE, coerced(raw))
  ELSE Rejected

\* No number of the checked environments exceeds this bound of the coerced values.
MaxNumber == 100000

\* The last TCP port.
MaxPort == 65535

Required == {"ACCESS_TOKEN_SECRET", "REFRESH_TOKEN_SECRET", "MONGO_DB_NAME",
             "MONGO_USER_COLLECTION_NAME", "MONGO_JOBS_COLLECTION_NAME",
             "MONGO_MCP_CONVERSATIONS_COLLECTION_NAME", "OPENROUTER_API_KEY", "OPENROUTER_MODEL",
             "DEV_DOMAIN", "PROD_DOMAIN"}
Urls == {"MONGO_URI", "MCP_SERVER_URL", "DEV_CLIENT_URL", "PROD_CLIENT_URL"}
Flags == {"ENABLE_HTTP_RATE_LIMIT", "ENABLE_LOGGING", "ENABLE_REGISTRATION"}

checked(variable, raw) ==
  CASE variable \in Required -> nonEmpty(raw)
    [] variable \in Urls -> url(raw)
    [] variable \in Flags -> flag(raw)
    [] variable = "MAX_DB_RETRIES" -> natural(raw, 1, MaxNumber, 3)
    [] variable = "DB_RETRY_DELAY_MS" -> natural(raw, 1, MaxNumber, 5000)
    [] variable = "PORT" -> natural(raw, 1, MaxPort, 1000)

\* validateEnvironmentVariables(): NODE_ENV chooses the variables that are read.
environmentVariables(nodeEnv) ==
  IF nodeEnv = "development" THEN <<"DEV_CLIENT_URL", "DEV_DOMAIN">>
  ELSE <<"PROD_CLIENT_URL", "PROD_DOMAIN">>

\* validateCommonEnvironmentVariables(), in its order.
commonVariables ==
  <<"ACCESS_TOKEN_SECRET", "REFRESH_TOKEN_SECRET", "MONGO_URI", "MONGO_DB_NAME",
    "MAX_DB_RETRIES", "DB_RETRY_DELAY_MS", "MONGO_USER_COLLECTION_NAME",
    "MONGO_JOBS_COLLECTION_NAME", "MONGO_MCP_CONVERSATIONS_COLLECTION_NAME",
    "OPENROUTER_API_KEY", "OPENROUTER_MODEL", "MCP_SERVER_URL", "ENABLE_HTTP_RATE_LIMIT",
    "ENABLE_LOGGING", "ENABLE_REGISTRATION", "PORT">>

\* config: the value of every variable that is read, or the first that is refused.
config(nodeEnv, env) ==
  LET read == environmentVariables(nodeEnv) \o commonVariables
      refused == {i \in DOMAIN read : ~checked(read[i], env[read[i]]).ok} IN
  IF nodeEnv \notin {"development", "production"}
  THEN [ok |-> FALSE, issue |-> "NODE_ENV", values |-> <<>>]
  ELSE IF refused # {} THEN [ok |-> FALSE, issue |-> read[Min(refused)], values |-> <<>>]
  ELSE [ok |-> TRUE, issue |-> None, values |-> [v \in ToSet(read) |-> checked(v, env[v]).value]]

-----------------------------------------------------------------------------
\* The MCP server

LoopbackHosts == <<"localhost", "127.0.0.1", "::1">>

\* A list without a part is like no list.
parseHostList(raw) ==
  LET items == Where(raw.parts, LAMBDA part : part # "") IN
  IF IsBlank(raw) \/ items = <<>> THEN None ELSE items

isLoopback(host) == host \in ToSet(LoopbackHosts)

\* The object schema and superRefine(); a blank DSN is no DSN.  host is the text of HOST.
\* A rate counts in tenths.
Refinements(host, env) ==
  [HOST |-> host # "",
   PORT |-> coerced(env["PORT"]) # None /\ coerced(env["PORT"]) > 0,
   MCP_ALLOWED_HOSTS |-> isLoopback(host) \/ parseHostList(env["MCP_ALLOWED_HOSTS"]) # None,
   SENTRY_DSN |-> IsBlank(env["SENTRY_DSN"]) \/ env["SENTRY_DSN"].kind = "url",
   SENTRY_TRACES_SAMPLE_RATE |->
     ~IsSet(env["SENTRY_TRACES_SAMPLE_RATE"])
     \/ (coerced(env["SENTRY_TRACES_SAMPLE_RATE"]) # None
         /\ coerced(env["SENTRY_TRACES_SAMPLE_RATE"]) \in 0..10),
   SHUTDOWN_TIMEOUT_MS |-> /\ coerced(env["SHUTDOWN_TIMEOUT_MS"]) # None
                           /\ coerced(env["SHUTDOWN_TIMEOUT_MS"]) > 0]

hasDsn(env) == ~IsBlank(env["SENTRY_DSN"])

toConfig(host, env) ==
  [HOST |-> host,
   PORT |-> coerced(env["PORT"]),
   MCP_ALLOWED_HOSTS |-> OrElse(parseHostList(env["MCP_ALLOWED_HOSTS"]), LoopbackHosts),
   SENTRY_DSN |-> IF hasDsn(env) THEN env["SENTRY_DSN"] ELSE None,
   SENTRY_TRACES_SAMPLE_RATE |->
     IF IsSet(env["SENTRY_TRACES_SAMPLE_RATE"]) THEN coerced(env["SENTRY_TRACES_SAMPLE_RATE"])
     ELSE IF hasDsn(env) THEN 1 ELSE 0,
   SHUTDOWN_TIMEOUT_MS |-> coerced(env["SHUTDOWN_TIMEOUT_MS"])]

\* loadConfig(): every issue at once, or the configuration; with an issue the process exits 1.
loadConfig(host, env) ==
  LET refinements == Refinements(host, env)
      issues == {v \in DOMAIN refinements : ~refinements[v]} IN
  [issues |-> issues, config |-> IF issues = {} THEN toConfig(host, env) ELSE None]

-----------------------------------------------------------------------------
\* Properties of one environment

\* The backend starts only with values its parts can run on: at least one attempt to
\* connect (the client loops over the attempts), a delay that is a delay, a port that
\* exists.  A blank number is not a default, and what the other environment would need
\* changes nothing.
BackendRunsOnItsConfig(nodeEnv, env, other) ==
  LET found == config(nodeEnv, env) IN
  /\ found.ok =>
       /\ found.values["MAX_DB_RETRIES"] >= 1 /\ found.values["DB_RETRY_DELAY_MS"] >= 1
       /\ found.values["PORT"] \in 1..MaxPort
       /\ \A v \in DOMAIN found.values : v \notin DOMAIN [f \in Flags |-> 0] \/ found.values[v] \in BOOLEAN
       /\ \A v \in {"MAX_DB_RETRIES", "DB_RETRY_DELAY_MS", "PORT"} : env[v].kind # "blank"
  /\ config(nodeEnv, [v \in DOMAIN env |->
       IF v \in ToSet(environmentVariables(other)) \ ToSet(environmentVariables(nodeEnv))
       THEN Raw("unset") ELSE env[v]]) = found

\* The MCP server never listens without a list of hosts, and off loopback the list is
\* one somebody wrote.
HostsAreListed(host, env) ==
  LET loaded == loadConfig(host, env) IN
  loaded.issues = {} =>
    /\ loaded.config.MCP_ALLOWED_HOSTS # <<>>
    /\ ~isLoopback(host) => ToSet(loaded.config.MCP_ALLOWED_HOSTS) \subseteq
                              ToSet(env["MCP_ALLOWED_HOSTS"].parts)
    /\ "" \notin ToSet(loaded.config.MCP_ALLOWED_HOSTS)

=============================================================================
