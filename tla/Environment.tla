---------------------------- MODULE Environment -----------------------------
(***************************************************************************)
(* Starting up: the sweep over the raw environment variables that api,     *)
(* worker and beat run first, in the api's and the worker's copy, and the  *)
(* settings that the same variables are parsed into.                       *)
(*                                                                         *)
(* An environment maps every variable to what is written in it, as far as  *)
(* the two tell it apart: Unset, Blank, Spaces, or a kind of value.  Of    *)
(* numbers there is a "word", "zero", one that is "small" and one "large", *)
(* too large for an hour or a minute and enough for a delay; of booleans   *)
(* the sweep knows "true" and "false" (and more words), the parser "y"     *)
(* too.  A .env file, which only the parser would read, is not there.      *)
(***************************************************************************)
EXTENDS FiniteSets

Unset == "unset"
Blank == ""
Spaces == "  "

Numbers == {"word", "zero", "small", "large"}
Switches == {"true", "false", "y", "maybe"}
Flags == {"MARKET_WORKFLOW_ENABLED", "MARKET_WORKFLOW_SEND_TELEGRAM"}
Delays == {"YUYUTEI_REQUEST_DELAY_MS", "SNKRDUNK_REQUEST_DELAY_MS"}
Times == {"MARKET_WORKFLOW_HOUR_UTC", "MARKET_WORKFLOW_MINUTE_UTC"}

Kinds(variable) ==
  CASE variable \in {"ENVIRONMENT", "APP_ENV"} -> {"production", "Production", "development", "staging"}
    [] variable = "DATABASE_URL" -> {"default", "safe"}
    [] variable = "ADMIN_TOKEN" -> {"default", "short", "long"}
    [] variable = "SCRAPING_MODE" -> {"mock", "live", "Live", "other"}
    [] variable = "MARKET_WORKFLOW_SOURCE" -> {"yuyutei", "other"}
    [] variable \in Delays \union Times \union {"MARKET_WORKFLOW_LIMIT"} -> Numbers
    [] variable \in Flags \union {"RATE_LIMIT_ENABLED"} -> Switches
    [] OTHER -> {"given"}

Variables == Flags \union Delays \union Times \union
  {"ENVIRONMENT", "APP_ENV", "DATABASE_URL", "REDIS_URL", "ADMIN_TOKEN", "API_JWT_SECRET", "SCRAPING_MODE",
   "MARKET_WORKFLOW_SOURCE", "MARKET_WORKFLOW_LIMIT", "TELEGRAM_BOT_TOKEN", "TELEGRAM_CHAT_ID", "RATE_LIMIT_ENABLED"}

Values(variable) == Kinds(variable) \union {Unset, Blank, Spaces}

Given(env, variable) == env[variable] \notin {Unset, Blank}
Written(env, variable) == env[variable] \notin {Unset, Blank, Spaces}

\* _normalize_app_env and get_app_env; an ENVIRONMENT of spaces hides APP_ENV.
AppEnv(env) ==
  LET raw == IF Given(env, "ENVIRONMENT") THEN env["ENVIRONMENT"] ELSE env["APP_ENV"] IN
  IF raw = "Production" THEN "production" ELSE IF raw \in {Unset, Blank, Spaces} THEN "development" ELSE raw

Production(env) == AppEnv(env) = "production"

-----------------------------------------------------------------------------
(***************************************************************************)
(* The sweep of the api: the checks that do not pass, by what they check   *)
(***************************************************************************)
Required(env) ==
  {v \in {"DATABASE_URL", "REDIS_URL", "ADMIN_TOKEN"} : ~Given(env, v)}
    \union {v \in {"DATABASE_URL", "ADMIN_TOKEN"} : env[v] \in {"default", "short"}}
    \union {v \in {"ADMIN_TOKEN"} : env[v] = Spaces}     \* too short

\* The mode is read without regard to case.
Live(env) == env["SCRAPING_MODE"] \in {"live", "Live"}

Scraping(env) ==
  {v \in {"SCRAPING_MODE"} : env[v] \in {"other", Spaces}} \union {v \in Delays : Live(env) /\ env[v] # "large"}

\* Mutant: any word is taken for a boolean.
Workflow_AnyWord(env) ==
  {v \in {"MARKET_WORKFLOW_SOURCE"} : env[v] = "other"}
    \union {v \in {"MARKET_WORKFLOW_LIMIT"} : env[v] \in {"word", "zero"}}
    \union {v \in Times : env[v] \in {"word", "large"}}

Workflow(env) ==
  {v \in {"MARKET_WORKFLOW_SOURCE"} : env[v] = "other"}
    \union {v \in {"MARKET_WORKFLOW_LIMIT"} : env[v] \in {"word", "zero"}}
    \union {v \in Times : env[v] \in {"word", "large"}}
    \union {v \in Flags : env[v] \in {"y", "maybe"}}

Telegram(env) ==
  LET given == {v \in {"TELEGRAM_BOT_TOKEN", "TELEGRAM_CHAT_ID"} : Given(env, v)} IN
  IF Cardinality(given) = 1 \/ (env["MARKET_WORKFLOW_SEND_TELEGRAM"] = "true" /\ given = {}) THEN {"TELEGRAM"} ELSE {}

\* validate_environment: its errors, or its warnings outside of production.
Problems(env) == Required(env) \union Scraping(env) \union Workflow(env) \union Telegram(env)

\* ... and what it only ever warns of.
Warned(env) ==
  {v \in {"SCRAPING_MODE"} : Live(env)} \union {v \in {"APP_ENV"} : AppEnv(env) \notin {"production", "development"}}
    \union {v \in {"RATE_LIMIT_ENABLED"} : Production(env) /\ env[v] \in {"false", "y", "maybe"}}

-----------------------------------------------------------------------------
(***************************************************************************)
(* The worker's copy                                                       *)
(***************************************************************************)
WorkerRequired(env) ==
  {v \in {"DATABASE_URL", "REDIS_URL"} : env[v] \in {Unset, Blank, "default"}}
    \union IF env["ADMIN_TOKEN"] = "long" THEN {} ELSE {"ADMIN_TOKEN"}

WorkerScraping(env) ==
  CASE env["SCRAPING_MODE"] \in {"live", "Live"} -> {v \in Delays : env[v] \in Values(v) \ {"large"}}
    [] env["SCRAPING_MODE"] \in {Unset, Blank, "mock"} -> {}
    [] OTHER -> {"SCRAPING_MODE"}

WorkerWorkflow(env) ==
  LET fine(v) ==
        CASE v = "MARKET_WORKFLOW_SOURCE" -> {"yuyutei"}
          [] v = "MARKET_WORKFLOW_LIMIT" -> {"small", "large"}
          [] v \in Times -> {"zero", "small"}
          [] v \in Flags -> {"true", "false"} IN
  {v \in {"MARKET_WORKFLOW_SOURCE", "MARKET_WORKFLOW_LIMIT"} \union Times \union Flags :
     Written(env, v) /\ env[v] \notin fine(v)}

WorkerTelegram(env) ==
  LET bot == Given(env, "TELEGRAM_BOT_TOKEN")  chat == Given(env, "TELEGRAM_CHAT_ID") IN
  IF bot # chat \/ (~bot /\ env["MARKET_WORKFLOW_SEND_TELEGRAM"] = "true") THEN {"TELEGRAM"} ELSE {}

WorkerProblems(env) ==
  WorkerRequired(env) \union WorkerScraping(env) \union WorkerWorkflow(env) \union WorkerTelegram(env)

-----------------------------------------------------------------------------
(***************************************************************************)
(* Settings: which values their parser takes, and who starts               *)
(***************************************************************************)
Parses(env, variable) ==
  CASE variable \in {"DATABASE_URL", "REDIS_URL"} -> env[variable] \notin {Blank, Spaces}
    [] variable = "SCRAPING_MODE" -> env[variable] \in {Unset, "mock", "live"}
    [] variable = "MARKET_WORKFLOW_SOURCE" -> env[variable] \in {Unset, "yuyutei"}
    [] variable \in {"MARKET_WORKFLOW_LIMIT", "YUYUTEI_REQUEST_DELAY_MS"} -> env[variable] \in {Unset, "small", "large"}
    [] variable = "SNKRDUNK_REQUEST_DELAY_MS" -> env[variable] \in {Unset, "zero", "small", "large"}
    [] variable \in Times -> env[variable] \in {Unset, "zero", "small"}
    [] variable \in Flags \union {"RATE_LIMIT_ENABLED"} -> env[variable] \in {Unset, "true", "false", "y"}
    [] OTHER -> TRUE

On(env, flag) == env[flag] \in {"true", "y"}

\* celery_app reads its settings before the sweep.
WorkerStarts(env) ==
  /\ \A v \in Variables \ {"RATE_LIMIT_ENABLED"} : Parses(env, v)
  /\ Production(env) => WorkerProblems(env) = {}

ApiStarts(env) ==
  /\ \A v \in {"DATABASE_URL", "REDIS_URL", "RATE_LIMIT_ENABLED"} : Parses(env, v)
  /\ Production(env) => Given(env, "ADMIN_TOKEN") /\ Given(env, "API_JWT_SECRET")     \* validate_config
  /\ Production(env) => Problems(env) = {}

\* _build_beat_schedule: a scheduled workflow, if there is one, with digest.
Scheduled(env) == On(env, "MARKET_WORKFLOW_ENABLED")
Sends(env) == Scheduled(env) /\ On(env, "MARKET_WORKFLOW_SEND_TELEGRAM")

-----------------------------------------------------------------------------
(***************************************************************************)
(* Properties                                                              *)
(***************************************************************************)

\* The two sweeps agree ("Keep the two in sync"); only the api's minds the
\* rate limit.
SweepsAgree(env) == WorkerProblems(env) = Problems(env)

\* What runs in production runs on what the sweep demands of it, as the parsed
\* settings have it and not as the sweep read them: no default password, a long
\* token, delays between live requests, a chat for the scheduled digest.
StartedIsSafe(env) ==
  Production(env) =>
    /\ ApiStarts(env) \/ WorkerStarts(env) =>
         env["DATABASE_URL"] = "safe" /\ Written(env, "REDIS_URL") /\ env["ADMIN_TOKEN"] = "long"
    /\ WorkerStarts(env) =>
         /\ env["SCRAPING_MODE"] = "live" => \A v \in Delays : env[v] = "large"
         /\ Sends(env) => Given(env, "TELEGRAM_BOT_TOKEN") /\ Given(env, "TELEGRAM_CHAT_ID")

\* An environment that the sweep passes can be started from, if nothing in it
\* is blank or in capitals and the delays are numbers that mock mode ignores,
\* and if the api has its secret and a readable rate limit besides.  (A blank
\* variable passes, and is no number and no boolean for the parser.)
PassedStarts(env) ==
  /\ Problems(env) = {}
  /\ \A v \in Variables : env[v] \notin {Blank, Spaces, "Live"}
  /\ \A v \in Delays : Parses(env, v)
  =>
  /\ WorkerStarts(env)
  /\ Given(env, "API_JWT_SECRET") /\ Parses(env, "RATE_LIMIT_ENABLED") => ApiStarts(env)
=============================================================================
