----------------------------- MODULE LiveConfig -----------------------------
(***************************************************************************)
(* Settings while the server runs: the Nacos configuration centre and      *)
(* naming service (common/nacos.py), the environment and the cached        *)
(* Settings built from it (common/config.py), and what is built from the   *)
(* settings in turn: the SQLAlchemy engine with its session maker          *)
(* (common/database.py) and the Redis client (common/redis.py).            *)
(*                                                                         *)
(* A document is a function from the keys it names to values.  One process *)
(* is modelled, with its starts (main.py lifespan), stops and crashes.     *)
(***************************************************************************)
EXTENDS Integers, FiniteSets, FiniteSetsExt, TLC

CONSTANTS
  Values,       \* values a document can give to a key
  Default,      \* the value the image comes with (.env, field defaults)
  LocalFile,    \* the document in the file named by NACOS_DATA_ID
  Requests,     \* concurrent requests with a database session
  Reloads,      \* concurrent POST /admin/reload-config
  Engines,      \* numbers of the engines one process may create (a bound)
  MaxEdits,     \* bound on changes in Nacos
  MaxOutages,   \* bound on Nacos becoming unreachable
  MaxStarts     \* bound on starts of the process

VARIABLES
  nacos,        \* the document in the configuration centre
  reachable,    \* does Nacos answer?
  registered,   \* does the naming service list the instance?
  phase,        \* where the process stands in its life
  environ,      \* os.environ
  settings,     \* _settings_instance
  hot,          \* _hot_reloadable_keys
  listener,     \* state of the NacosConfigListener task
  pushed,       \* the document the SDK delivered last
  url,          \* url[e]: address engine e was made with; NoUrl: not made
  closed,       \* engines that were disposed of
  current,      \* _current_engine
  maker,        \* the engine _current_session_maker is bound to
  client,       \* address of the Redis client; NoUrl: none
  session,      \* session[q]: engine of request q's session
  reload,       \* reload[r]: what reload_engine of r has in hand
  mixed,        \* (history) did reloads with different addresses overlap?
  edits, outages, starts

centre == <<nacos, reachable, edits, outages>>
pools == <<url, closed, current, maker>>
process == <<phase, environ, settings, hot, listener, pushed>>
configVars == <<nacos, reachable, registered, phase, environ, settings, hot, listener, pushed,
          url, closed, current, maker, client, session, reload, mixed, edits, outages, starts>>

Keys == {"db", "redis"}
Documents == UNION {[K -> Values] : K \in SUBSET Keys}
Environments == [Keys -> Values \cup {Default}]
NoUrl == "no address"
NoEngine == 0
NoSettings == [k \in Keys |-> NoUrl]
Addresses == Values \cup {Default, NoUrl}
NotReloading == [old |-> NoEngine, url |-> NoUrl]

ASSUME LiveConfigAssumption ==
  /\ Default \notin Values /\ NoUrl \notin Values \cup {Default}
  /\ LocalFile \in Documents
  /\ Engines \subseteq Nat \ {0}
  /\ {MaxEdits, MaxOutages, MaxStarts} \subseteq Nat

ConfigTypeOK ==
  /\ nacos \in Documents /\ pushed \in Documents
  /\ reachable \in BOOLEAN /\ registered \in BOOLEAN
  /\ phase \in {"down", "imported", "connected", "watching", "serving"}
  /\ environ \in Environments
  /\ settings \in Environments \cup {NoSettings}
  /\ hot \subseteq Keys
  /\ listener \in {"none", "starting", "listening", "dead"}
  /\ url \in [Engines -> Addresses]
  /\ closed \subseteq {e \in Engines : url[e] # NoUrl}
  /\ {current, maker} \subseteq {e \in Engines : url[e] # NoUrl} \cup {NoEngine}
  /\ client \in Addresses
  /\ session \in [Requests -> Engines \cup {NoEngine}]
  /\ reload \in [Reloads -> [old : Engines \cup {NoEngine}, url : Addresses]]
  /\ mixed \in BOOLEAN
  /\ edits \in 0..MaxEdits /\ outages \in 0..MaxOutages /\ starts \in 0..MaxStarts

Image == [k \in Keys |-> Default]

\* _apply_config_to_env: keys that a document no longer names keep their value.
Apply(document, env) == [k \in Keys |-> IF k \in DOMAIN document THEN document[k] ELSE env[k]]

Empty(document) == DOMAIN document = {}

ConfigInit ==
  /\ nacos \in Documents
  /\ reachable = TRUE /\ registered = FALSE
  /\ phase = "down"
  /\ environ = Image /\ settings = NoSettings /\ hot = {}
  /\ listener = "none" /\ pushed = nacos
  /\ url = [e \in Engines |-> NoUrl] /\ closed = {}
  /\ current = NoEngine /\ maker = NoEngine
  /\ client = NoUrl
  /\ session = [q \in Requests |-> NoEngine]
  /\ reload = [r \in Reloads |-> NotReloading]
  /\ mixed = FALSE
  /\ edits = 0 /\ outages = 0 /\ starts = 0

-----------------------------------------------------------------------------
(* Engines *)

Unmade == {e \in Engines : url[e] = NoUrl}

(* _create_engine with its session maker, for an address: both globals.    *)
CreateEngine(address) ==
  /\ Unmade # {}
  /\ url' = [url EXCEPT ![Min(Unmade)] = address]
  /\ current' = Min(Unmade)
  /\ maker' = Min(Unmade)

(* _get_session_maker: what is missing is made from the settings of now.   *)
GetSessionMaker ==
  IF maker = NoEngine \/ current = NoEngine
    THEN IF current = NoEngine
           THEN CreateEngine(settings["db"])
           ELSE maker' = current /\ UNCHANGED <<url, current>>
    ELSE UNCHANGED <<url, current, maker>>

-----------------------------------------------------------------------------
(* The life of the process *)

(* Importing main.py: create_app asks for the settings, which loads Nacos  *)
(* once.  When Nacos does not answer, or has no document, the file is used.*)
LoadedConfig == IF reachable /\ ~Empty(nacos) THEN nacos ELSE LocalFile

Boot ==
  /\ phase = "down" /\ starts < MaxStarts
  /\ environ' = Apply(LoadedConfig, Image)
  /\ settings' = environ'
  /\ phase' = "imported"
  /\ starts' = starts + 1
  /\ UNCHANGED <<centre, registered, hot, listener, pushed, pools, client, session, reload, mixed>>

(* lifespan: SELECT 1 on a first session, or no start. *)
VerifyDatabase ==
  /\ phase = "imported"
  /\ GetSessionMaker
  /\ phase' = "connected"
  /\ UNCHANGED <<centre, registered, environ, settings, hot, listener, pushed, closed,
                 client, session, reload, mixed, starts>>

StartWatcher ==
  /\ phase = "connected"
  /\ listener' = "starting"
  /\ phase' = "watching"
  /\ UNCHANGED <<centre, registered, environ, settings, hot, pushed, pools, client,
                 session, reload, mixed, starts>>

(* NacosServiceRegister: without an answer the client raises and the start *)
(* ends (Stop), a refusal is only logged.                                  *)
Register ==
  /\ reachable
  /\ \/ registered' = TRUE
     \/ UNCHANGED registered

(* register_service_to_nacos, before the first request is served. *)
RegisterService ==
  /\ phase = "watching"
  /\ Register
  /\ phase' = "serving"
  /\ UNCHANGED <<centre, environ, settings, hot, listener, pushed, pools, client, session,
                 reload, mixed, starts>>

StopListener == listener' = "none"
CloseRedis == client' = NoUrl

(* The end of the process: a failed start, a shutdown (the listener is     *)
(* stopped, Redis closed, the instance never deregistered) or a crash.     *)
Stop ==
  /\ phase # "down"
  /\ phase' = "down"
  /\ environ' = Image /\ settings' = NoSettings /\ hot' = {}
  /\ StopListener
  /\ url' = [e \in Engines |-> NoUrl] /\ closed' = {}
  /\ current' = NoEngine /\ maker' = NoEngine
  /\ CloseRedis
  /\ session' = [q \in Requests |-> NoEngine]
  /\ reload' = [r \in Reloads |-> NotReloading]
  /\ mixed' = FALSE
  /\ UNCHANGED <<centre, registered, pushed, starts>>

-----------------------------------------------------------------------------
(* The listener *)

ApplyDocument(document) ==
  IF Empty(document)
    THEN UNCHANGED <<environ, hot>>
    ELSE environ' = Apply(document, environ) /\ hot' = DOMAIN document

(* _init_client: the document of now. *)
InitClient ==
  /\ ApplyDocument(nacos)
  /\ pushed' = nacos

(* _watch_loop: the task ends when Nacos does not answer, while _running   *)
(* stays true: nothing starts it again.                                    *)
WatchLoop ==
  /\ listener = "starting"
  /\ IF reachable
       THEN InitClient /\ listener' = "listening"
       ELSE listener' = "dead" /\ UNCHANGED <<environ, hot, pushed>>
  /\ UNCHANGED <<centre, registered, phase, settings, pools, client, session, reload, mixed, starts>>

\* ConfigChanged that only marks the keys (a mutant).
ConfigOnlyMarked ==
  /\ listener = "listening" /\ reachable
  /\ pushed # nacos
  /\ hot' = DOMAIN nacos /\ pushed' = nacos
  /\ UNCHANGED <<centre, registered, phase, environ, settings, listener, pools, client,
                 session, reload, mixed, starts>>

(* _on_sdk_config_change with the callback of config.py: the environment   *)
(* and the marks change, the cached settings do not.                       *)
ConfigChanged ==
  /\ listener = "listening" /\ reachable
  /\ pushed # nacos
  /\ ApplyDocument(nacos)
  /\ pushed' = nacos
  /\ UNCHANGED <<centre, registered, phase, settings, listener, pools, client, session,
                 reload, mixed, starts>>

-----------------------------------------------------------------------------
(* Requests *)

BeginRequest(q) ==
  /\ phase = "serving" /\ session[q] = NoEngine
  /\ GetSessionMaker
  /\ session' = [session EXCEPT ![q] = maker']
  /\ UNCHANGED <<centre, registered, process, closed, client, reload, mixed, starts>>

EndRequest(q) ==
  /\ session[q] # NoEngine
  /\ session' = [session EXCEPT ![q] = NoEngine]
  /\ UNCHANGED <<centre, registered, process, pools, client, reload, mixed, starts>>

(* get_redis: one client for the life of the process. *)
GetRedis ==
  /\ phase = "serving" /\ client = NoUrl
  /\ client' = settings["redis"]
  /\ UNCHANGED <<centre, registered, process, pools, session, reload, mixed, starts>>

Mixes == \E r \in Reloads : reload[r].url \notin {NoUrl, settings'["db"]}

(* POST /admin/reload-config up to the await of dispose(): the settings    *)
(* come from the environment, the globals are cleared first.  Its address  *)
(* is a parameter for the mutant below.                                    *)
ReloadWith(r, address) ==
  /\ phase = "serving" /\ reload[r] = NotReloading /\ current # NoEngine
  /\ settings' = environ
  /\ reload' = [reload EXCEPT ![r] = [old |-> current, url |-> address]]
  /\ current' = NoEngine /\ maker' = NoEngine
  /\ mixed' = (mixed \/ Mixes)
  /\ UNCHANGED <<centre, registered, phase, environ, hot, listener, pushed, url, closed,
                 client, session, starts>>

\* Mutant of ReloadBegin: the address is read before the settings are reloaded.
ReloadReadsFirst(r) == ReloadWith(r, settings["db"])

ReloadBegin(r) == ReloadWith(r, environ["db"])

(* With nothing to dispose of, reload_engine does not wait at all.         *)
ReloadAtOnce(r) ==
  /\ phase = "serving" /\ reload[r] = NotReloading /\ current = NoEngine
  /\ settings' = environ
  /\ CreateEngine(settings'["db"])
  /\ mixed' = (mixed \/ Mixes)
  /\ UNCHANGED <<centre, registered, phase, environ, hot, listener, pushed, closed, client,
                 session, reload, starts>>

(* The rest of reload_engine: the address read before the await is used.   *)
ReloadEnd(r) ==
  /\ reload[r] # NotReloading
  /\ CreateEngine(reload[r].url)
  /\ closed' = closed \cup {reload[r].old}
  /\ reload' = [reload EXCEPT ![r] = NotReloading]
  /\ UNCHANGED <<centre, registered, process, client, session, mixed, starts>>

-----------------------------------------------------------------------------
(* Nacos *)

Edit ==
  /\ edits < MaxEdits
  /\ nacos' \in Documents \ {nacos}
  /\ edits' = edits + 1
  /\ UNCHANGED <<reachable, outages, registered, process, pools, client, session, reload, mixed, starts>>

Outage ==
  /\ \/ reachable /\ outages < MaxOutages /\ outages' = outages + 1
     \/ ~reachable /\ UNCHANGED outages
  /\ reachable' = ~reachable
  /\ UNCHANGED <<nacos, edits, registered, process, pools, client, session, reload, mixed, starts>>

(* Heartbeats of an ephemeral instance stop with its process. *)
ExpireInstance ==
  /\ registered /\ phase = "down"
  /\ registered' = FALSE
  /\ UNCHANGED <<centre, process, pools, client, session, reload, mixed, starts>>

ConfigNext ==
  \/ Boot \/ VerifyDatabase \/ StartWatcher \/ RegisterService \/ Stop
  \/ WatchLoop \/ ConfigChanged
  \/ \E q \in Requests : BeginRequest(q) \/ EndRequest(q)
  \/ GetRedis
  \/ \E r \in Reloads : ReloadBegin(r) \/ ReloadAtOnce(r) \/ ReloadEnd(r)
  \/ Edit \/ Outage \/ ExpireInstance

(* The event loop runs what is ready: the listener's task and the delivery *)
(* of a change; a long outage ends.                                        *)
Fairness ==
  /\ WF_configVars(WatchLoop) /\ WF_configVars(ConfigChanged)
  /\ WF_configVars(Outage /\ ~reachable)

ConfigSpec == ConfigInit /\ [][ConfigNext]_configVars /\ Fairness

-----------------------------------------------------------------------------
(* Properties *)

Serving == phase = "serving"
Reloading == {r \in Reloads : reload[r] # NotReloading}

(* Once no reload is under way, the engine in use has the address of the   *)
(* settings in use: reload_engine reads the address before it waits for    *)
(* the old pool, and requests create engines meanwhile.  Reloads that      *)
(* overlap keep this only if nothing changed between them.  At all times   *)
(* the two globals of database.py go together, else a session maker left   *)
(* behind would hand out sessions of a pool that is being closed.          *)
EngineFollowsSettings ==
  /\ maker = current
  /\ Serving /\ Reloading = {} /\ ~mixed => url[current] = settings["db"]

(* The same without the exception, as the answer of the route promises.    *)
LastReloadWins == Serving /\ Reloading = {} => url[current] = settings["db"]

(* As long as the listener lives, what Nacos says ends up in the           *)
(* environment, from which the next reload takes it: a change made between *)
(* the initial load and the registration of the listener is not lost.      *)
ChangesArrive ==
  <>[](listener = "listening") => <>[](\A k \in DOMAIN nacos : environ[k] = nacos[k])
=============================================================================
