------------------------------ MODULE Startup ------------------------------
(***************************************************************************)
(* app.New, which opens the stores and the listener one after the other,   *)
(* the SIGHUP and exit paths of main's signal loop around it, and the      *)
(* stores' closing.  Service has what a shutdown waits for.                *)
(*                                                                         *)
(* A configuration file is [good, redis, url, postgres, routes]: good      *)
(* files load and pass ValidateProviders, redis and postgres say which     *)
(* stores they ask for, url whether Redis is given by a URL.  All but the  *)
(* routes can only change with a restart.                                  *)
(***************************************************************************)
EXTENDS Integers, Sequences, FiniteSets, Functions

CONSTANTS BootFiles,  \* what the configuration file may hold
          NoConfig    \* no configuration yet

VARIABLES bootFile,  \* the file's content
          config,    \* the published configuration, or NoConfig
          bootPc,    \* the step of New, "running", "stopping", "failed" or "stopped"
          open,      \* what the process holds: "pool", "refresher", "redis", "listener"
          checked,   \* stores whose readiness was checked
          closes     \* how often each store was closed

bootVars == <<bootFile, config, bootPc, open, checked, closes>>

\* RefreshingQuotaLimitStore and RedisStore; the memory stores hold nothing.
Stores == {"limits", "redis"}

\* What closing a store lets go of.
Held(s) == IF s = "limits" THEN {"pool", "refresher"} ELSE {"redis"}

\* The rate, quota and limit stores buildStores returns, by name.
Built(c) == <<IF c.redis THEN "redis" ELSE "memory", IF c.redis THEN "redis" ELSE "memory",
              IF c.postgres THEN "limits" ELSE "memory">>

\* What the loops append for a store of that name.
Entry(name) == IF name \in Stores THEN <<name>> ELSE <<>>

UniqueStoresAll(c) == LET b == Built(c) IN Entry(b[1]) \o Entry(b[2]) \o Entry(b[3])

\* uniqueClosers and uniqueHealthChecks: Redis is both rate and quota store.
UniqueStores(c) ==
  LET b == Built(c)
  IN  Entry(b[1]) \o (IF b[2] = b[1] THEN <<>> ELSE Entry(b[2]))
                  \o (IF b[3] \in {b[1], b[2]} THEN <<>> ELSE Entry(b[3]))

RestartOnly(c) == <<c.redis, c.url, c.postgres>>

BootInit ==
  /\ bootFile \in BootFiles
  /\ config = NoConfig
  /\ bootPc = "load"
  /\ open = {}
  /\ checked = <<>>
  /\ closes = [s \in Stores |-> 0]

-----------------------------------------------------------------------------
(* New                                                                     *)

CloseAll(stores) ==
  /\ open' = open \ UNION {Held(s) : s \in Range(stores)}
  /\ closes' = [s \in Stores |-> closes[s] + Cardinality({i \in DOMAIN stores : stores[i] = s})]

Load ==
  /\ bootPc = "load"
  /\ IF bootFile.good THEN config' = bootFile /\ bootPc' = "postgres" ELSE bootPc' = "failed" /\ UNCHANGED config
  /\ UNCHANGED <<bootFile, open, checked, closes>>

\* sql.Open, where the configuration names a database; a table name or DSN it
\* cannot use opens nothing.
OpenPostgres(ok) ==
  /\ bootPc = "postgres"
  /\ bootPc' = IF ~config.postgres THEN "redis" ELSE IF ok THEN "schema" ELSE "failed"
  /\ open' = IF config.postgres /\ ok THEN open \cup {"pool"} ELSE open
  /\ UNCHANGED <<bootFile, config, checked, closes>>

\* Ping, ensureSchema and the first LoadAll; each failure closes the pool.
FirstSnapshot(ok) ==
  /\ bootPc = "schema"
  /\ bootPc' = IF ok THEN "redis" ELSE "failed"
  /\ open' = IF ok THEN open \cup {"refresher"} ELSE open \ {"pool"}
  /\ UNCHANGED <<bootFile, config, checked, closes>>

\* buildStores closes the limit store when the Redis URL is no use.
BuildRedis(ok) ==
  /\ bootPc = "redis"
  /\ IF config.redis /\ config.url /\ ~ok
     THEN /\ CloseAll(IF config.postgres THEN <<"limits">> ELSE <<>>)
          /\ bootPc' = "failed"
     ELSE /\ open' = IF config.redis THEN open \cup {"redis"} ELSE open
          /\ bootPc' = "check"
          /\ UNCHANGED closes
  /\ UNCHANGED <<bootFile, config, checked>>

\* The next readiness check.
Check(ok) ==
  LET todo == UniqueStores(config)
      next == todo[Len(checked) + 1]
  IN  /\ bootPc = "check"
      /\ Len(checked) < Len(todo)
      /\ IF ok THEN checked' = Append(checked, next) /\ UNCHANGED <<open, closes, bootPc>>
         ELSE CloseAll(todo) /\ bootPc' = "failed" /\ UNCHANGED checked
      /\ UNCHANGED <<bootFile, config>>

ListenLeaks(ok) ==
  /\ bootPc = "check"
  /\ Len(checked) = Len(UniqueStores(config))
  /\ IF ok THEN bootPc' = "running" /\ open' = open \cup {"listener"}
     ELSE bootPc' = "failed" /\ UNCHANGED open
  /\ UNCHANGED <<bootFile, config, checked, closes>>

Listen(ok) ==
  /\ bootPc = "check"
  /\ Len(checked) = Len(UniqueStores(config))
  /\ IF ok THEN bootPc' = "running" /\ open' = open \cup {"listener"} /\ UNCHANGED closes
     ELSE bootPc' = "failed" /\ CloseAll(UniqueStores(config))
  /\ UNCHANGED <<bootFile, config, checked>>

-----------------------------------------------------------------------------
(* main                                                                    *)

Edit(f) ==
  /\ bootPc \notin {"failed", "stopped"}
  /\ bootFile # f
  /\ bootFile' = f
  /\ UNCHANGED <<config, bootPc, open, checked, closes>>

SighupPublishes ==
  /\ bootPc = "running"
  /\ bootFile.good
  /\ config' = bootFile
  /\ UNCHANGED <<bootFile, bootPc, open, checked, closes>>

\* SIGHUP: Service.Reload publishes the file, or leaves everything as it is.
Sighup ==
  /\ bootPc = "running"
  /\ bootFile.good
  /\ RestartOnly(bootFile) = RestartOnly(config)
  /\ config' = bootFile
  /\ UNCHANGED <<bootFile, bootPc, open, checked, closes>>

\* SIGTERM, an interrupt or a listener that failed: Shutdown closes the
\* listener, and the stores once the requests are gone.
Shutdown ==
  /\ bootPc = "running"
  /\ bootPc' = "stopping"
  /\ open' = open \ {"listener"}
  /\ UNCHANGED <<bootFile, config, checked, closes>>

\* The stores New kept in storeClose are the ones it checked.
CloseOperationalResources ==
  /\ bootPc = "stopping"
  /\ bootPc' = "stopped"
  /\ CloseAll(checked)
  /\ UNCHANGED <<bootFile, config, checked>>

BootNext ==
  \/ Load
  \/ \E ok \in BOOLEAN : OpenPostgres(ok)
  \/ \E ok \in BOOLEAN : FirstSnapshot(ok)
  \/ \E ok \in BOOLEAN : BuildRedis(ok)
  \/ \E ok \in BOOLEAN : Check(ok)
  \/ \E ok \in BOOLEAN : Listen(ok)
  \/ \E f \in BootFiles : Edit(f)
  \/ Sighup \/ Shutdown \/ CloseOperationalResources

BootSpec == BootInit /\ [][BootNext]_bootVars

-----------------------------------------------------------------------------
(* Properties                                                              *)

\* The variables' types; no store is checked twice (uniqueHealthChecks).
BootTypeOK ==
  /\ bootFile \in BootFiles
  /\ config \in BootFiles \cup {NoConfig}
  /\ bootPc \in {"load", "postgres", "schema", "redis", "check", "running", "stopping", "failed",
             "stopped"}
  /\ open \subseteq {"pool", "refresher", "redis", "listener"}
  /\ checked \in Seq(Stores)
  /\ Cardinality(Range(checked)) = Len(checked)

\* A New that returned an error, and a service that has stopped, hold no pool,
\* goroutine, client or port.
HoldsNothing == bootPc \in {"failed", "stopped"} => open = {}

\* While the service runs, what it holds is what the configuration it goes by
\* asks for, whatever was reloaded since the start (New, Reload).
HoldsWhatItSays ==
  bootPc = "running" =>
    open = {"listener"} \cup (IF config.postgres THEN Held("limits") ELSE {})
                        \cup (IF config.redis THEN Held("redis") ELSE {})

\* A store is closed at most once, although one Redis store has two roles, and
\* never while the service may still use it (uniqueClosers).
ClosedOnce ==
  /\ \A s \in Stores : closes[s] <= 1
  /\ bootPc = "running" => \A s \in Stores : closes[s] = 0

\* Whichever step fails, a New that returns an error, and a service that has stopped, hold
\* no pool, goroutine, client or port (the early returns of New, buildStores and
\* NewPostgresRefreshingQuotaLimitStore).  While the service runs it holds what its
\* configuration asks for, whatever was reloaded since the start, and it closes each store
\* once, although one Redis store has two roles (uniqueClosers).
EndsHoldingNothing == BootTypeOK /\ HoldsNothing /\ HoldsWhatItSays /\ ClosedOnce
=============================================================================
