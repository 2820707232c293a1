------------------------------ MODULE MCProcess ------------------------------
(***************************************************************************)
(* The life of a gateway process: loading its configuration (ConfigLoad),  *)
(* app.New, reloads and the way down (Startup), the limits it serves and   *)
(* refreshes meanwhile (LimitSnapshot), and what a shutdown waits for      *)
(* (Service), in the command and as a library.  Each is a specification of *)
(* its own: one moves, the others stay as they began.                      *)
(***************************************************************************)
EXTENDS Service, ConfigLoad, Startup, LimitSnapshot

CONSTANTS h1, h2, h3, k1, w1

VARIABLE part  \* "command", "library", "startup", "config" or "limits"

MCHandler == {h1, h2, h3}

-----------------------------------------------------------------------------
(* Configuration files that differ from a good one in one part, or in a     *)
(* pair of parts that refer to each other, with two entries in every map.   *)

MCSupported == [p \in {"a", "b"} |-> IF p = "a" THEN {"chat", "embed"} ELSE {"chat"}]
MCEnvirons == {[v \in {"V", "W"} |-> IF v = "V" THEN x ELSE y] : x, y \in {"t", "u", None}}

Ann == [who |-> "ann", sound |-> TRUE, providers |-> {"a"}]
Bob == [who |-> "bob", sound |-> TRUE, providers |-> {"b"}]
Cy == [who |-> "cy", sound |-> TRUE, providers |-> {}]

R == [sound |-> TRUE, fits |-> TRUE, provider |-> "a", ops |-> {"chat"}, weight |-> 0, timeout |-> 0,
      concurrency |-> 0]

RouteMaps ==
  LET kinds == {R, [R EXCEPT !.concurrency = 5, !.weight = 3], [R EXCEPT !.provider = "b", !.timeout = 9],
                [R EXCEPT !.provider = "b", !.ops = {"embed"}], [R EXCEPT !.provider = "c"],
                [R EXCEPT !.sound = FALSE], [R EXCEPT !.fits = FALSE], None}
  IN  [{1, 2} -> kinds] \cup [{1, 2, 3} -> {R, [R EXCEPT !.concurrency = 5], [R EXCEPT !.provider = "b"]}]
        \cup {[n \in {} |-> R]}

Good == [anonymous |-> FALSE, jwt |-> "off", basics |-> TRUE, inline |-> [t \in {"t"} |-> Ann],
         envs |-> [v \in {"V", "W"} |-> IF v = "V" THEN Bob ELSE Cy],
         routes |-> [n \in {1, 2} |-> IF n = 1 THEN R ELSE [R EXCEPT !.provider = "b"]],
         profiles |-> [p \in {"p", "q"} |-> IF p = "p" THEN Ann ELSE Cy],
         keys |-> [k \in {"k", "l"} |-> IF k = "k" THEN "p" ELSE "q"]]
Nobody == [t \in {} |-> Ann]

MCFiles ==
  {Good, [Good EXCEPT !.basics = FALSE], [Good EXCEPT !.jwt = "bad"],
   [Good EXCEPT !.inline["t"].sound = FALSE], [Good EXCEPT !.envs["W"].sound = FALSE],
   [Good EXCEPT !.profiles["q"].sound = FALSE], [Good EXCEPT !.keys["l"] = "z"],
   [Good EXCEPT !.profiles["q"].providers = {"c"}]}
  \cup {[Good EXCEPT !.inline = Nobody, !.envs = e, !.anonymous = a, !.jwt = j] :
          e \in {Nobody, [v \in {"V"} |-> Cy], Good.envs}, a \in BOOLEAN, j \in {"off", "good"}}
  \cup {[Good EXCEPT !.routes = r, !.envs = Nobody] : r \in RouteMaps}

-----------------------------------------------------------------------------
\* Every choice of stores, with two sets of routes, and files that do not load.
MCBootFiles == [good : BOOLEAN, redis : BOOLEAN, url : BOOLEAN, postgres : BOOLEAN, routes : 1 .. 2]

\* One handler that puts limits, a refresh loop that may fail, and a Close at any time; the
\* hook, which holds up nobody, is not installed.
MCKeyID == {k1}
MCWriter == {w1}

ASSUME PartsAssumption == ConfigLoadAssumption /\ LimitSnapshotAssumption

-----------------------------------------------------------------------------
MCInit ==
  /\ part \in {"command", "library", "startup", "config", "limits"}
  /\ Init /\ LoadInit /\ BootInit /\ LimitsInit
  /\ part # "startup" => bootFile = CHOOSE f \in BootFiles : TRUE
  /\ part # "config" => file = Good /\ environ = CHOOSE e \in Environs : TRUE

MCNext ==
  /\ UNCHANGED part
  /\ \/ part = "command" /\ Next /\ UNCHANGED <<bootVars, loadVars, limitVars>>
     \/ part = "library" /\ ServiceNext /\ UNCHANGED <<bootVars, loadVars, limitVars>>
     \/ part = "startup" /\ BootNext /\ UNCHANGED <<vars, loadVars, limitVars>>
     \/ part = "config" /\ LoadNext /\ UNCHANGED <<vars, bootVars, limitVars>>
     \/ part = "limits" /\ LimitsNext /\ UNCHANGED <<vars, bootVars, loadVars>>

\* Shutdown's own goroutines always run on; handlers return in the library only, so that
\* the command is checked with handlers that hang.
Serving == part \in {"command", "library"}
ServiceFairness ==
  /\ WF_vars(Serving /\ ShutdownStep) /\ WF_vars(Serving /\ CloseLater)
  /\ WF_vars(part = "command" /\ Exit)
  /\ \A h \in Handler : WF_vars(part = "library" /\ HandlerStep(h))

LimitFairness ==
  /\ WF_limitVars(part = "limits" /\ Refresh)
  /\ SF_limitVars(part = "limits" /\ RefreshLock)
  /\ SF_limitVars(part = "limits" /\ LoadSucceeds)
  /\ WF_limitVars(part = "limits" /\ Close)
  /\ SF_limitVars(part = "limits" /\ CloseLock)
  /\ WF_limitVars(part = "limits" /\ Put(w1))

MCSpec ==
  /\ MCInit /\ [][MCNext]_<<part, vars, bootVars, loadVars, limitVars>>
  /\ ServiceFairness /\ LimitFairness
-----------------------------------------------------------------------------
\* Shutdown returns even when handlers hang, and the stores are closed in the end, by
\* Shutdown or by the goroutine it left, provided cancelled handlers return and nothing
\* ends the process (app.go:268-287).
ShutdownEnds == ShutdownReturns /\ (part = "library" => StoresAreClosed)
=============================================================================
