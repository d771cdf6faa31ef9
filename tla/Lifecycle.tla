------------------------------ MODULE Lifecycle ------------------------------
(***************************************************************************)
(* The life of the server process (cmd/mailserver, serveCmd): what it      *)
(* opens, in which order, what cleanup closes when a step fails, the       *)
(* program panics or a signal comes, and the schema migrations             *)
(* (storage/metadata), which "mailserver migrate" may run at the same      *)
(* time.  The process may be killed anywhere and started again.            *)
(***************************************************************************)
EXTENDS Integers, Sequences, FiniteSetsExt

CONSTANTS
  Versions,   \* the embedded migrations: 1..3
  Workers,    \* the delivery engine's goroutines
  MaxStarts   \* bound on starts of the server

ASSUME LifeAssumption == Versions \in Nat \ {0} /\ Workers \in Nat \ {0} /\ MaxStarts \in Nat

VARIABLES
  schema,   \* version -> how often its migration has been committed
  migrator, \* who -> where its Migrate is
  serve,    \* where serveCmd is: a step of Startup or of Cleanup, or stopped
  open,     \* what the process really holds
  tracked,  \* the fields of resources that are set
  workers,  \* goroutines of the engine that run
  http,     \* server -> state of its http.Server
  starts
lifeVars == <<schema, migrator, serve, open, tracked, workers, http, starts>>

(* The steps of RunE that can fail and the resource each sets, if any. *)
Startup ==
  <<"db", "migrate", "tls", "store", "queue", "engine", "imap", "backend", "smtp",
    "listen imap", "listen imaps", "listen mx", "listen submission", "listen smtps",
    "dav", "admin", "autodiscover", "running">>
(* cleanup's order. *)
Cleanup == <<"admin", "dav", "smtp", "imap", "engine", "queue", "db">>

Resources == {"db", "queue", "engine", "imap", "smtp", "dav", "admin"}
ListenersOf == [imap |-> {"listen imap", "listen imaps"},
                smtp |-> {"listen mx", "listen submission", "listen smtps"}]
Listeners == ListenersOf.imap \union ListenersOf.smtp
HttpServers == {"dav", "admin"}
Migrators == {"serve", "command"}
NoMigrator == [pc |-> "idle", at |-> 0]
Stopped == [pc |-> "stopped", at |-> 0]

LifeInit ==
  /\ schema = [v \in 1..Versions |-> 0]
  /\ migrator = [m \in Migrators |-> NoMigrator]
  /\ serve = Stopped
  /\ open = {} /\ tracked = {} /\ workers = 0
  /\ http = [h \in HttpServers |-> "none"] /\ starts = 0

AtStep(step) == serve.pc = "starting" /\ Startup[serve.at] = step
Advance == serve' = [serve EXCEPT !.at = @ + 1]
BeginCleanup == serve' = [pc |-> "cleaning", at |-> 1]

-----------------------------------------------------------------------------
(* Migrate: the version is read once, then every higher migration runs in a
   transaction of its own that ends by inserting its version, the table's
   primary key.  An error ends Migrate.                                      *)

SchemaVersion == Max({0} \union {v \in 1..Versions : schema[v] > 0})

GetSchemaVersion(m) ==
  /\ migrator[m].pc = "idle"
  /\ m = "serve" => AtStep("migrate")
  /\ migrator' = [migrator EXCEPT ![m] = [pc |-> "apply", at |-> SchemaVersion + 1]]
  /\ UNCHANGED <<schema, serve, open, tracked, workers, http, starts>>

(* Whether the INSERT of the version is accepted. *)
InsertVersion(v) == schema[v] = 0

(* Without the check for an error, the failed migration is passed over. *)
ApplyMigrationSkipping(m) ==
  LET v == migrator[m].at IN
  /\ migrator[m].pc = "apply"
  /\ IF v > Versions
       THEN migrator' = [migrator EXCEPT ![m].pc = "done"] /\ UNCHANGED schema
       ELSE /\ \/ InsertVersion(v) /\ schema' = [schema EXCEPT ![v] = @ + 1]
               \/ UNCHANGED schema
            /\ migrator' = [migrator EXCEPT ![m].at = v + 1]
  /\ UNCHANGED <<serve, open, tracked, workers, http, starts>>

ApplyMigration(m) ==
  LET v == migrator[m].at IN
  /\ migrator[m].pc = "apply"
  /\ IF v > Versions
       THEN /\ migrator' = [migrator EXCEPT ![m].pc = "done"]
            /\ UNCHANGED schema
       ELSE \/ /\ InsertVersion(v)
               /\ schema' = [schema EXCEPT ![v] = @ + 1]
               /\ migrator' = [migrator EXCEPT ![m].at = v + 1]
            \/ migrator' = [migrator EXCEPT ![m].pc = "failed"] /\ UNCHANGED schema
  /\ UNCHANGED <<serve, open, tracked, workers, http, starts>>

(* "mailserver migrate" ends, and may be called again. *)
CommandEnds ==
  /\ migrator["command"].pc \in {"done", "failed"}
  /\ migrator' = [migrator EXCEPT !["command"] = NoMigrator]
  /\ UNCHANGED <<schema, serve, open, tracked, workers, http, starts>>

-----------------------------------------------------------------------------
(* serveCmd.  Configuration, directories and logger come first; without them it
   returns before anything is open.                                          *)
StartServe ==
  /\ serve = Stopped /\ starts < MaxStarts
  /\ starts' = starts + 1
  /\ serve' = [pc |-> "starting", at |-> 1]
  /\ UNCHANGED <<schema, migrator, open, tracked, workers, http>>

(* db and Redis: the handle is set once it is open. *)
OpenStore ==
  /\ AtStep("db") \/ AtStep("queue")
  /\ open' = open \union {Startup[serve.at]}
  /\ tracked' = tracked \union {Startup[serve.at]}
  /\ Advance
  /\ UNCHANGED <<schema, migrator, workers, http, starts>>

MigrateReturns ==
  /\ AtStep("migrate")
  /\ \/ migrator["serve"].pc = "done" /\ Advance
     \/ migrator["serve"].pc = "failed" /\ BeginCleanup
  /\ migrator' = [migrator EXCEPT !["serve"] = NoMigrator]
  /\ UNCHANGED <<schema, open, tracked, workers, http, starts>>

(* The servers are set once they listen. *)
MakeServerUntracked ==
  /\ AtStep("tls") \/ AtStep("store") \/ AtStep("backend") \/ AtStep("imap") \/ AtStep("smtp")
  /\ Advance
  /\ UNCHANGED <<schema, migrator, open, tracked, workers, http, starts>>

(* TLS, the maildir store and the SMTP backend are made; the IMAP and SMTP
   servers are set before they listen.                                       *)
MakeServer ==
  /\ AtStep("tls") \/ AtStep("store") \/ AtStep("backend") \/ AtStep("imap") \/ AtStep("smtp")
  /\ tracked' = tracked \union ({Startup[serve.at]} \intersect Resources)
  /\ Advance
  /\ UNCHANGED <<schema, migrator, open, workers, http, starts>>

StartEngine ==
  /\ AtStep("engine")
  /\ tracked' = tracked \union {"engine"}
  /\ workers' = Workers
  /\ Advance
  /\ UNCHANGED <<schema, migrator, open, http, starts>>

(* ListenAndServe, ListenAndServeTLS, ListenAndServeSubmission: the TLS ones open
   nothing when no TLS is configured.                                        *)
Listen ==
  /\ serve.pc = "starting" /\ Startup[serve.at] \in Listeners
  /\ \/ open' = open \union {Startup[serve.at]}
     \/ Startup[serve.at] \in {"listen imaps", "listen smtps"} /\ UNCHANGED open
  /\ Advance
  /\ UNCHANGED <<schema, migrator, tracked, workers, http, starts>>

(* DAV and admin server: switched off, not made (only a warning), or left to a
   goroutine that makes the http.Server.                                     *)
SpawnHttp ==
  /\ serve.pc = "starting" /\ Startup[serve.at] \in HttpServers
  /\ LET h == Startup[serve.at] IN
       \/ /\ tracked' = tracked \union {h}
          /\ http' = [http EXCEPT ![h] = "spawned"]
       \/ UNCHANGED <<tracked, http>>
  /\ Advance
  /\ UNCHANGED <<schema, migrator, open, workers, starts>>

(* Autodiscover is started and nobody keeps it. *)
SpawnAutodiscover ==
  /\ AtStep("autodiscover")
  /\ \/ open' = open \union {"autodiscover"}
     \/ UNCHANGED open
  /\ Advance
  /\ UNCHANGED <<schema, migrator, tracked, workers, http, starts>>

(* A step that fails, other than DAV, admin and autodiscover, which only log it;
   a panic; the signal.  All lead to cleanup.                                *)
StepFails ==
  /\ serve.pc = "starting"
  /\ Startup[serve.at] \notin {"migrate", "engine", "imap", "smtp", "dav", "admin", "autodiscover", "running"}
  /\ BeginCleanup
  /\ UNCHANGED <<schema, migrator, open, tracked, workers, http, starts>>

PanicOrSignal ==
  /\ serve.pc = "starting"
  /\ migrator["serve"] = NoMigrator
  /\ BeginCleanup
  /\ UNCHANGED <<schema, migrator, open, tracked, workers, http, starts>>

(* Start of an http server: the field is set, then it listens, unless Shutdown
   has come in between; it may also fail to listen.                          *)
HttpStart(h) ==
  /\ http[h] \in {"spawned", "made"}
  /\ http' = [http EXCEPT ![h] = IF @ = "spawned" THEN "made" ELSE "serving"]
  /\ UNCHANGED <<schema, migrator, serve, open, tracked, workers, starts>>

-----------------------------------------------------------------------------
(* cleanup, a resource after the other, those that are not set skipped. *)

AtCleanup(r) == serve.pc = "cleaning" /\ serve.at <= Len(Cleanup) /\ Cleanup[serve.at] = r
CleanupSkips ==
  /\ serve.pc = "cleaning" /\ serve.at <= Len(Cleanup) /\ Cleanup[serve.at] \notin tracked
  /\ Advance
  /\ UNCHANGED <<schema, migrator, open, tracked, workers, http, starts>>

(* Shutdown of an http server that has not been made yet does nothing. *)
ShutdownHttp(h) ==
  /\ AtCleanup(h) /\ h \in tracked
  /\ http' = [http EXCEPT ![h] = IF @ = "spawned" THEN "spawned" ELSE "closed"]
  /\ Advance
  /\ UNCHANGED <<schema, migrator, open, tracked, workers, starts>>

(* Close of the SMTP and the IMAP server. *)
CloseListeners(r) ==
  /\ AtCleanup(r) /\ r \in tracked
  /\ open' = open \ ListenersOf[r]
  /\ Advance
  /\ UNCHANGED <<schema, migrator, tracked, workers, http, starts>>

(* Engine.Stop: the context is cancelled, the goroutines finish one by one, and
   cleanup goes on when they have.                                           *)
WorkerExits ==
  /\ AtCleanup("engine") /\ "engine" \in tracked /\ workers > 0
  /\ workers' = workers - 1
  /\ UNCHANGED <<schema, migrator, serve, open, tracked, http, starts>>

(* Stop without the wait. *)
StopEngineAtOnce ==
  /\ AtCleanup("engine") /\ "engine" \in tracked
  /\ Advance
  /\ UNCHANGED <<schema, migrator, open, tracked, workers, http, starts>>

StopEngine ==
  /\ AtCleanup("engine") /\ "engine" \in tracked /\ workers = 0
  /\ Advance
  /\ UNCHANGED <<schema, migrator, open, tracked, workers, http, starts>>

CloseStore ==
  /\ \E r \in {"queue", "db"} :
       /\ AtCleanup(r) /\ r \in tracked
       /\ open' = open \ {r}
  /\ Advance
  /\ UNCHANGED <<schema, migrator, tracked, workers, http, starts>>

(* serveCmd returns: what is still open is open at the end of the process. *)
Return ==
  /\ serve.pc = "cleaning" /\ serve.at > Len(Cleanup)
  /\ serve' = [pc |-> "returned", at |-> 0]
  /\ UNCHANGED <<schema, migrator, open, tracked, workers, http, starts>>

(* The process ends, or is killed: the kernel closes the rest, a transaction
   that was not committed is undone.                                         *)
ProcessEnds ==
  /\ serve # Stopped
  /\ serve' = Stopped
  /\ open' = {} /\ tracked' = {} /\ workers' = 0
  /\ http' = [h \in HttpServers |-> "none"]
  /\ migrator' = [migrator EXCEPT !["serve"] = NoMigrator]
  /\ UNCHANGED <<schema, starts>>

Starting ==
  \/ StartServe \/ OpenStore \/ MigrateReturns \/ MakeServer \/ StartEngine \/ Listen
  \/ SpawnHttp \/ SpawnAutodiscover \/ StepFails \/ PanicOrSignal
CleaningUp ==
  \/ CleanupSkips \/ \E h \in HttpServers : ShutdownHttp(h)
  \/ CloseListeners("smtp") \/ CloseListeners("imap")
  \/ WorkerExits \/ StopEngine \/ CloseStore \/ Return

LifeNext ==
  \/ \E m \in Migrators : GetSchemaVersion(m) \/ ApplyMigration(m)
  \/ CommandEnds \/ Starting \/ CleaningUp \/ ProcessEnds
  \/ \E h \in HttpServers : HttpStart(h)

LifeSpec == LifeInit /\ [][LifeNext]_lifeVars

-----------------------------------------------------------------------------
(* Properties.                                                               *)

LifeTypeOK ==
  /\ schema \in [1..Versions -> 0..2]
  /\ migrator \in [Migrators -> [pc : {"idle", "apply", "done", "failed"}, at : 0..(Versions + 1)]]
  /\ serve \in [pc : {"stopped", "starting", "cleaning", "returned"}, at : 0..Len(Startup)]
  /\ open \subseteq {"db", "queue", "autodiscover"} \union Listeners
  /\ tracked \subseteq Resources /\ workers \in 0..Workers
  /\ http \in [HttpServers -> {"none", "spawned", "made", "serving", "closed"}]
  /\ starts \in 0..MaxStarts

(* serveCmd never returns with something of its own open: whichever step fails,
   panics or is interrupted, cleanup knows all that the steps before it opened.
   Autodiscover and a DAV or admin server whose goroutine has not yet made its
   http.Server are the exceptions.                                           *)
ReturnsWithNothingOpen == serve.pc = "returned" => open \subseteq {"autodiscover"} /\ workers = 0

(* Cleanup's order: a worker of the engine has its queue, and a server that
   listens has the database and the queue it hands mail to, from the first
   accepted connection to the last.                                          *)
StoresOutliveUsers ==
  /\ workers > 0 => "queue" \in open
  /\ open \intersect Listeners # {} => {"db", "queue"} \subseteq open

(* Each migration is committed once and after those before it, though the server
   and the migrate command run together and either may fail or be killed at any
   point; and a server that goes on has the whole schema.                    *)
MigratedOnce ==
  /\ \A v \in 1..Versions : schema[v] <= 1 /\ (schema[v] = 1 => \A u \in 1..v : schema[u] = 1)
  /\ serve.pc = "starting" /\ serve.at > 2 => schema[Versions] = 1
=============================================================================
