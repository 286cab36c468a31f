------------------------------- MODULE Startup -------------------------------
(* The life of the server process up to the moment it serves: main of        *)
(* tormgr.go, InitServices and the setup functions of services.go, and the   *)
(* listening socket of setupServer.  A dependency is down, starting (it      *)
(* accepts connections and answers with errors: PostgreSQL in recovery,      *)
(* Redis loading its data, RabbitMQ before its virtual host is up) or up.    *)
(* Time is left out: a sleep is a step of its own, which may be as short as  *)
(* nothing because the code multiplies it by a random number from zero on.   *)
EXTENDS Naturals

CONSTANTS maxRetries,   \* the number of tries of each stage, 4 in the code
          MaxProcesses, \* bound on the processes started
          MaxChanges    \* bound on the changes of the dependencies

ASSUME StartupAssumption ==
    /\ maxRetries \in Nat \ {0}
    /\ MaxProcesses \in Nat
    /\ MaxChanges \in Nat

VARIABLES phase,     \* where main is
          tries,     \* failed tries of the current stage
          services,  \* the handles of the variable services that are not nil
          loop,      \* the hourly loop of tokensStartDeleteExpiredLoop runs
          held,      \* connections that stay open and that nothing can close
          status,    \* the state of each dependency
          processes, \* processes started
          changes    \* changes of the dependencies

vars == <<phase, tries, services, loop, held, status, processes, changes>>

Dependencies == {"db", "redis", "rabbit"}
Sleeping == {"db sleeps", "redis sleeps", "rabbit sleeps"}

(* The phase in which retry sleeps after a failed try of a stage. *)
SleepOf(s) ==
    CASE s = "db" -> "db sleeps" [] s = "redis" -> "redis sleeps" [] s = "rabbit" -> "rabbit sleeps"

(* What InitServices goes on with after a stage. *)
After(s) == CASE s = "db" -> "redis" [] s = "redis" -> "rabbit" [] s = "rabbit" -> "loop"

Ended == {"panicked", "crashed", "stopped"}

TypeOK ==
    /\ phase \in Dependencies \cup Sleeping \cup {"loop", "bind", "serving"} \cup Ended
    /\ tries \in 0..maxRetries
    /\ services \subseteq {"db", "redis"}
    /\ loop \in BOOLEAN
    /\ held \in [Dependencies -> Nat]
    /\ status \in [Dependencies -> {"down", "starting", "up"}]
    /\ processes \in 1..(MaxProcesses + 1)
    /\ changes \in 0..MaxChanges

(* A new process: nothing is connected, and the first stage is next. *)
Init ==
    /\ phase = "db"
    /\ tries = 0
    /\ services = {}
    /\ loop = FALSE
    /\ held = [s \in Dependencies |-> 0]
    /\ status \in [Dependencies -> {"down", "up"}]
    /\ processes = 1
    /\ changes = 0

(* One try of setupDB.  The rows of SELECT 1 are never closed, so that their *)
(* connection is in use for good.                                            *)
setupDB ==
    \/ /\ status["db"] = "up"
       /\ services' = services \cup {"db"}
       /\ held' = [held EXCEPT !["db"] = @ + 1]
    \/ /\ status["db"] # "up"
       /\ UNCHANGED <<services, held>>

(* One try of setupRedis.  A client whose PING failed is dropped. *)
setupRedis ==
    /\ services' = IF status["redis"] = "up" THEN services \cup {"redis"} ELSE services
    /\ UNCHANGED held

(* One try of setupRabbitMQ.  The connection is in a local variable, and its *)
(* own goroutines keep it open, also when the channel on it was refused.     *)
setupRabbitMQ ==
    /\ held' \in {[held EXCEPT !["rabbit"] = @ + n] :
                    n \in CASE status["rabbit"] = "up" -> {1}
                            [] status["rabbit"] = "starting" -> {0, 1}
                            [] status["rabbit"] = "down" -> {0}}
    /\ UNCHANGED services

setup(s) ==
    CASE s = "db" -> setupDB [] s = "redis" -> setupRedis [] s = "rabbit" -> setupRabbitMQ

(* retry calls the function of the stage; InitServices goes on with the next *)
(* stage when it succeeds.  A dependency in use answers only while it is up. *)
Try(s) ==
    /\ phase = s
    /\ setup(s)
    /\ IF status[s] = "up"
         THEN /\ phase' = After(s)
              /\ tries' = 0
         ELSE /\ phase' = SleepOf(s)
              /\ tries' = tries + 1
    /\ UNCHANGED <<loop, status, processes, changes>>

(* retry has slept: it tries again while it has a try left.  Otherwise it     *)
(* returns the last error, which InitServices returns and main panics with.  *)
WakeWith(s, last, then) ==
    /\ phase = SleepOf(s)
    /\ phase' = IF tries < last THEN s ELSE then
    /\ UNCHANGED <<tries, services, loop, held, status, processes, changes>>

\* Mutants: one try fewer; no error returned.
WakeTooFew(s) == WakeWith(s, maxRetries - 1, "panicked")
WakeIgnoring(s) == WakeWith(s, maxRetries, After(s))

Wake(s) == WakeWith(s, maxRetries, "panicked")

(* tokensStartDeleteExpiredLoop, the last step of InitServices. *)
StartLoop ==
    /\ phase = "loop"
    /\ loop' = TRUE
    /\ phase' = "bind"
    /\ UNCHANGED <<tries, services, held, status, processes, changes>>

(* setupServer: the address is bound, or log.Fatal ends the process. *)
Bind ==
    /\ phase = "bind"
    /\ phase' \in {"serving", "stopped"}
    /\ UNCHANGED <<tries, services, loop, held, status, processes, changes>>

(* A goroutine uses a handle of the variable services: the hourly loop its   *)
(* database, from the moment it runs, a request the database and the cache.  *)
(* A nil handle is a nil dereference, which ends the process.                *)
Use(s) ==
    /\ \/ loop /\ s = "db"
       \/ phase = "serving" /\ s \in {"db", "redis"}
    /\ phase \notin Ended
    /\ phase' = IF s \in services THEN phase ELSE "crashed"
    /\ UNCHANGED <<tries, services, loop, held, status, processes, changes>>

(* The process is killed, and whatever it had open is closed. *)
Kill ==
    /\ phase \notin Ended
    /\ phase' = "stopped"
    /\ UNCHANGED <<tries, services, loop, held, status, processes, changes>>

(* Someone starts the server again. *)
Restart ==
    /\ phase \in Ended
    /\ processes <= MaxProcesses
    /\ phase' = "db"
    /\ tries' = 0
    /\ services' = {}
    /\ loop' = FALSE
    /\ held' = [s \in Dependencies |-> 0]
    /\ processes' = processes + 1
    /\ UNCHANGED <<status, changes>>

(* A dependency stops, which ends the connections to it, or comes up. *)
Change(s) ==
    /\ changes < MaxChanges
    /\ changes' = changes + 1
    /\ \/ /\ status[s] # "down"
          /\ status' = [status EXCEPT ![s] = "down"]
          /\ held' = [held EXCEPT ![s] = 0]
       \/ /\ status[s] = "down"
          /\ status' = [status EXCEPT ![s] = "starting"]
          /\ UNCHANGED held
       \/ /\ status[s] = "starting"
          /\ status' = [status EXCEPT ![s] = "up"]
          /\ UNCHANGED held
    /\ UNCHANGED <<phase, tries, services, loop, processes>>

(* main goes on by itself. *)
Main ==
    \/ \E s \in Dependencies : Try(s) \/ Wake(s)
    \/ StartLoop
    \/ Bind

Next ==
    \/ Main
    \/ \E s \in {"db", "redis"} : Use(s)
    \/ Kill
    \/ Restart
    \/ \E s \in Dependencies : Change(s)

Spec == Init /\ [][Next]_vars

(* main is a goroutine that runs whenever it can; a sleep ends. *)
FairSpec == Spec /\ WF_vars(Main)

-----------------------------------------------------------------------------
(* Neither the hourly loop nor a request ever meets a nil database or cache: *)
(* the loop is started, and the address bound, only when both stages have    *)
(* stored their handles, in every process of a series of crashes.            *)
NoNilHandle == phase # "crashed"

(* A process that panics has failed exactly maxRetries times on one stage,   *)
(* and no stage is tried before the ones it follows have succeeded.          *)
PanicsInOrder ==
    /\ phase = "panicked" => tries = maxRetries
    /\ held["rabbit"] > 0 => services = {"db", "redis"}

(* setupServices: whatever a dependency does, a stage comes after the stages *)
(* it needs, and what a stage stores is there for whoever uses it.           *)
StagesInOrder == TypeOK /\ NoNilHandle /\ PanicsInOrder

(* Each start comes to an end: the server serves, or the process is gone. *)
Decides == [](phase = "db" => <>(phase = "serving" \/ phase \in Ended))

(* Once every dependency is up for good, no start fails but for its address: *)
(* a process that has a try left, even its last, comes to bind, or is killed. *)
HasTry == phase \in Dependencies \/ (phase \in Sleeping /\ tries < maxRetries)
StartsWhenUp ==
    [](([](\A s \in Dependencies : status[s] = "up") /\ HasTry)
         => <>(phase \in {"bind", "serving", "stopped"}))

(* What tryInit's retries are for: every start is decided, and for good when *)
(* the dependencies are there for good.                                      *)
Starts == Decides /\ StartsWhenUp
=============================================================================
