---------------------------- MODULE StartupProofs ----------------------------
(* What Startup guarantees for any number of tries, of starts and of changes *)
(* of the services.                                                          *)
EXTENDS Startup, TLAPS

(* What a stage finds done, wherever main is, asleep and awake, and a try    *)
(* left for a stage that is next.                                            *)
StagesDone ==
    /\ phase \in {"redis", "redis sleeps"} => "db" \in services
    /\ phase \in {"rabbit", "rabbit sleeps", "loop", "bind", "serving"} => services = {"db", "redis"}
    /\ loop => services = {"db", "redis"}
    /\ phase \in {"db", "redis", "rabbit"} => tries < maxRetries

StartInv == StagesInOrder /\ StagesDone

\* Zenon, not SMT, selects the branch of a CASE.
LEMMA StageNames ==
  /\ After("db") = "redis" /\ After("redis") = "rabbit"
  /\ After("rabbit") = "loop"
  /\ SleepOf("db") = "db sleeps" /\ SleepOf("redis") = "redis sleeps"
  /\ SleepOf("rabbit") = "rabbit sleeps"
<1>1. After("db") = "redis"
  BY Zenon DEF After
<1>2. After("redis") = "rabbit"
  BY Zenon DEF After
<1>3. After("rabbit") = "loop"
  BY Zenon DEF After
<1>4. SleepOf("db") = "db sleeps"
  BY Zenon DEF SleepOf
<1>5. SleepOf("redis") = "redis sleeps"
  BY Zenon DEF SleepOf
<1>6. SleepOf("rabbit") = "rabbit sleeps"
  BY Zenon DEF SleepOf
<1>7. QED
  BY <1>1, <1>2, <1>3, <1>4, <1>5, <1>6

\* What one try of a stage does to the handles and the connections.
LEMMA SetupEffect ==
  ASSUME TypeOK, NEW s \in Dependencies, setup(s)
  PROVE  /\ services' \subseteq {"db", "redis"} /\ services \subseteq services'
         /\ held' \in [Dependencies -> Nat]
         /\ status[s] = "up" /\ s # "rabbit" => s \in services'
         /\ s # "rabbit" => held'["rabbit"] = held["rabbit"]
         /\ s = "rabbit" => services' = services
<1>1. CASE s = "db"
  <2>1. setupDB
    BY <1>1, Zenon DEF setup
  <2>2. \/ services' = services \cup {"db"} /\ held' = [held EXCEPT !["db"] = @ + 1]
        \/ status["db"] # "up" /\ UNCHANGED <<services, held>>
    BY <2>1 DEF setupDB
  <2>3. held' \in [Dependencies -> Nat] /\ held'["rabbit"] = held["rabbit"]
    BY <2>2 DEF TypeOK, Dependencies
  <2>4. QED
    BY <1>1, <2>2, <2>3 DEF TypeOK
<1>2. CASE s = "redis"
  <2>1. setupRedis
    BY <1>2, Zenon DEF setup
  <2>2. QED
    BY <1>2, <2>1 DEF setupRedis, TypeOK, Dependencies
<1>3. CASE s = "rabbit"
  <2>1. setupRabbitMQ
    BY <1>3, Zenon DEF setup
  <2>2. \A n \in (CASE status["rabbit"] = "up" -> {1}
                    [] status["rabbit"] = "starting" -> {0, 1}
                    [] status["rabbit"] = "down" -> {0}) : n \in {0, 1}
    <3>1. CASE status["rabbit"] = "up"
      BY <3>1, Zenon
    <3>2. CASE status["rabbit"] = "starting"
      BY <3>2, Zenon
    <3>3. CASE status["rabbit"] = "down"
      BY <3>3, Zenon
    <3>4. QED
      BY <3>1, <3>2, <3>3 DEF TypeOK, Dependencies
  <2>3. \E n \in {0, 1} : held' = [held EXCEPT !["rabbit"] = @ + n]
    BY <2>1, <2>2, Zenon DEF setupRabbitMQ
  <2>4. services' = services
    BY <2>1 DEF setupRabbitMQ
  <2>5. QED
    BY <1>3, <2>3, <2>4 DEF TypeOK, Dependencies
<1>4. QED
  BY <1>1, <1>2, <1>3 DEF Dependencies

LEMMA InitStart == Init => StartInv
<1> SUFFICES ASSUME Init PROVE StartInv
  OBVIOUS
<1>1. /\ phase = "db" /\ tries = 0 /\ services = {} /\ loop = FALSE /\ processes = 1
      /\ changes = 0 /\ held \in [Dependencies -> Nat] /\ held["rabbit"] = 0
      /\ status \in [Dependencies -> {"down", "starting", "up"}]
  BY DEF Init, Dependencies
<1>2. TypeOK
  <2>1. tries \in 0..maxRetries /\ processes \in 1..(MaxProcesses + 1) /\ changes \in 0..MaxChanges
    BY <1>1, StartupAssumption
  <2>2. QED
    BY <1>1, <2>1 DEF TypeOK, Dependencies
<1>3. NoNilHandle /\ PanicsInOrder /\ StagesDone
  BY <1>1, StartupAssumption DEF NoNilHandle, PanicsInOrder, StagesDone
<1>4. QED
  BY <1>2, <1>3 DEF StartInv, StagesInOrder

LEMMA TryKeepsStart ==
  ASSUME StartInv, NEW s \in Dependencies, Try(s)
  PROVE  StartInv'
<1> USE DEF Dependencies
<1>1. /\ phase = s /\ setup(s) /\ UNCHANGED <<loop, status, processes, changes>>
      /\ TypeOK /\ PanicsInOrder /\ StagesDone
  BY DEF Try, StartInv, StagesInOrder
<1>2. \/ /\ status[s] = "up" /\ tries' = 0
         /\ \/ s = "db" /\ phase' = "redis"
            \/ s = "redis" /\ phase' = "rabbit"
            \/ s = "rabbit" /\ phase' = "loop"
      \/ /\ status[s] # "up" /\ tries' = tries + 1
         /\ \/ s = "db" /\ phase' = "db sleeps"
            \/ s = "redis" /\ phase' = "redis sleeps"
            \/ s = "rabbit" /\ phase' = "rabbit sleeps"
  BY StageNames DEF Try
<1>3. /\ services' \subseteq {"db", "redis"} /\ services \subseteq services'
      /\ held' \in [Dependencies -> Nat]
      /\ status[s] = "up" /\ s # "rabbit" => s \in services'
      /\ s # "rabbit" => held'["rabbit"] = held["rabbit"]
      /\ s = "rabbit" => services' = services
  BY <1>1, SetupEffect
<1>4. tries < maxRetries /\ maxRetries \in Nat
  BY <1>1, StartupAssumption DEF StagesDone
<1>5. TypeOK'
  <2>1. (phase \in Dependencies \cup Sleeping \cup {"loop"})'
    BY <1>2 DEF Sleeping
  <2>2. (tries \in 0..maxRetries)'
    <3>1. tries \in 0..maxRetries
      BY <1>1 DEF TypeOK
    <3>2. tries' = 0 \/ tries' = tries + 1
      BY <1>2
    <3>3. QED
      BY <1>4, <3>1, <3>2
  <2>3. QED
    BY <1>1, <1>3, <2>1, <2>2 DEF TypeOK
<1>6. StagesDone'
  <2>1. 0 < maxRetries
    BY StartupAssumption
  <2>2. QED
    BY <1>1, <1>2, <1>3, <2>1 DEF StagesDone
<1>7. NoNilHandle' /\ PanicsInOrder'
  BY <1>1, <1>2, <1>3 DEF StagesDone, NoNilHandle, PanicsInOrder
<1>8. QED
  BY <1>5, <1>6, <1>7 DEF StartInv, StagesInOrder

LEMMA NextStart == StartInv /\ [Next]_vars => StartInv'
<1> SUFFICES ASSUME TypeOK, NoNilHandle, PanicsInOrder, StagesDone,
                    [Next]_vars
             PROVE  TypeOK' /\ NoNilHandle' /\ PanicsInOrder' /\ StagesDone'
  BY DEF StartInv, StagesInOrder
<1> DEFINE Kept == TypeOK' /\ NoNilHandle' /\ PanicsInOrder' /\ StagesDone'
           rest == <<tries, services, loop, held, status, processes, changes>>
<1> USE DEF NoNilHandle, PanicsInOrder, Dependencies
<1>1. ASSUME NEW s \in Dependencies, Wake(s) PROVE Kept
  <2>1. /\ \/ s = "db" /\ phase = "db sleeps"
           \/ s = "redis" /\ phase = "redis sleeps"
           \/ s = "rabbit" /\ phase = "rabbit sleeps"
        /\ phase' = (IF tries < maxRetries THEN s ELSE "panicked") /\ UNCHANGED rest
    BY <1>1, StageNames DEF Wake, WakeWith
  <2>2. TypeOK'
    BY <2>1 DEF TypeOK, Ended
  <2>3. tries < maxRetries \/ tries = maxRetries
    BY StartupAssumption DEF TypeOK
  <2>4. StagesDone'
    BY <2>1 DEF StagesDone
  <2>5. QED
    BY <2>1, <2>2, <2>3, <2>4
<1>2. CASE StartLoop
  <2>1. phase = "loop" /\ phase' = "bind" /\ loop' /\ services = {"db", "redis"}
    BY <1>2 DEF StartLoop, StagesDone
  <2>2. TypeOK'
    BY <1>2 DEF StartLoop, TypeOK
  <2>3. QED
    BY <1>2, <2>1, <2>2 DEF StartLoop, StagesDone
<1>3. CASE Bind
  <2>1. phase = "bind" /\ phase' \in {"serving", "stopped"} /\ UNCHANGED rest
    BY <1>3 DEF Bind
  <2>2. TypeOK'
    BY <2>1 DEF TypeOK, Ended
  <2>3. QED
    BY <2>1, <2>2 DEF StagesDone
<1>4. ASSUME NEW s \in {"db", "redis"}, Use(s) PROVE Kept
  <2>1. phase' = phase /\ UNCHANGED rest
    BY <1>4 DEF Use, StagesDone
  <2>2. QED
    BY <2>1 DEF TypeOK, StagesDone
<1>5. CASE Kill
  <2>1. phase' = "stopped" /\ UNCHANGED rest
    BY <1>5 DEF Kill
  <2>2. TypeOK'
    BY <2>1 DEF TypeOK, Ended
  <2>3. QED
    BY <2>1, <2>2 DEF StagesDone
<1>6. CASE Restart
  <2>1. /\ phase' = "db" /\ tries' = 0 /\ services' = {} /\ loop' = FALSE
        /\ held' \in [Dependencies -> Nat] /\ held'["rabbit"] = 0
        /\ processes <= MaxProcesses /\ processes' = processes + 1 /\ UNCHANGED <<status, changes>>
    BY <1>6 DEF Restart
  <2>2. (tries \in 0..maxRetries /\ processes \in 1..(MaxProcesses + 1))'
    <3>1. processes \in 1..(MaxProcesses + 1)
      BY DEF TypeOK
    <3>2. QED
      BY <2>1, <3>1, StartupAssumption
  <2>3. TypeOK'
    BY <2>1, <2>2 DEF TypeOK
  <2>4. StagesDone'
    <3>1. 0 < maxRetries
      BY StartupAssumption
    <3>2. QED
      BY <2>1, <3>1 DEF StagesDone
  <2>5. QED
    BY <2>1, <2>3, <2>4
<1>7. ASSUME NEW s \in Dependencies, Change(s) PROVE Kept
  <2>1. /\ UNCHANGED <<phase, tries, services, loop, processes>>
        /\ changes' = changes + 1 /\ changes < MaxChanges
        /\ held' = held \/ held' = [held EXCEPT ![s] = 0]
        /\ \E x \in {"down", "starting", "up"} : status' = [status EXCEPT ![s] = x]
    BY <1>7 DEF Change
  <2>2. held' \in [Dependencies -> Nat] /\ (held'["rabbit"] > 0 => held["rabbit"] > 0)
    BY <2>1 DEF TypeOK
  <2>3. (status \in [Dependencies -> {"down", "starting", "up"}])'
    BY <2>1 DEF TypeOK
  <2>4. TypeOK'
    BY <2>1, <2>2, <2>3, StartupAssumption DEF TypeOK
  <2>5. QED
    BY <2>1, <2>2, <2>4 DEF StagesDone
<1>8. CASE UNCHANGED vars
  BY <1>8 DEF vars, TypeOK, StagesDone
<1>9. ASSUME NEW s \in Dependencies, Try(s) PROVE Kept
  BY <1>9, TryKeepsStart DEF StartInv, StagesInOrder
<1>10. QED
  BY <1>1, <1>2, <1>3, <1>4, <1>5, <1>6, <1>7, <1>8, <1>9 DEF Next, Main

\* In every process of any series of starts, crashes and changes of the services
\* it needs, a stage comes after the stages it needs, no handle is used before
\* it is stored, and a process panics with its last try of a stage.
THEOREM StartInOrder == Spec => []StagesInOrder
<1>1. StartInv => StagesInOrder
  BY DEF StartInv
<1>2. QED
  BY <1>1, InitStart, NextStart, PTL DEF Spec
=============================================================================
