---------------------------- MODULE ServiceProofs ----------------------------
(***************************************************************************)
(* Proofs about Settings and Service, for every set of requests and of     *)
(* sources and every bound.                                                *)
(***************************************************************************)
EXTENDS Service, FiniteSetTheorems, TLAPS

-----------------------------------------------------------------------------
(* The inductive invariant                                                 *)

\* The requests in flight have a process and something left to do, unless they
\* wait for their client.
WorkInv ==
    \A r \in Requests : InFlight(r) =>
        phase \in Up /\ (stage[r] \in {"arriving", "client"} \/ left[r] \in 1..MaxStatements)

\* The settings in force are those of the source the process found.
SettingsInv ==
    phase # "down" \/ settings # NULL =>
        source \in Sources /\ loads(source) /\ settings = load(source)

\* Told to migrate, a process is past migrating only if its database is.
MigratedInv ==
    phase \in Up \cup {"binding"} /\ settings["db.run_migrations_on_start"] =>
        schema[settings["db.url"]] = "current"

\* Each request in the queue is there once; no more connections are in use
\* than there are.
PoolInv ==
    /\ held = {r \in Requests : stage[r] = "executing"} /\ IsFiniteSet(held)
    /\ settings # NULL \/ held # {} => Cardinality(held) <= settings["db.max_connections"]
    /\ queue \in Seq(Requests)
    /\ \A i \in DOMAIN queue : stage[queue[i]] = "waiting"
    /\ \A r \in Requests : stage[r] = "waiting" => \E i \in DOMAIN queue : queue[i] = r
    /\ \A i, j \in DOMAIN queue : queue[i] = queue[j] => i = j

ServiceInv == ServiceTypeOK /\ WorkInv /\ SettingsInv /\ MigratedInv /\ PoolInv

-----------------------------------------------------------------------------
(* Settings                                                                *)

\* Over of four sources, the last first.
LEMMA OverFour ==
    ASSUME NEW f, NEW g, NEW h, NEW i, NEW j,
           NEW k \in DOMAIN f \cup DOMAIN g \cup DOMAIN h \cup DOMAIN i \cup DOMAIN j
    PROVE  Over(Over(f, Over(g, Over(h, i))), j)[k] =
             IF k \in DOMAIN f THEN f[k] ELSE IF k \in DOMAIN g THEN g[k]
             ELSE IF k \in DOMAIN h THEN h[k] ELSE IF k \in DOMAIN i THEN i[k] ELSE j[k]
<1> DEFINE hi == Over(h, i)  ghi == Over(g, hi)  fghi == Over(f, ghi)
<1>1. /\ DOMAIN hi = DOMAIN h \cup DOMAIN i
      /\ k \in DOMAIN hi => hi[k] = IF k \in DOMAIN h THEN h[k] ELSE i[k]
  BY DEF Over
<1>2. /\ DOMAIN ghi = DOMAIN g \cup DOMAIN hi
      /\ k \in DOMAIN ghi => ghi[k] = IF k \in DOMAIN g THEN g[k] ELSE hi[k]
  <2> HIDE DEF hi
  <2> QED BY DEF Over
<1>3. /\ DOMAIN fghi = DOMAIN f \cup DOMAIN ghi
      /\ k \in DOMAIN fghi => fghi[k] = IF k \in DOMAIN f THEN f[k] ELSE ghi[k]
  <2> HIDE DEF ghi
  <2> QED BY DEF Over
<1> HIDE DEF hi, ghi, fghi
<1>4. k \in DOMAIN fghi \cup DOMAIN j =>
        Over(fghi, j)[k] = IF k \in DOMAIN fghi THEN fghi[k] ELSE j[k]
  BY DEF Over
<1>5. Over(fghi, j)[k] =
        IF k \in DOMAIN f THEN f[k] ELSE IF k \in DOMAIN g THEN g[k]
        ELSE IF k \in DOMAIN h THEN h[k] ELSE IF k \in DOMAIN i THEN i[k] ELSE j[k]
  BY <1>1, <1>2, <1>3, <1>4
<1> QED BY <1>5 DEF hi, ghi, fghi

\* What Settings::load returns is the hierarchy, whatever the sources hold.
LEMMA Precedence ==
    ASSUME NEW w, loads(w), NEW k \in Keys PROVE load(w)[k] = InForce(w, k)
<1> DEFINE over == override(w)  vars == variables(w)  env == Restricted(vars, Keys)
           local == w.files[app_env(w)]  default == w.files["default"]
<1>1. /\ DOMAIN env = Keys \cap DOMAIN vars
      /\ k \in DOMAIN vars => env[k] = vars[k]
  <2> HIDE DEF vars
  <2> QED BY DEF Restricted
<1>2. load(w) = Over(Over(over, Over(env, Over(local, default))), Optional)
  BY DEF load, builder
<1>3. k \in DOMAIN over \cup DOMAIN env \cup DOMAIN local \cup DOMAIN default \cup DOMAIN Optional
  <2>1. DOMAIN builder(w) = DOMAIN over \cup DOMAIN env \cup DOMAIN local \cup DOMAIN default
    <3>1. builder(w) = Over(over, Over(env, Over(local, default)))
      BY DEF builder
    <3> HIDE DEF over, env, local, default
    <3> QED BY <3>1 DEF Over
  <2> QED BY <2>1 DEF loads, Keys
<1>4. /\ Hierarchy(w)[1] = Optional /\ Hierarchy(w)[2] = default /\ Hierarchy(w)[3] = local
      /\ Hierarchy(w)[4] = vars /\ Hierarchy(w)[5] = over
  BY DEF Hierarchy
<1> DEFINE Last(i) == /\ k \in DOMAIN Hierarchy(w)[i]
                      /\ \A j \in i+1..5 : k \notin DOMAIN Hierarchy(w)[j]
<1> HIDE DEF over, vars, env, local, default
<1>5. load(w)[k] =
        IF k \in DOMAIN over THEN over[k] ELSE IF k \in DOMAIN env THEN env[k]
        ELSE IF k \in DOMAIN local THEN local[k]
        ELSE IF k \in DOMAIN default THEN default[k] ELSE Optional[k]
  BY <1>2, <1>3, OverFour
<1>6. \A i \in 1..5 : Last(i) => load(w)[k] = Hierarchy(w)[i][k]
  <2> SUFFICES ASSUME NEW i \in 1..5, Last(i) PROVE load(w)[k] = Hierarchy(w)[i][k]
    OBVIOUS
  <2>1. i = 1 \/ i = 2 \/ i = 3 \/ i = 4 \/ i = 5
    OBVIOUS
  <2>2. /\ i < 5 => k \notin DOMAIN over
        /\ i < 4 => k \notin DOMAIN vars
        /\ i < 3 => k \notin DOMAIN local
        /\ i < 2 => k \notin DOMAIN default
    BY <1>4
  <2>3. k \in DOMAIN Hierarchy(w)[i]
    OBVIOUS
  <2> HIDE DEF Last
  <2> QED BY <1>1, <1>4, <1>5, <2>1, <2>2, <2>3
<1>7. \E i \in 1..5 : Last(i)
  <2>1. CASE k \in DOMAIN over
    <3>1. Last(5)
      BY <1>4, <2>1
    <3> QED BY <3>1
  <2>2. CASE k \notin DOMAIN over /\ k \in DOMAIN vars
    <3>1. Last(4)
      BY <1>4, <2>2
    <3> QED BY <3>1
  <2>3. CASE k \notin DOMAIN over \cup DOMAIN vars /\ k \in DOMAIN local
    <3>1. Last(3)
      BY <1>4, <2>3
    <3> QED BY <3>1
  <2>4. CASE k \notin DOMAIN over \cup DOMAIN vars \cup DOMAIN local /\ k \in DOMAIN default
    <3>1. Last(2)
      BY <1>4, <2>4
    <3> QED BY <3>1
  <2>5. CASE k \notin DOMAIN over \cup DOMAIN vars \cup DOMAIN local \cup DOMAIN default
    <3>1. Last(1)
      BY <1>1, <1>3, <1>4, <2>5
    <3> QED BY <3>1
  <2> QED BY <2>1, <2>2, <2>3, <2>4, <2>5
<1>8. Latest(w, k) = CHOOSE i \in 1..5 : Last(i)
  BY DEF Latest
<1>9. Latest(w, k) \in 1..5 /\ Last(Latest(w, k))
  <2> HIDE DEF Last
  <2> QED BY <1>7, <1>8
<1> HIDE DEF Last
<1> QED BY <1>6, <1>9 DEF InForce

-----------------------------------------------------------------------------
(* The pool                                                                *)

\* A request that leaves the queue leaves the others in their order.
LEMMA WithoutEffect ==
    ASSUME queue \in Seq(Requests), NEW r \in Requests,
           \A i, j \in DOMAIN queue : queue[i] = queue[j] => i = j
    PROVE  /\ Without(r) \in Seq(Requests)
           /\ \A i \in DOMAIN Without(r) :
                Without(r)[i] # r /\ \E j \in DOMAIN queue : queue[j] = Without(r)[i]
           /\ \A i \in DOMAIN queue : queue[i] # r => \E j \in DOMAIN Without(r) : Without(r)[j] = queue[i]
           /\ \A i, j \in DOMAIN Without(r) : Without(r)[i] = Without(r)[j] => i = j
<1>1. CASE ~ \E i \in DOMAIN queue : queue[i] = r
  BY <1>1 DEF Without
<1>2. CASE \E i \in DOMAIN queue : queue[i] = r
  <2> DEFINE n == CHOOSE i \in DOMAIN queue : queue[i] = r
             rest == [i \in 1..Len(queue) - 1 |-> IF i < n THEN queue[i] ELSE queue[i + 1]]
  <2>1. n \in 1..Len(queue) /\ queue[n] = r /\ DOMAIN queue = 1..Len(queue) /\ Len(queue) \in Nat
    BY <1>2
  <2>2. Without(r) = rest
    BY <1>2 DEF Without
  <2> HIDE DEF n
  <2>3. /\ rest \in Seq(Requests) /\ DOMAIN rest = 1..Len(queue) - 1
        /\ \A i \in 1..Len(queue) - 1 : rest[i] = IF i < n THEN queue[i] ELSE queue[i + 1]
    BY <2>1
  <2> HIDE DEF rest
  <2>4. \A i \in DOMAIN rest : rest[i] # r /\ \E j \in DOMAIN queue : queue[j] = rest[i]
    <3> SUFFICES ASSUME NEW i \in 1..Len(queue) - 1
                 PROVE  rest[i] # r /\ \E j \in DOMAIN queue : queue[j] = rest[i]
      BY <2>3
    <3>1. CASE i < n
      BY <2>1, <2>3, <3>1
    <3>2. CASE ~(i < n)
      <4>1. i + 1 \in DOMAIN queue /\ i + 1 # n /\ rest[i] = queue[i + 1]
        BY <2>1, <2>3, <3>2
      <4> QED BY <2>1, <4>1
    <3> QED BY <3>1, <3>2
  <2>5. \A i \in DOMAIN queue : queue[i] # r => \E j \in DOMAIN rest : rest[j] = queue[i]
    <3> SUFFICES ASSUME NEW i \in 1..Len(queue), queue[i] # r
                 PROVE  \E j \in DOMAIN rest : rest[j] = queue[i]
      BY <2>1
    <3>1. CASE i < n
      <4>1. i \in DOMAIN rest /\ rest[i] = queue[i]
        BY <2>1, <2>3, <3>1
      <4> QED BY <4>1
    <3>2. CASE i > n
      <4>1. i - 1 \in DOMAIN rest /\ rest[i - 1] = queue[(i - 1) + 1]
        BY <2>1, <2>3, <3>2
      <4> QED BY <4>1
    <3> QED BY <2>1, <3>1, <3>2
  <2>6. \A i, j \in DOMAIN rest : rest[i] = rest[j] => i = j
    <3> SUFFICES ASSUME NEW i \in 1..Len(queue) - 1, NEW j \in 1..Len(queue) - 1, rest[i] = rest[j]
                 PROVE  i = j
      BY <2>3
    <3> DEFINE at(m) == IF m < n THEN m ELSE m + 1
    <3>1. /\ at(i) \in DOMAIN queue /\ at(j) \in DOMAIN queue
          /\ rest[i] = queue[at(i)] /\ rest[j] = queue[at(j)]
      BY <2>1, <2>3
    <3>2. at(i) = at(j)
      <4> HIDE DEF at
      <4> QED BY <3>1
    <3> QED BY <2>1, <3>2
  <2> QED BY <2>2, <2>3, <2>4, <2>5, <2>6
<1> QED BY <1>1, <1>2

-----------------------------------------------------------------------------
(* The steps                                                               *)

\* The invariant holds at first.
LEMMA InitService == ServiceInit => ServiceInv
<1> SUFFICES ASSUME ServiceInit PROVE ServiceInv
  OBVIOUS
<1>1. IsFiniteSet({}) /\ Cardinality({}) = 0
  BY FS_EmptySet
<1>2. ServiceTypeOK
  BY ServiceAssumption DEF ServiceInit, ServiceTypeOK, Stage
<1>3. WorkInv /\ SettingsInv /\ MigratedInv
  BY DEF ServiceInit, WorkInv, InFlight, SettingsInv, MigratedInv, Up
<1>4. PoolInv
  BY <1>1 DEF ServiceInit, PoolInv
<1> QED BY <1>2, <1>3, <1>4 DEF ServiceInv

\* Without a process that serves nothing is in hand.
LEMMA NothingInHand ==
    ASSUME ServiceInv, phase \notin Up
    PROVE  held = {} /\ \A r \in Requests : ~ InFlight(r) /\ stage[r] \notin {"executing", "waiting"}
<1>1. \A r \in Requests : ~ InFlight(r)
  BY DEF ServiceInv, WorkInv
<1> QED BY <1>1 DEF ServiceInv, PoolInv, InFlight, Ended

\* A step of the process that touches no request.
LEMMA ProcessKeeps ==
    ASSUME ServiceInv, UNCHANGED <<stage, workVars, poolVars>>,
           ServiceTypeOK', SettingsInv', MigratedInv',
           \/ phase \notin Up
           \/ phase' \in Up /\ UNCHANGED <<source, settings>>
    PROVE  ServiceInv'
<1>1. WorkInv'
  BY NothingInHand DEF ServiceInv, WorkInv, InFlight, workVars
<1>2. PoolInv'
  <2>1. settings' # NULL \/ held' # {} => Cardinality(held') <= settings'["db.max_connections"]
    <3>1. CASE phase' \in Up /\ UNCHANGED <<source, settings>>
      BY <3>1 DEF ServiceInv, PoolInv, poolVars
    <3>2. CASE phase \notin Up
      <4>1. held' = {} /\ Cardinality({}) = 0
        BY <3>2, NothingInHand, FS_EmptySet DEF poolVars
      <4>2. settings' # NULL => settings'["db.max_connections"] \in Nat
        BY SourcesAssumption DEF SettingsInv
      <4> QED BY <4>1, <4>2
    <3> QED BY <3>1, <3>2
  <2> QED BY <2>1 DEF ServiceInv, PoolInv, poolVars
<1> QED BY <1>1, <1>2 DEF ServiceInv

\* The process ends.
LEMMA VanishKeeps == ASSUME ServiceInv, Vanish, UNCHANGED schema PROVE ServiceInv'
<1>1. \A r \in Requests : ~ InFlight(r)' /\ stage'[r] \in Stage
  BY DEF Vanish, InFlight, Ended, ServiceInv, ServiceTypeOK, Stage
<1>2. ServiceTypeOK'
  <2>1. stage' \in [Requests -> Stage]
    BY <1>1 DEF Vanish
  <2> QED BY <2>1 DEF ServiceInv, ServiceTypeOK, Vanish
<1>3. WorkInv' /\ SettingsInv' /\ MigratedInv'
  BY <1>1 DEF ServiceInv, WorkInv, SettingsInv, MigratedInv, Vanish, Up
<1>4. PoolInv'
  <2>1. \A r \in Requests : stage'[r] # "executing" /\ stage'[r] # "waiting"
    BY <1>1 DEF InFlight, Ended
  <2>2. held' = {} /\ queue' = <<>> /\ IsFiniteSet({}) /\ Cardinality({}) = 0
    BY FS_EmptySet DEF Vanish
  <2>3. settings' # NULL => settings'["db.max_connections"] \in Nat
    BY <1>3, SourcesAssumption DEF SettingsInv
  <2>4. settings' # NULL => 0 <= settings'["db.max_connections"]
    BY <2>3
  <2> QED BY <2>1, <2>2, <2>4 DEF PoolInv
<1> QED BY <1>2, <1>3, <1>4 DEF ServiceInv

\* Every step of the process keeps the invariant.
LEMMA ProcessStep == ASSUME ServiceInv, Process PROVE ServiceInv'
<1>1. ServiceTypeOK /\ SettingsInv /\ MigratedInv
  BY DEF ServiceInv
<1>2. CASE start
  <2>1. phase \notin Up /\ UNCHANGED <<stage, workVars, poolVars>>
    BY <1>2 DEF start, Up
  <2>2. ServiceTypeOK'
    BY <1>1, <1>2, ServiceAssumption DEF start, ServiceTypeOK, poolVars, workVars
  <2>3. SettingsInv' /\ MigratedInv'
    BY <1>2 DEF start, SettingsInv, MigratedInv, Up
  <2> QED BY <2>1, <2>2, <2>3, ProcessKeeps
<1>3. CASE connect
  <2>1. phase \notin Up /\ UNCHANGED <<stage, workVars, poolVars>>
    BY <1>3 DEF connect, Up
  <2>2. ServiceTypeOK'
    BY <1>1, <1>3 DEF connect, ServiceTypeOK, poolVars, workVars
  <2>3. SettingsInv' /\ MigratedInv'
    BY <1>1, <1>3 DEF connect, SettingsInv, MigratedInv, Up
  <2> QED BY <2>1, <2>2, <2>3, ProcessKeeps
<1>4. CASE run_migrations
  <2>1. phase \notin Up /\ UNCHANGED <<stage, workVars, poolVars>>
    BY <1>4 DEF run_migrations, Up
  <2>2. ServiceTypeOK'
    BY <1>1, <1>4 DEF run_migrations, ServiceTypeOK, poolVars, workVars
  <2>3. SettingsInv'
    BY <1>1, <1>4 DEF run_migrations, SettingsInv
  <2>4. MigratedInv'
    <3>1. settings["db.url"] \in Databases
      BY <1>1, <1>4 DEF run_migrations, SettingsInv, Databases
    <3>2. schema'[settings["db.url"]] = "current" /\ settings' = settings
      BY <1>1, <1>4, <3>1 DEF run_migrations, ServiceTypeOK
    <3> QED BY <3>2 DEF MigratedInv
  <2> QED BY <2>1, <2>2, <2>3, <2>4, ProcessKeeps
<1>5. CASE bind
  <2>1. phase \notin Up /\ UNCHANGED <<stage, workVars, poolVars>>
    BY <1>5 DEF bind, Up
  <2>2. ServiceTypeOK'
    BY <1>1, <1>5 DEF bind, ServiceTypeOK, poolVars, workVars, Up
  <2>3. SettingsInv' /\ MigratedInv'
    BY <1>1, <1>5 DEF bind, SettingsInv, MigratedInv, Up
  <2> QED BY <2>1, <2>2, <2>3, ProcessKeeps
<1>6. CASE shutdown_signal
  <2>1. phase' \in Up /\ UNCHANGED <<source, settings>> /\ UNCHANGED <<stage, workVars, poolVars>>
    BY <1>6 DEF shutdown_signal, Up
  <2>2. ServiceTypeOK'
    BY <1>1, <1>6 DEF shutdown_signal, ServiceTypeOK, poolVars, workVars, Up
  <2>3. SettingsInv' /\ MigratedInv'
    BY <1>1, <1>6 DEF shutdown_signal, SettingsInv, MigratedInv, Up
  <2> QED BY <2>1, <2>2, <2>3, ProcessKeeps
<1>7. CASE exit \/ crash
  BY <1>7, VanishKeeps DEF exit, crash
<1> QED BY <1>2, <1>3, <1>4, <1>5, <1>6, <1>7 DEF Process

\* What is left to show of a step of request r: its stage and its work, and
\* the pool.
LEMMA RequestKeeps ==
    ASSUME ServiceInv, NEW r \in Requests, UNCHANGED <<processVars, schema>>,
           NEW s \in Stage, stage' = [stage EXCEPT ![r] = s],
           NEW n \in 0..MaxStatements, left' = [left EXCEPT ![r] = n],
           s \notin Ended \cup {"none"} => phase \in Up /\ (s \in {"arriving", "client"} \/ n >= 1),
           unread' \subseteq Requests, held' \subseteq Requests, PoolInv'
    PROVE  ServiceInv'
<1>1. /\ stage \in [Requests -> Stage] /\ left \in [Requests -> 0..MaxStatements]
      /\ phase' = phase /\ MaxStatements \in Nat
  BY ServiceAssumption DEF ServiceInv, ServiceTypeOK, processVars
<1>2. ServiceTypeOK'
  BY <1>1 DEF ServiceInv, ServiceTypeOK, processVars
<1>3. WorkInv'
  BY <1>1 DEF ServiceInv, WorkInv, InFlight
<1>4. SettingsInv' /\ MigratedInv'
  BY DEF ServiceInv, SettingsInv, MigratedInv, processVars
<1> QED BY <1>2, <1>3, <1>4 DEF ServiceInv

\* Others neither take nor lose a connection or a place in the queue when
\* request r leaves both.
LEMMA LeavePool ==
    ASSUME ServiceInv, NEW r \in Requests, settings' = settings,
           NEW s \in Stage \ {"executing", "waiting"}, stage' = [stage EXCEPT ![r] = s],
           held' = held \ {r},
           queue' = Without(r) \/ (stage[r] # "waiting" /\ queue' = queue)
    PROVE  PoolInv' /\ held' \subseteq Requests
<1>1. stage \in [Requests -> Stage] /\ PoolInv /\ held \subseteq Requests /\ SettingsInv
  BY DEF ServiceInv, ServiceTypeOK
<1>2. held' = {q \in Requests : stage'[q] = "executing"} /\ IsFiniteSet(held')
  BY <1>1, FS_RemoveElement DEF PoolInv
<1>3. settings' # NULL \/ held' # {} => Cardinality(held') <= settings'["db.max_connections"]
  <2> SUFFICES ASSUME settings # NULL \/ held' # {}
               PROVE  Cardinality(held') <= settings["db.max_connections"]
    OBVIOUS
  <2>1. Cardinality(held) <= settings["db.max_connections"]
    BY <1>1 DEF PoolInv
  <2>2. settings["db.max_connections"] \in Nat
    <3>1. settings # NULL \/ phase # "down"
      <4>1. phase = "down" => held = {}
        BY NothingInHand DEF Up
      <4> QED BY <4>1
    <3> QED BY <1>1, <3>1, SourcesAssumption DEF SettingsInv
  <2>3. /\ Cardinality(held) \in Nat
        /\ Cardinality(held') = IF r \in held THEN Cardinality(held) - 1 ELSE Cardinality(held)
    BY <1>1, FS_RemoveElement, FS_CardinalityType DEF PoolInv
  <2> QED BY <2>1, <2>2, <2>3
<1>4. CASE stage[r] # "waiting" /\ queue' = queue
  <2>1. /\ queue' \in Seq(Requests)
        /\ \A i, j \in DOMAIN queue' : queue'[i] = queue'[j] => i = j
    BY <1>1, <1>4 DEF PoolInv
  <2>2. \A i \in DOMAIN queue' : stage'[queue'[i]] = "waiting"
    BY <1>1, <1>4 DEF PoolInv
  <2>3. \A q \in Requests : stage'[q] = "waiting" => \E i \in DOMAIN queue' : queue'[i] = q
    BY <1>1, <1>4 DEF PoolInv
  <2> QED BY <1>1, <1>2, <1>3, <2>1, <2>2, <2>3 DEF PoolInv
<1>5. CASE queue' = Without(r)
  <2>1. /\ Without(r) \in Seq(Requests)
        /\ \A i \in DOMAIN Without(r) :
             Without(r)[i] # r /\ \E j \in DOMAIN queue : queue[j] = Without(r)[i]
        /\ \A i \in DOMAIN queue : queue[i] # r => \E j \in DOMAIN Without(r) : Without(r)[j] = queue[i]
        /\ \A i, j \in DOMAIN Without(r) : Without(r)[i] = Without(r)[j] => i = j
    BY <1>1, WithoutEffect DEF PoolInv
  <2>2. \A i \in DOMAIN queue' : stage'[queue'[i]] = "waiting"
    BY <1>1, <1>5, <2>1 DEF PoolInv
  <2>3. \A q \in Requests : stage'[q] = "waiting" => \E i \in DOMAIN queue' : queue'[i] = q
    <3> SUFFICES ASSUME NEW q \in Requests, stage'[q] = "waiting"
                 PROVE  \E i \in DOMAIN Without(r) : Without(r)[i] = q
      BY <1>5
    <3>1. q # r /\ stage[q] = "waiting"
      BY <1>1
    <3>2. PICK i \in DOMAIN queue : queue[i] = q
      BY <1>1, <3>1 DEF PoolInv
    <3> QED BY <2>1, <3>1, <3>2
  <2> QED BY <1>1, <1>2, <1>3, <1>5, <2>1, <2>2, <2>3 DEF PoolInv
<1> QED BY <1>1, <1>4, <1>5

\* A process that serves knows how many connections it may have.
LEMMA PoolSize == ASSUME ServiceInv, phase \in Up PROVE settings["db.max_connections"] \in Nat
BY SourcesAssumption DEF ServiceInv, SettingsInv, Up

\* A request that is not in the queue joins it.
LEMMA Joins ==
    ASSUME ServiceInv, NEW r \in Requests, stage[r] = "ready", settings' = settings,
           stage' = [stage EXCEPT ![r] = "waiting"], queue' = Append(queue, r), held' = held
    PROVE  PoolInv'
<1>1. stage \in [Requests -> Stage] /\ PoolInv
  BY DEF ServiceInv, ServiceTypeOK
<1> DEFINE n == Len(queue)
<1>2. /\ queue \in Seq(Requests) /\ n \in Nat /\ DOMAIN queue = 1..n
      /\ queue' \in Seq(Requests) /\ DOMAIN queue' = 1..n+1 /\ queue'[n + 1] = r
      /\ \A i \in 1..n : queue'[i] = queue[i]
  BY <1>1 DEF PoolInv
<1>3. \A i \in 1..n : queue[i] \in Requests /\ stage[queue[i]] = "waiting" /\ queue[i] # r
  BY <1>1, <1>2 DEF PoolInv
<1> HIDE DEF n
<1>4. \A i \in DOMAIN queue' : stage'[queue'[i]] = "waiting"
  <2> SUFFICES ASSUME NEW i \in 1..n+1 PROVE stage'[queue'[i]] = "waiting"
    BY <1>2
  <2>1. i \in 1..n \/ i = n + 1
    BY <1>2
  <2> QED BY <1>1, <1>2, <1>3, <2>1
<1>5. \A q \in Requests : stage'[q] = "waiting" => \E i \in DOMAIN queue' : queue'[i] = q
  <2> SUFFICES ASSUME NEW q \in Requests, stage'[q] = "waiting"
               PROVE  \E i \in DOMAIN queue' : queue'[i] = q
    OBVIOUS
  <2>1. CASE q = r
    <3>1. n + 1 \in DOMAIN queue'
      BY <1>2
    <3> QED BY <1>2, <2>1, <3>1
  <2>2. CASE q # r
    <3>1. PICK i \in DOMAIN queue : queue[i] = q
      BY <1>1, <2>2 DEF PoolInv
    <3>2. i \in DOMAIN queue' /\ queue'[i] = q
      BY <1>2, <3>1
    <3> QED BY <3>2
  <2> QED BY <2>1, <2>2
<1>6. \A i, j \in DOMAIN queue' : queue'[i] = queue'[j] => i = j
  <2> SUFFICES ASSUME NEW i \in 1..n+1, NEW j \in 1..n+1, queue'[i] = queue'[j] PROVE i = j
    BY <1>2
  <2>1. (i \in 1..n \/ i = n + 1) /\ (j \in 1..n \/ j = n + 1)
    BY <1>2
  <2>2. CASE i \in 1..n /\ j \in 1..n
    BY <1>1, <1>2, <2>2 DEF PoolInv
  <2> QED BY <1>2, <1>3, <2>1, <2>2
<1>7. held' = {q \in Requests : stage'[q] = "executing"}
  BY <1>1 DEF PoolInv
<1> QED BY <1>1, <1>2, <1>4, <1>5, <1>6, <1>7 DEF PoolInv

\* One more connection is in use, and there was one.
LEMMA Takes ==
    ASSUME ServiceInv, phase \in Up, ~ Full, settings' = settings,
           NEW r \in Requests, r \notin held, held' = held \cup {r}
    PROVE  /\ held' \subseteq Requests /\ IsFiniteSet(held')
           /\ settings' # NULL \/ held' # {} => Cardinality(held') <= settings'["db.max_connections"]
<1>1. IsFiniteSet(held) /\ held \subseteq Requests /\ Cardinality(held) \in Nat
  BY FS_CardinalityType DEF ServiceInv, ServiceTypeOK, PoolInv
<1>2. Cardinality(held') = Cardinality(held) + 1 /\ IsFiniteSet(held')
  BY <1>1, FS_AddElement
<1>3. Cardinality(held) < settings["db.max_connections"] /\ settings["db.max_connections"] \in Nat
  BY <1>1, PoolSize DEF Full
<1> QED BY <1>1, <1>2, <1>3

\* A request takes a connection when nobody waits for one.
LEMMA TakesAtOnce ==
    ASSUME ServiceInv, phase \in Up, ~ Full, NEW r \in Requests, stage[r] = "ready",
           settings' = settings, queue' = queue,
           stage' = [stage EXCEPT ![r] = "executing"], held' = held \cup {r}
    PROVE  PoolInv' /\ held' \subseteq Requests
<1>1. stage \in [Requests -> Stage] /\ PoolInv
  BY DEF ServiceInv, ServiceTypeOK
<1>2. r \notin held
  BY <1>1 DEF PoolInv
<1>3. /\ held' \subseteq Requests /\ IsFiniteSet(held')
      /\ settings' # NULL \/ held' # {} => Cardinality(held') <= settings'["db.max_connections"]
  BY <1>2, Takes
<1>4. held' = {q \in Requests : stage'[q] = "executing"}
  BY <1>1 DEF PoolInv
<1>5. \A i \in DOMAIN queue' : stage'[queue'[i]] = "waiting"
  BY <1>1 DEF PoolInv
<1>6. \A q \in Requests : stage'[q] = "waiting" => \E i \in DOMAIN queue' : queue'[i] = q
  BY <1>1 DEF PoolInv
<1> QED BY <1>1, <1>3, <1>4, <1>5, <1>6 DEF PoolInv

\* The first of the queue takes a connection.
LEMMA FirstTakes ==
    ASSUME ServiceInv, phase \in Up, ~ Full, queue # <<>>, NEW r \in Requests, r = Head(queue),
           settings' = settings, queue' = Tail(queue),
           stage' = [stage EXCEPT ![r] = "executing"], held' = held \cup {r}
    PROVE  PoolInv' /\ held' \subseteq Requests
<1>1. stage \in [Requests -> Stage] /\ PoolInv
  BY DEF ServiceInv, ServiceTypeOK
<1> DEFINE n == Len(queue)
<1>2. /\ queue \in Seq(Requests) /\ n \in Nat \ {0} /\ DOMAIN queue = 1..n /\ r = queue[1]
      /\ queue' \in Seq(Requests) /\ DOMAIN queue' = 1..n-1
      /\ \A i \in 1..n-1 : queue'[i] = queue[i + 1]
  BY <1>1 DEF PoolInv
<1> HIDE DEF n
<1>3. stage[r] = "waiting" /\ r \notin held
  BY <1>1, <1>2 DEF PoolInv
<1>4. /\ held' \subseteq Requests /\ IsFiniteSet(held')
      /\ settings' # NULL \/ held' # {} => Cardinality(held') <= settings'["db.max_connections"]
  BY <1>3, Takes
<1>5. held' = {q \in Requests : stage'[q] = "executing"}
  BY <1>1 DEF PoolInv
<1>6. \A i \in 1..n-1 : i + 1 \in 1..n /\ i + 1 # 1
  BY <1>2
<1>7. \A i, j \in 1..n : queue[i] = queue[j] => i = j
  BY <1>1, <1>2 DEF PoolInv
<1>8. \A i \in 1..n-1 : queue'[i] # r
  BY <1>2, <1>6, <1>7
<1>9. \A i \in DOMAIN queue' : stage'[queue'[i]] = "waiting"
  BY <1>1, <1>2, <1>6, <1>8 DEF PoolInv
<1>10. \A q \in Requests : stage'[q] = "waiting" => \E i \in DOMAIN queue' : queue'[i] = q
  <2> SUFFICES ASSUME NEW q \in Requests, stage'[q] = "waiting"
               PROVE  \E i \in DOMAIN queue' : queue'[i] = q
    OBVIOUS
  <2>1. q # r /\ stage[q] = "waiting"
    BY <1>1
  <2>2. PICK i \in 1..n : queue[i] = q
    BY <1>1, <1>2, <2>1 DEF PoolInv
  <2>3. i - 1 \in 1..n-1 /\ queue'[i - 1] = queue[(i - 1) + 1]
    BY <1>2, <2>1, <2>2
  <2>4. (i - 1) + 1 = i
    BY <1>2
  <2>5. queue'[i - 1] = q
    BY <2>2, <2>3, <2>4
  <2> QED BY <1>2, <2>3, <2>5
<1>11. \A i, j \in DOMAIN queue' : queue'[i] = queue'[j] => i = j
  <2> SUFFICES ASSUME NEW i \in 1..n-1, NEW j \in 1..n-1, queue'[i] = queue'[j] PROVE i = j
    BY <1>2
  <2>1. i + 1 = j + 1
    BY <1>2, <1>6, <1>7
  <2> QED BY <1>2, <2>1
<1> QED BY <1>2, <1>4, <1>5, <1>9, <1>10, <1>11 DEF PoolInv

\* Every step of a request keeps the invariant.
LEMMA ServeStep == ASSUME ServiceInv, NEW r \in Requests, Serve(r) PROVE ServiceInv'
<1>1. /\ stage \in [Requests -> Stage] /\ left \in [Requests -> 0..MaxStatements]
      /\ unread \subseteq Requests /\ held \subseteq Requests /\ PoolInv /\ MaxStatements \in Nat
      /\ left = [left EXCEPT ![r] = left[r]] /\ left[r] \in 0..MaxStatements
  BY ServiceAssumption DEF ServiceInv, ServiceTypeOK
<1>2. InFlight(r) => phase \in Up /\ (stage[r] \in {"arriving", "client"} \/ left[r] >= 1)
  BY <1>1 DEF ServiceInv, WorkInv
<1>3. r \in held <=> stage[r] = "executing"
  BY <1>1 DEF PoolInv
<1>4. CASE accept(r)
  <2>1. /\ phase = "serving" /\ stage[r] = "none" /\ stage' = [stage EXCEPT ![r] = "arriving"]
        /\ UNCHANGED <<processVars, schema, workVars, poolVars>>
    BY <1>4 DEF accept
  <2>2. "arriving" \in Stage \ {"executing", "waiting"} /\ phase \in Up
    BY <2>1 DEF Stage, Up
  <2>3. PoolInv' /\ held' \subseteq Requests
    <3>1. settings' = settings /\ held' = held \ {r} /\ stage[r] # "waiting" /\ queue' = queue
      BY <1>3, <2>1 DEF processVars, poolVars
    <3> QED BY <2>1, <2>2, <3>1, LeavePool
  <2>4. left' = [left EXCEPT ![r] = left[r]] /\ unread' \subseteq Requests
    BY <1>1, <2>1 DEF workVars
  <2> QED BY <1>1, <2>1, <2>2, <2>3, <2>4, RequestKeeps
<1>10. CASE begin(r)
  <2>1. PICK n \in 0..MaxStatements, s \in {"client", "exchange", "ready", "answered"} :
          /\ s \in {"exchange", "ready"} => n > 0
          /\ left' = [left EXCEPT ![r] = n] /\ stage' = [stage EXCEPT ![r] = s]
          /\ unread' = unread \/ unread' = unread \cup {r}
    BY <1>10 DEF begin
  <2>2. /\ stage[r] = "arriving" /\ UNCHANGED <<processVars, schema, poolVars>>
    BY <1>10 DEF begin
  <2>3. s \in Stage \ {"executing", "waiting"}
    BY DEF Stage, Ended
  <2>4. PoolInv' /\ held' \subseteq Requests
    <3>1. settings' = settings /\ held' = held \ {r} /\ stage[r] # "waiting" /\ queue' = queue
      BY <1>3, <2>2 DEF processVars, poolVars
    <3> QED BY <2>1, <2>3, <3>1, LeavePool
  <2>5. phase \in Up
    BY <1>2, <2>2 DEF InFlight, Ended
  <2>6. s \notin Ended \cup {"none"} => phase \in Up /\ (s \in {"arriving", "client"} \/ n >= 1)
    BY <2>1, <2>5 DEF Ended
  <2>7. unread' \subseteq Requests
    BY <1>1, <2>1
  <2> QED BY <2>1, <2>2, <2>3, <2>4, <2>6, <2>7, RequestKeeps
<1>11. CASE receive(r)
  <2>1. PICK s \in {"answered", "ready", "failed"} :
          /\ stage' = [stage EXCEPT ![r] = s]
          /\ s = "ready" => left[r] # 0
    BY <1>11 DEF receive
  <2>2. /\ stage[r] = "client" /\ UNCHANGED <<processVars, schema, workVars, poolVars>>
    BY <1>11 DEF receive
  <2>3. s \in Stage \ {"executing", "waiting"}
    BY DEF Stage, Ended
  <2>4. PoolInv' /\ held' \subseteq Requests
    <3>1. settings' = settings /\ held' = held \ {r} /\ stage[r] # "waiting" /\ queue' = queue
      BY <1>3, <2>2 DEF processVars, poolVars
    <3> QED BY <2>1, <2>3, <3>1, LeavePool
  <2>5. phase \in Up
    BY <1>2, <2>2 DEF InFlight, Ended
  <2>6. s \notin Ended \cup {"none"} => phase \in Up /\ left[r] >= 1
    BY <1>1, <2>1, <2>5 DEF Ended
  <2>7. left' = [left EXCEPT ![r] = left[r]] /\ unread' \subseteq Requests
    BY <1>1, <2>2 DEF workVars
  <2> QED BY <1>1, <2>1, <2>2, <2>3, <2>4, <2>6, <2>7, RequestKeeps
<1>5. CASE google_exchange_code(r)
  <2>1. PICK s \in {"ready", "failed"} : stage' = [stage EXCEPT ![r] = s]
    BY <1>5 DEF google_exchange_code
  <2>2. /\ stage[r] = "exchange" /\ UNCHANGED <<processVars, schema, workVars, poolVars>>
    BY <1>5 DEF google_exchange_code
  <2>3. s \in Stage \ {"executing", "waiting"}
    BY DEF Stage, Ended
  <2>4. PoolInv' /\ held' \subseteq Requests
    <3>1. settings' = settings /\ held' = held \ {r} /\ stage[r] # "waiting" /\ queue' = queue
      BY <1>3, <2>2 DEF processVars, poolVars
    <3> QED BY <2>1, <2>3, <3>1, LeavePool
  <2>5. phase \in Up /\ left[r] >= 1
    BY <1>2, <2>2 DEF InFlight, Ended
  <2>6. left' = [left EXCEPT ![r] = left[r]] /\ unread' \subseteq Requests
    BY <1>1, <2>2 DEF workVars
  <2> QED BY <1>1, <2>1, <2>2, <2>3, <2>4, <2>5, <2>6, RequestKeeps
<1>6. CASE disconnect(r)
  <2>1. /\ held' = held \ {r} /\ queue' = Without(r) /\ unread' = unread \ {r}
        /\ UNCHANGED <<processVars, schema, left>>
    BY <1>6 DEF disconnect
  <2>2. PICK s \in Stage \ {"executing", "waiting"} :
          s \in Ended /\ stage' = [stage EXCEPT ![r] = s]
    BY <1>6 DEF disconnect, Stage, Ended
  <2>3. PoolInv' /\ held' \subseteq Requests
    <3>1. settings' = settings
      BY <2>1 DEF processVars
    <3>2. queue' = Without(r) \/ (stage[r] # "waiting" /\ queue' = queue)
      BY <2>1
    <3>3. stage' = [stage EXCEPT ![r] = s] /\ held' = held \ {r}
      BY <2>1, <2>2, <3>1
    <3> QED BY <2>2, <3>1, <3>2, <3>3, LeavePool
  <2>4. left' = [left EXCEPT ![r] = left[r]] /\ unread' \subseteq Requests
    BY <1>1, <2>1
  <2> QED BY <1>1, <2>1, <2>2, <2>3, <2>4, RequestKeeps
<1>7. CASE acquire(r)
  <2>1. stage[r] = "ready" /\ UNCHANGED <<processVars, schema, workVars>>
    BY <1>7 DEF acquire
  <2>2. phase \in Up /\ left[r] >= 1
    BY <1>2, <2>1 DEF InFlight, Ended
  <2>3. left' = [left EXCEPT ![r] = left[r]] /\ settings' = settings /\ unread' \subseteq Requests
    BY <1>1, <2>1 DEF processVars, workVars
  <2>4. "waiting" \in Stage /\ "executing" \in Stage
    BY DEF Stage
  <2>5. CASE Full \/ queue # <<>>
    <3>1. stage' = [stage EXCEPT ![r] = "waiting"] /\ queue' = Append(queue, r) /\ held' = held
      BY <1>7, <2>5 DEF acquire
    <3>2. PoolInv'
      BY <2>1, <2>3, <3>1, Joins
    <3> QED BY <1>1, <2>1, <2>2, <2>3, <2>4, <3>1, <3>2, RequestKeeps
  <2>6. CASE ~ (Full \/ queue # <<>>)
    <3>1. stage' = [stage EXCEPT ![r] = "executing"] /\ held' = held \cup {r} /\ queue' = queue
      BY <1>7, <2>6 DEF acquire
    <3>2. PoolInv' /\ held' \subseteq Requests
      BY <2>1, <2>2, <2>3, <2>6, <3>1, TakesAtOnce
    <3> QED BY <1>1, <2>1, <2>2, <2>3, <2>4, <3>1, <3>2, RequestKeeps
  <2> QED BY <2>5, <2>6
<1>8. CASE acquire_timeout(r)
  <2>1. /\ stage[r] = "waiting" /\ queue' = Without(r) /\ unread' = unread \ {r}
        /\ UNCHANGED <<processVars, schema, left, held>>
    BY <1>8 DEF acquire_timeout
  <2>2. PICK s \in Stage \ {"executing", "waiting"} :
          s \in Ended /\ stage' = [stage EXCEPT ![r] = s]
    BY <1>8 DEF acquire_timeout, Stage, Ended
  <2>3. PoolInv' /\ held' \subseteq Requests
    <3>1. settings' = settings /\ held' = held \ {r}
      BY <1>3, <2>1 DEF processVars
    <3>2. queue' = Without(r) \/ (stage[r] # "waiting" /\ queue' = queue)
      BY <2>1
    <3>3. stage' = [stage EXCEPT ![r] = s] /\ held' = held \ {r}
      BY <2>1, <2>2, <3>1
    <3> QED BY <2>2, <3>1, <3>2, <3>3, LeavePool
  <2>4. left' = [left EXCEPT ![r] = left[r]] /\ unread' \subseteq Requests
    BY <1>1, <2>1
  <2> QED BY <1>1, <2>1, <2>2, <2>3, <2>4, RequestKeeps
<1>9. CASE statement(r)
  <2>1. /\ stage[r] = "executing" /\ held' = held \ {r} /\ queue' = queue
        /\ unread' = unread \ {r} /\ UNCHANGED <<processVars, schema>>
    BY <1>9 DEF statement
  <2>2. phase \in Up /\ left[r] >= 1
    BY <1>2, <2>1 DEF InFlight, Ended
  <2>3. PICK s \in {"answered", "client", "ready", "failed"}, n \in 0..MaxStatements :
          /\ stage' = [stage EXCEPT ![r] = s] /\ left' = [left EXCEPT ![r] = n]
          /\ s = "ready" => n >= 1
    <3>1. CASE stage' = [stage EXCEPT ![r] = "failed"] /\ UNCHANGED left
      BY <1>1, <3>1
    <3>2. CASE /\ left' = [left EXCEPT ![r] = @ - 1]
               /\ stage' = [stage EXCEPT ![r] = IF left[r] = 1 THEN "answered"
                                                ELSE IF r \in unread THEN "client" ELSE "ready"]
      <4>1. left[r] - 1 \in 0..MaxStatements /\ (left[r] # 1 => left[r] - 1 >= 1)
        BY <1>1, <2>2
      <4>2. CASE left[r] = 1
        BY <3>2, <4>1, <4>2
      <4>3. CASE left[r] # 1
        BY <3>2, <4>1, <4>3
      <4> QED BY <4>2, <4>3
    <3> QED BY <1>9, <3>1, <3>2 DEF statement
  <2>4. s \in Stage \ {"executing", "waiting"}
    BY DEF Stage, Ended
  <2>5. PoolInv' /\ held' \subseteq Requests
    <3>1. settings' = settings /\ stage[r] # "waiting"
      BY <2>1 DEF processVars
    <3> QED BY <2>1, <2>3, <2>4, <3>1, LeavePool
  <2>6. s \notin Ended \cup {"none"} => phase \in Up /\ (s \in {"arriving", "client"} \/ n >= 1)
    BY <2>2, <2>3 DEF Ended
  <2>7. unread' \subseteq Requests
    BY <1>1, <2>1
  <2> QED BY <2>1, <2>3, <2>4, <2>5, <2>6, <2>7, RequestKeeps
<1> QED BY <1>4, <1>5, <1>6, <1>7, <1>8, <1>9, <1>10, <1>11 DEF Serve

\* So does handing a connection over.
LEMMA HandOverStep == ASSUME ServiceInv, hand_over PROVE ServiceInv'
<1>1. /\ queue # <<>> /\ ~ Full /\ queue' = Tail(queue)
      /\ stage' = [stage EXCEPT ![Head(queue)] = "executing"] /\ held' = held \cup {Head(queue)}
      /\ UNCHANGED <<processVars, schema, workVars>>
  BY DEF hand_over
<1>2. /\ PoolInv /\ queue \in Seq(Requests) /\ left \in [Requests -> 0..MaxStatements]
      /\ unread \subseteq Requests
  BY DEF ServiceInv, ServiceTypeOK, PoolInv
<1>3. PICK r \in Requests : r = Head(queue) /\ stage[r] = "waiting"
  <2>1. 1 \in DOMAIN queue /\ Head(queue) = queue[1] /\ queue[1] \in Requests
    BY <1>1, <1>2
  <2> QED BY <1>2, <2>1 DEF PoolInv
<1>4. stage' = [stage EXCEPT ![r] = "executing"] /\ held' = held \cup {r}
  BY <1>1, <1>3
<1>5. phase \in Up /\ left[r] \in 1..MaxStatements
  BY <1>3 DEF ServiceInv, WorkInv, InFlight, Ended
<1>6. /\ left[r] >= 1 /\ left[r] \in 0..MaxStatements /\ left' = [left EXCEPT ![r] = left[r]]
      /\ unread' \subseteq Requests
  BY <1>1, <1>2, <1>5, ServiceAssumption DEF workVars
<1>7. PoolInv' /\ held' \subseteq Requests
  BY <1>1, <1>3, <1>4, <1>5, FirstTakes DEF processVars
<1>8. "executing" \in Stage
  BY DEF Stage
<1> QED BY <1>1, <1>4, <1>5, <1>6, <1>7, <1>8, RequestKeeps

\* And a step that changes nothing.
LEMMA StutterService == ASSUME ServiceInv, UNCHANGED serviceVars PROVE ServiceInv'
BY DEF serviceVars, ServiceInv, ServiceTypeOK, WorkInv, InFlight, SettingsInv, MigratedInv, PoolInv

-----------------------------------------------------------------------------
(* Theorems                                                                *)

\* The inductive invariant holds throughout.
THEOREM ServiceInvariant == ServiceSpec => []ServiceInv
<1>1. ServiceInv /\ [ServiceNext]_serviceVars => ServiceInv'
  BY ProcessStep, ServeStep, HandOverStep, StutterService DEF ServiceNext
<1> QED BY InitService, <1>1, PTL DEF ServiceSpec

\* The state of the service has its type.
THEOREM ServiceTypeCorrect == ServiceSpec => []ServiceTypeOK
<1>1. ServiceInv => ServiceTypeOK
  BY DEF ServiceInv
<1> QED BY ServiceInvariant, <1>1, PTL

\* Each setting in force is the one of the last source of the documented
\* hierarchy that has it, whatever the sources say.
THEOREM SettingsFollowHierarchy == ServiceSpec => []SettingsPrecedence
<1>1. ServiceInv => SettingsPrecedence
  <2> SUFFICES ASSUME ServiceInv, settings # NULL, NEW k \in Keys
               PROVE  settings[k] = InForce(source, k)
    BY DEF SettingsPrecedence
  <2>1. loads(source) /\ settings = load(source)
    BY DEF ServiceInv, SettingsInv
  <2> QED BY <2>1, Precedence
<1> QED BY ServiceInvariant, <1>1, PTL

\* Told to migrate, no process serves a schema that is not current.
THEOREM NeverServesUnmigrated == ServiceSpec => []MigratedBeforeServing
<1>1. ServiceInv => MigratedBeforeServing
  <2> SUFFICES ASSUME ServiceInv, phase \in Up, InForce(source, "db.run_migrations_on_start")
               PROVE  schema[InForce(source, "db.url")] = "current"
    BY DEF MigratedBeforeServing
  <2>1. loads(source) /\ settings = load(source)
    BY DEF ServiceInv, SettingsInv, Up
  <2>2. "db.run_migrations_on_start" \in Keys /\ "db.url" \in Keys
    BY DEF Keys, Required, Optional
  <2>3. /\ settings["db.run_migrations_on_start"] = InForce(source, "db.run_migrations_on_start")
        /\ settings["db.url"] = InForce(source, "db.url")
    BY <2>1, <2>2, Precedence
  <2> QED BY <2>3 DEF ServiceInv, MigratedInv
<1> QED BY ServiceInvariant, <1>1, PTL

\* No connection leaks, the pool is not overdrawn, and the queue holds just the
\* requests that wait, each once.
THEOREM PoolStaysSound == ServiceSpec => []PoolSound
<1>1. ServiceInv => PoolSound
  <2> SUFFICES ASSUME ServiceInv PROVE PoolSound
    OBVIOUS
  <2>1. PoolInv
    BY DEF ServiceInv
  <2>2. \A i \in DOMAIN queue : queue[i] \in Requests
    BY <2>1 DEF PoolInv
  <2>3. {queue[i] : i \in DOMAIN queue} = {r \in Requests : stage[r] = "waiting"}
    BY <2>1, <2>2 DEF PoolInv
  <2> QED BY <2>1, <2>3 DEF PoolInv, PoolSound
<1> QED BY ServiceInvariant, <1>1, PTL

=============================================================================
