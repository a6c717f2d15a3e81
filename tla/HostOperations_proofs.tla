----------------------- MODULE HostOperations_proofs -----------------------
(***************************************************************************)
(* Proofs about the operations on a provisioned host: the DEV generations  *)
(* (HostGenerations) and the Analytics control plane (AnalyticsInstall and *)
(* AnalyticsResume).  Each part has one inductive invariant, given first,  *)
(* a lemma for each action, and its theorems at the end.                   *)
(***************************************************************************)
EXTENDS HostGenerations, AnalyticsResume, Integers, TLAPS

-----------------------------------------------------------------------------
(* The inductive invariant of the DEV host's generations. *)

Brokers == [gen : 0..3, sha : Shas \cup {"none"}]

HostType == [app : Nat, executor : 0..3, broker : Brokers, static : SUBSET Names,
             runtime : Nat, unit : 0..1]
MayType == [app : SUBSET Nat, executor : SUBSET (0..3), broker : SUBSET Brokers,
            static : SUBSET SUBSET Names, unit : SUBSET (0..1)]
StageType == [at : {"none", "app", "executor", "broker"}, sha : Shas \cup {"none"}]

FinalSteps == {"inspect", "sync_app", "stage", "replace", "sync", "sync_config"}
MigrationSteps == {"inspect", "stage", "replace", "sync", "after"}
PublicationSteps == {"publish", "link", "unlink", "publish_sync"}
DirectorySteps == {"directories", "own", "directory_sync", "leaf"}
ResourceSteps == DirectorySteps \cup PublicationSteps \cup {"durable", "qualify"}
RotationSteps == {"temporary", "rotate", "rotate_sync", "rotated"}

Steps == {"idle"} \cup FinalSteps \cup MigrationSteps \cup ResourceSteps \cup RotationSteps
Places == {"none", "app", "executor", "broker", "unit", "runtime"} \cup Names

RunType ==
    [op : Operations \cup {"none"}, sha : Shas \cup {"none"}, pc : Steps, at : Places,
     seen : Nat, used : SUBSET Nat, was : HostType]

ReportType == [op : Operations \cup {"none"}, sha : Shas \cup {"none"}, ok : BOOLEAN,
               seen : Nat, used : SUBSET Nat, was : HostType]

\* A broker configuration names a workflow, and the visible value is one of those
\* that a power loss can leave.
HostTyped(h, m) ==
    /\ h \in HostType /\ m \in MayType
    /\ h.app \in m.app /\ h.executor \in m.executor /\ h.broker \in m.broker
    /\ h.static \in m.static /\ h.unit \in m.unit
    /\ h.app <= Files + 2 /\ h.runtime <= Directories
    /\ \A b \in m.broker : IF b.gen = 0 THEN b = Absent ELSE b.sha \in Shas

\* Whatever a power loss leaves has a broker configuration.
BrokerStays(m) == \A b \in m.broker : b.gen >= 1

\* A power loss never leaves something without what it was built on.
Durable(h, m) ==
    /\ \A a \in m.app : a <= h.app
    /\ \A e \in m.executor : e <= h.executor
    /\ \A e \in m.executor, a \in m.app : e >= 1 => a >= Files
    /\ \A b \in m.broker : b.gen >= 1 => m.static = {Names}
    /\ 1 \in m.unit => BrokerStays(m)
    /\ \A a \in m.app : a > Files => BrokerStays(m)
    /\ \A e \in m.executor : e > 1 => BrokerStays(m)
    /\ \A b \in m.broker : b.gen > 1 => BrokerStays(m)

\* A stage of the final update lies beside its durable prefix; any other one
\* beside a broker configuration.
StageKept(h, m, s) ==
    /\ s \in StageType
    /\ s.at = "none" => s = NoStage
    /\ \/ s = NoStage
       \/ BrokerStays(m)
       \/ h.executor = 0 /\ s.at = "app" /\ m.app = {h.app} /\ h.app < Files
       \/ h.executor = 0 /\ s.at = "executor" /\ m.app = {h.app} /\ h.app = Files

Predecessor(h) == h.broker.gen = 2 /\ h.broker.sha = PREDECESSOR_WORKFLOW_SHA

\* The hosts between two generations, as long as no name was taken back.
Chain(h) ==
    \/ h.executor = 0 /\ h.app <= Files /\ h.broker.gen = 0
    \/ h.executor = 1 /\ h.app = Files /\ h.broker.gen \in {0, 1}
    \/ h.executor = 1 /\ h.app = Files + 1 /\ h.broker.gen = 1
    \/ h.executor = 2 /\ h.app = Files + 1 /\ h.broker.gen \in {1, 2}
    \/ h.executor = 2 /\ h.app = Files + 2 /\ Predecessor(h)
    \/ h.executor = 3 /\ h.app = Files + 2 /\ (Predecessor(h) \/ h.broker.gen = 3)

\* The stage of a migration is that of the next destination.
NextStage(h, s) ==
    /\ s.at = "app" => /\ h.app = Files + h.executor - 1
                       /\ (h.executor = 1 /\ h.broker.gen = 1) \/ (h.executor = 2 /\ Predecessor(h))
    /\ s.at = "executor" => /\ h.app = Files + h.executor
                            /\ (h.executor = 1 /\ h.broker.gen = 1) \/ (h.executor = 2 /\ Predecessor(h))
    /\ s.at = "broker" => /\ h.app = Files + h.executor - 1
                          /\ \/ h.executor = 2 /\ h.broker.gen = 1 /\ s.sha = h.broker.sha
                             \/ /\ h.executor = 3 /\ Predecessor(h)
                                /\ s.sha \in Shas \ {PREDECESSOR_WORKFLOW_SHA}

\* cosign is published before the trusted root.
RootLast(h) == "root" \in h.static => "cosign" \in h.static

InOrder(h, s) ==
    /\ Chain(h)
    /\ h.broker.gen >= 1 /\ s # NoStage => NextStage(h, s)
    /\ h.app > Files \/ (h.broker.gen >= 1 /\ s # NoStage) => h.unit = 1
    /\ RootLast(h)

\* Each step of an operation on what the steps before it have established.
FinalRun(r, h, m) ==
    /\ r.pc \in FinalSteps
    /\ r.pc \in {"sync_app", "stage", "replace"} =>
          /\ h.executor = 0
          /\ \/ r.at = "app" /\ h.app < Files
             \/ r.at = "executor" /\ h.app = Files
    /\ r.pc \in {"stage", "replace"} => m.app = {h.app}
    /\ r.pc = "sync" => r.at \in {"app", "executor"}
    /\ r.pc = "sync_config" => h.executor = 1

MigrationRun(r, h, s, t) ==
    /\ r.pc \in MigrationSteps
    /\ r.pc = "after" => r.op = "state_store"
    /\ r.op = "successor" => h.broker.sha = r.was.broker.sha
    /\ r.pc \in {"stage", "replace"} =>
          LET g == Target(r.op)
          IN  /\ h.unit = 1 /\ "broker" \notin t
              /\ h.broker.gen = g - 1
              /\ g = 3 => /\ h.broker.sha = PREDECESSOR_WORKFLOW_SHA
                          /\ r.sha # PREDECESSOR_WORKFLOW_SHA
              /\ \/ r.at = "app" /\ h.app = Files + g - 2 /\ h.executor = g - 1
                 \/ r.at = "executor" /\ h.app = Files + g - 1 /\ h.executor = g - 1
                 \/ r.at = "broker" /\ h.app = Files + g - 1 /\ h.executor = g
    /\ r.pc = "replace" /\ r.at = "broker" =>
          IF r.op = "successor" THEN s.sha = h.broker.sha ELSE s.sha = r.sha
    /\ r.pc = "sync" => r.at \in {"app", "executor", "broker"}
    /\ r.pc \in {"sync", "after"} /\ r.op = "state_store" => h.app = Files + 2

\* A directory was not there when its step began, so no broker configuration is.
ResourceRun(r, h, m, s) ==
    /\ r.pc \in ResourceSteps
    /\ h.executor = 1 /\ h.app = Files /\ s = NoStage
    /\ h.broker.gen = 0 \/ h.broker = FinalBroker(r.sha)
    /\ r.pc \in {"own", "directory_sync"} => r.at \in {"config", "runtime", "tools"}
    /\ r.pc = "own" /\ r.at = "runtime" => h.runtime < Directories
    /\ r.pc = "directory_sync" /\ r.at = "runtime" => h.runtime > 0
    /\ r.pc = "own" /\ r.at # "runtime" => r.at \notin h.static
    /\ r.pc = "leaf" => "tools" \notin h.static
    /\ r.pc = "directory_sync" /\ r.at # "runtime" => r.at \in h.static /\ m.static # {Names}
    /\ \/ r.pc \in PublicationSteps \cup {"leaf", "durable"}
       \/ r.pc \in {"own", "directory_sync"} /\ r.at = "tools"
       => "config" \in h.static
    /\ r.pc \in PublicationSteps \cup {"durable"} => "tools" \in h.static
    /\ r.pc \in PublicationSteps => r.at \in {"cosign", "root", "broker", "unit"}
    /\ r.pc \in PublicationSteps /\ r.at = "root" => "cosign" \in h.static
    /\ r.pc = "link" /\ r.at \in Names => r.at \notin h.static
    /\ r.pc \in {"unlink", "publish_sync"} /\ r.at \in Names => r.at \in h.static
    /\ r.pc = "durable" => h.static = Names
    /\ (r.pc \in PublicationSteps /\ r.at \in {"broker", "unit"}) \/ r.pc = "qualify" =>
          m.static = {Names}
    /\ r.pc = "link" /\ r.at = "broker" => h.broker.gen = 0
    /\ r.pc \in {"unlink", "publish_sync"} /\ r.at = "broker" => h.broker.gen = 1
    /\ (r.pc \in PublicationSteps /\ r.at = "unit") \/ r.pc = "qualify" =>
          m.broker = {h.broker} /\ h.broker.gen = 1
    /\ r.pc \in {"unlink", "publish_sync"} /\ r.at = "unit" => h.unit = 1
    /\ r.pc = "qualify" => m.unit = {1}

RotationRun(r, h, s) ==
    /\ r.pc \in RotationSteps
    /\ s = NoStage
    /\ h = IF r.pc \in {"rotate_sync", "rotated"} THEN [r.was EXCEPT !.broker.sha = r.sha]
           ELSE r.was
    /\ \/ h.executor = 1 /\ h.app = Files /\ h.broker.gen = 1
       \/ h.executor = 2 /\ h.app = Files + 1 /\ h.broker.gen = 2
       \/ h.executor = 3 /\ h.app = Files + 2 /\ h.broker.gen = 3

Progress(r, h, m, s, t) ==
    /\ r \in RunType
    /\ \/ r.pc = "idle"
       \/ /\ r.pc # "idle" /\ r.sha \in Shas
          /\ \/ r.op = "final" /\ FinalRun(r, h, m)
             \/ r.op \in Migrations /\ MigrationRun(r, h, s, t)
             \/ r.op = "resources" /\ ResourceRun(r, h, m, s)
             \/ r.op \in Rotations /\ RotationRun(r, h, s)

\* What was published was published under an incarnation since the start.
Witnessed(r, i) == r.seen <= i /\ \A u \in r.used : r.seen <= u /\ u <= i

\* What a reported success still means after any power loss.
Promised(p, h, m) ==
    p.ok =>
        /\ p.op \in Operations
        /\ p.op = "final" => m.executor = {1}
        /\ p.op = "resources" => /\ m.static = {Names} /\ m.unit = {1}
                                 /\ m.broker = {FinalBroker(p.sha)}
        /\ p.op \in Migrations \cup {"rotate_successor", "rotate_state_store"}
              => p.used \subseteq {p.seen}

Unless == report.ok /\ report.op \in Migrations \cup Rotations => Described(report) \/ lost

HostKept == HostTyped(host, may) /\ Durable(host, may) /\ StageKept(host, may, stage)
OrderKept == ~lost => InOrder(host, stage)

GenerationsInv ==
    /\ incarnation \in Nat /\ report \in ReportType /\ lost \in BOOLEAN
    /\ HostKept /\ OrderKept
    /\ Progress(run, host, may, stage, temps)
    /\ Witnessed(run, incarnation)
    /\ report.ok => run.pc = "idle"
    /\ Promised(report, host, may)
    /\ Unless

\* The running operation goes on.
Continues ==
    /\ run' \in RunType /\ run'.op = run.op /\ run'.sha = run.sha
    /\ run'.was = run.was /\ run'.seen = run.seen

-----------------------------------------------------------------------------
(* Steps of the file system, object by object. *)

\* Showing a value of one object leaves the others alone.
LEMMA ShowApp ==
    ASSUME host \in HostType, may \in MayType, NEW v \in Nat, Show("app", v)
    PROVE  /\ host' \in HostType /\ host'.app = v /\ host'.executor = host.executor
           /\ host'.broker = host.broker /\ host'.static = host.static
           /\ host'.runtime = host.runtime /\ host'.unit = host.unit
           /\ may' \in MayType /\ may'.app = may.app \cup {v} /\ may'.executor = may.executor
           /\ may'.broker = may.broker /\ may'.static = may.static /\ may'.unit = may.unit
  BY DEF Show, HostType, MayType

\* The executor's configuration.
LEMMA ShowExecutor ==
    ASSUME host \in HostType, may \in MayType, NEW v \in 0..3, Show("executor", v)
    PROVE  /\ host' \in HostType /\ host'.app = host.app /\ host'.executor = v
           /\ host'.broker = host.broker /\ host'.static = host.static
           /\ host'.runtime = host.runtime /\ host'.unit = host.unit
           /\ may' \in MayType /\ may'.app = may.app /\ may'.executor = may.executor \cup {v}
           /\ may'.broker = may.broker /\ may'.static = may.static /\ may'.unit = may.unit
  BY DEF Show, HostType, MayType

\* The broker's configuration.
LEMMA ShowBroker ==
    ASSUME host \in HostType, may \in MayType, NEW v \in Brokers, Show("broker", v)
    PROVE  /\ host' \in HostType /\ host'.app = host.app /\ host'.executor = host.executor
           /\ host'.broker = v /\ host'.static = host.static
           /\ host'.runtime = host.runtime /\ host'.unit = host.unit
           /\ may' \in MayType /\ may'.app = may.app /\ may'.executor = may.executor
           /\ may'.broker = may.broker \cup {v} /\ may'.static = may.static /\ may'.unit = may.unit
  BY DEF Show, HostType, MayType

\* A name of a directory or of a Sigstore file.
LEMMA PlaceFacts ==
    ASSUME host \in HostType, may \in MayType, NEW n \in Names, Place(n)
    PROVE  /\ host' \in HostType /\ host'.app = host.app /\ host'.executor = host.executor
           /\ host'.broker = host.broker /\ host'.static = host.static \cup {n}
           /\ host'.runtime = host.runtime /\ host'.unit = host.unit
           /\ may' \in MayType /\ may'.app = may.app /\ may'.executor = may.executor
           /\ may'.broker = may.broker /\ may'.unit = may.unit
           /\ may'.static = may.static
                 \cup {m \cup {n} : m \in {k \in may.static : Holder(n) \subseteq k}}
  BY DEF Place, HostType, MayType

\* A sync of the directory that holds a name.
LEMMA SyncNameFacts ==
    ASSUME host \in HostType, may \in MayType, NEW n \in Names, SyncName(n)
    PROVE  /\ host' = host
           /\ may' \in MayType /\ may'.app = may.app /\ may'.executor = may.executor
           /\ may'.broker = may.broker /\ may'.unit = may.unit
           /\ may'.static = {IF Holder(n) \subseteq m THEN (m \ {n}) \cup (host.static \cap {n})
                              ELSE m : m \in may.static}
  BY DEF SyncName, HostType, MayType

\* The unit.
LEMMA ShowUnit ==
    ASSUME host \in HostType, may \in MayType, NEW v \in 0..1, Show("unit", v)
    PROVE  /\ host' \in HostType /\ host'.app = host.app /\ host'.executor = host.executor
           /\ host'.broker = host.broker /\ host'.static = host.static
           /\ host'.runtime = host.runtime /\ host'.unit = v
           /\ may' \in MayType /\ may'.app = may.app /\ may'.executor = may.executor
           /\ may'.broker = may.broker /\ may'.static = may.static /\ may'.unit = may.unit \cup {v}
  BY DEF Show, HostType, MayType

\* A sync changes what a power loss can leave, and nothing else.
LEMMA SyncFacts ==
    ASSUME host \in HostType, may \in MayType, NEW fs, Sync(fs)
    PROVE  /\ host' = host
           /\ may' \in MayType
           /\ may'.app = IF "app" \in fs THEN {host.app} ELSE may.app
           /\ may'.executor = IF "executor" \in fs THEN {host.executor} ELSE may.executor
           /\ may'.broker = IF "broker" \in fs THEN {host.broker} ELSE may.broker
           /\ may'.static = IF "static" \in fs THEN {host.static} ELSE may.static
           /\ may'.unit = IF "unit" \in fs THEN {host.unit} ELSE may.unit
  BY DEF Sync, Synced, Objects, HostType, MayType

\* After a power loss each object is one of its values, and that one is durable.
LEMMA PowerFacts ==
    ASSUME host \in HostType, may \in MayType, PowerLoss
    PROVE  /\ host' \in HostType /\ host'.app \in may.app /\ host'.executor \in may.executor
           /\ host'.broker \in may.broker /\ host'.static \in may.static
           /\ host'.runtime \in {0, Directories} /\ host'.unit \in may.unit
           /\ may' \in MayType /\ may'.app = {host'.app} /\ may'.executor = {host'.executor}
           /\ may'.broker = {host'.broker} /\ may'.static = {host'.static}
           /\ may'.unit = {host'.unit}
<1>1. PICK a \in may.app, e \in may.executor, b \in may.broker, s \in may.static, u \in may.unit,
           d \in {0, Directories} :
          host' = [app |-> a, executor |-> e, broker |-> b, static |-> s, runtime |-> d, unit |-> u]
  BY DEF PowerLoss
<1>2. a \in Nat /\ e \in 0..3 /\ b \in Brokers /\ s \in SUBSET Names /\ u \in 0..1 /\ d \in Nat
  BY <1>1, GenerationsAssumption DEF MayType
<1>3. PICK h : h = host'
  OBVIOUS
<1>4. h \in HostType /\ h.app = a /\ h.executor = e /\ h.broker = b /\ h.static = s
      /\ h.runtime = d /\ h.unit = u
  BY <1>1, <1>2, <1>3 DEF HostType
<1>5. may' = [f \in Objects |-> {h[f]}]
  BY <1>3 DEF PowerLoss
<1>6. may' \in MayType /\ may'.app = {h.app} /\ may'.executor = {h.executor}
      /\ may'.broker = {h.broker} /\ may'.static = {h.static} /\ may'.unit = {h.unit}
  BY <1>4, <1>5 DEF HostType, MayType, Objects
<1> QED
  BY <1>1, <1>3, <1>4, <1>6

\* The next step of the running operation.
LEMMA GotoFacts ==
    ASSUME run \in RunType, NEW q \in Steps, NEW a \in Places,
           run' = [run EXCEPT !.pc = q, !.at = a]
    PROVE  Continues /\ run'.pc = q /\ run'.at = a /\ run'.used = run.used
  BY DEF RunType, Continues

\* A step that stays at its place.
LEMMA StepFacts ==
    ASSUME run \in RunType, NEW q \in Steps, run' = [run EXCEPT !.pc = q]
    PROVE  Continues /\ run'.pc = q /\ run'.at = run.at /\ run'.used = run.used
  BY DEF RunType, Continues

\* A step that publishes remembers the incarnation.
LEMMA UseFacts ==
    ASSUME run \in RunType, incarnation \in Nat, NEW q \in Steps,
           run' = [run EXCEPT !.pc = q, !.used = @ \cup {incarnation}]
    PROVE  Continues /\ run'.pc = q /\ run'.at = run.at /\ run'.used = run.used \cup {incarnation}
  BY DEF RunType, Continues

-----------------------------------------------------------------------------
(* The parts of the invariant, under each kind of step. *)

\* A sync keeps what a power loss can leave within what was there.
LEMMA SyncKeepsHost ==
    ASSUME HostKept, NEW fs, Sync(fs), UNCHANGED stage
    PROVE  HostKept'
<1>1. host \in HostType /\ may \in MayType
  BY DEF HostKept, HostTyped
<1>2. PICK h, m, n, s : h = host /\ m = may /\ n = may' /\ s = stage
  OBVIOUS
<1>3. host' = h /\ stage' = s
  BY <1>1, <1>2, SyncFacts
<1>4. /\ n \in MayType
      /\ n.app = {h.app} \/ n.app = m.app
      /\ n.executor = {h.executor} \/ n.executor = m.executor
      /\ n.broker = {h.broker} \/ n.broker = m.broker
      /\ n.static = {h.static} \/ n.static = m.static
      /\ n.unit = {h.unit} \/ n.unit = m.unit
  BY <1>1, <1>2, SyncFacts
<1>5. HostTyped(h, m) /\ Durable(h, m) /\ StageKept(h, m, s)
  BY <1>2 DEF HostKept
<1>6. HostTyped(h, n)
  BY <1>4, <1>5 DEF HostTyped
<1>7. BrokerStays(m) => BrokerStays(n)
  BY <1>4, <1>5 DEF BrokerStays, HostTyped
<1>8. Durable(h, n)
  <2>1. h.app \in m.app /\ h.executor \in m.executor /\ h.broker \in m.broker
        /\ h.static \in m.static /\ h.unit \in m.unit
    BY <1>5 DEF HostTyped
  <2>2. n.app \subseteq m.app /\ n.executor \subseteq m.executor /\ n.broker \subseteq m.broker
        /\ n.unit \subseteq m.unit
    BY <1>4, <2>1
  <2>3. m.static = {Names} => n.static = {Names}
    BY <1>4, <2>1
  <2> QED
    BY <1>5, <1>7, <2>2, <2>3 DEF Durable
<1>9. StageKept(h, n, s)
  BY <1>4, <1>5, <1>7 DEF StageKept
<1> QED
  BY <1>2, <1>3, <1>6, <1>8, <1>9 DEF HostKept

\* A change of names or of runtime directories leaves the rest as it was.
LEMMA StaticChanged ==
    ASSUME HostKept, host' \in HostType, may' \in MayType,
           host'.app = host.app, host'.executor = host.executor,
           host'.broker = host.broker, host'.unit = host.unit,
           host'.runtime <= Directories, host'.static \in may'.static,
           may'.app = may.app, may'.executor = may.executor,
           may'.broker = may.broker, may'.unit = may.unit,
           may.static = {Names} => may'.static = {Names},
           UNCHANGED stage
    PROVE  HostKept'
<1>1. PICK h, m, k, n, s : h = host /\ m = may /\ k = host' /\ n = may' /\ s = stage
  OBVIOUS
<1>2. HostTyped(h, m) /\ Durable(h, m) /\ StageKept(h, m, s)
  BY <1>1 DEF HostKept
<1>3. /\ k.app = h.app /\ k.executor = h.executor /\ k.broker = h.broker /\ k.unit = h.unit
      /\ n.app = m.app /\ n.executor = m.executor /\ n.broker = m.broker /\ n.unit = m.unit
      /\ m.static = {Names} => n.static = {Names}
  BY <1>1
<1>4. HostTyped(k, n)
  BY <1>1, <1>2, <1>3 DEF HostTyped
<1>5. BrokerStays(m) <=> BrokerStays(n)
  BY <1>3 DEF BrokerStays
<1>6. Durable(k, n)
  BY <1>2, <1>3, <1>5 DEF Durable
<1>7. StageKept(k, n, s)
  BY <1>2, <1>3, <1>5 DEF StageKept
<1> QED
  BY <1>1, <1>4, <1>6, <1>7 DEF HostKept

\* A name that was not there, which no broker configuration depends on.
LEMMA NamePlaced ==
    ASSUME HostKept, NEW n \in Names, n \notin host.static, Holder(n) \subseteq host.static,
           Place(n), UNCHANGED stage
    PROVE  HostKept' /\ may'.static # {Names}
<1>1. host \in HostType /\ may \in MayType /\ host.static \in may.static /\ host.runtime <= Directories
  BY DEF HostKept, HostTyped
<1>2. may.static # {Names} /\ may'.static # {Names}
  BY <1>1, PlaceFacts
<1>3. host'.static \in may'.static
  BY <1>1, PlaceFacts
<1> QED
  BY <1>1, <1>2, <1>3, PlaceFacts, StaticChanged

\* The sync of a directory keeps the names that are in it.
LEMMA NameSynced ==
    ASSUME HostKept, NEW n \in Names, SyncName(n), UNCHANGED stage
    PROVE  /\ HostKept' /\ host' = host /\ may'.broker = may.broker
           /\ may.static = {Names} => may'.static = {Names}
<1>1. host \in HostType /\ may \in MayType /\ host.static \in may.static /\ host.runtime <= Directories
  BY DEF HostKept, HostTyped
<1>2. (host.static \ {n}) \cup (host.static \cap {n}) = host.static
  OBVIOUS
<1>3. PICK F : F = [m \in may.static |->
                      IF Holder(n) \subseteq m THEN (m \ {n}) \cup (host.static \cap {n}) ELSE m]
  OBVIOUS
<1>4. may'.static = {F[m] : m \in may.static}
  BY <1>1, <1>3, SyncNameFacts
<1>5. F[host.static] = host.static
  BY <1>1, <1>2, <1>3
<1>6. host.static \in may'.static
  BY <1>1, <1>4, <1>5
<1>7. may.static = {Names} => may'.static = {Names}
  BY <1>1, <1>4, <1>5
<1> QED
  BY <1>1, <1>6, <1>7, SyncNameFacts, StaticChanged

\* So does a power loss, whatever it takes back.
LEMMA PowerKeepsHost ==
    ASSUME HostKept, PowerLoss
    PROVE  HostKept'
<1>1. host \in HostType /\ may \in MayType
  BY DEF HostKept, HostTyped
<1>2. PICK h, m, k, n, s, t : h = host /\ m = may /\ k = host' /\ n = may' /\ s = stage /\ t = stage'
  OBVIOUS
<1>3. /\ k \in HostType /\ k.app \in m.app /\ k.executor \in m.executor
      /\ k.broker \in m.broker /\ k.static \in m.static
      /\ k.runtime \in {0, Directories} /\ k.unit \in m.unit
      /\ n \in MayType /\ n.app = {k.app} /\ n.executor = {k.executor}
      /\ n.broker = {k.broker} /\ n.static = {k.static} /\ n.unit = {k.unit}
  BY <1>1, <1>2, PowerFacts
<1>4. t = s \/ t = NoStage
  BY <1>2 DEF PowerLoss
<1>5. HostTyped(h, m) /\ Durable(h, m) /\ StageKept(h, m, s)
  BY <1>2 DEF HostKept
<1>6. BrokerStays(m) => BrokerStays(n)
  BY <1>3 DEF BrokerStays
<1>7. k.app <= h.app /\ k.executor <= h.executor
  BY <1>3, <1>5 DEF Durable
<1>8. HostTyped(k, n)
  <2>1. h.app \in Nat /\ k.app \in Nat /\ Files \in Nat
    BY <1>3, <1>5, GenerationsAssumption DEF HostTyped, HostType
  <2>2. k.app <= Files + 2
    BY <1>5, <1>7, <2>1 DEF HostTyped
  <2>3. k.runtime <= Directories
    BY <1>3, GenerationsAssumption
  <2> QED
    BY <1>3, <1>5, <2>2, <2>3 DEF HostTyped
<1>9. Durable(k, n)
  <2>1. k.app \in Nat /\ k.executor \in Nat
    BY <1>3 DEF HostType
  <2>2. k.app <= k.app /\ k.executor <= k.executor
    BY <2>1
  <2>3. m.static = {Names} => n.static = {Names}
    BY <1>3
  <2> QED
    BY <1>3, <1>5, <1>6, <2>2, <2>3 DEF Durable
<1>10. StageKept(k, n, t)
  <2>1. t \in StageType /\ (t.at = "none" => t = NoStage)
    BY <1>4, <1>5 DEF StageKept, NoStage, StageType
  <2>2. h.executor = 0 => k.executor = 0
    BY <1>3, <1>7 DEF HostType
  <2>3. m.app = {h.app} => k.app = h.app
    BY <1>3
  <2> QED
    BY <1>3, <1>4, <1>5, <1>6, <2>1, <2>2, <2>3 DEF StageKept
<1> QED
  BY <1>2, <1>8, <1>9, <1>10 DEF HostKept

\* A run goes on: its own part and the host's are kept, and nothing was reported.
LEMMA RunGoesOn ==
    ASSUME GenerationsInv, run.pc # "idle", Continues,
           UNCHANGED <<report, lost>>,
           incarnation' \in Nat, incarnation' >= incarnation,
           run'.used \subseteq run.used \cup {incarnation},
           HostKept', OrderKept',
           Progress(run', host', may', stage', temps')
    PROVE  GenerationsInv'
<1>1. report' = report /\ report.ok = FALSE /\ lost' = lost
  BY DEF GenerationsInv, ReportType
<1>2. Witnessed(run', incarnation')
  <2>1. run \in RunType /\ incarnation \in Nat /\ Witnessed(run, incarnation)
    BY DEF GenerationsInv, Progress
  <2>2. \A u \in run'.used : u \in Nat /\ run.seen <= u /\ u <= incarnation
    BY <2>1 DEF Witnessed, RunType
  <2>3. run.seen \in Nat /\ run.seen <= incarnation /\ run'.seen = run.seen
    BY <2>1 DEF Witnessed, RunType, Continues
  <2> QED
    BY <2>1, <2>2, <2>3 DEF Witnessed
<1>3. Promised(report', host', may') /\ Unless'
  BY <1>1 DEF Promised, Unless
<1> QED
  BY <1>1, <1>2, <1>3 DEF GenerationsInv

\* Before any operation ends, or when it fails, nothing has to be shown of it.
LEMMA IdleIsSound ==
    ASSUME run' = Idle
    PROVE  Progress(run', host', may', stage', temps') /\ Witnessed(run', 0)
           /\ run'.pc = "idle" /\ run'.seen = 0 /\ run'.used = {}
<1>1. PICK r : r = Idle
  OBVIOUS
<1>2. PICK h : h = Fresh
  OBVIOUS
<1>3. PICK b : b = Absent
  OBVIOUS
<1>4. b \in Brokers
  BY <1>3 DEF Absent, Brokers
<1>5. h \in HostType
  BY <1>2, <1>3, <1>4 DEF Fresh, HostType
<1>6. r \in RunType /\ r.pc = "idle" /\ r.seen = 0 /\ r.used = {}
  BY <1>1, <1>2, <1>5 DEF Idle, RunType, Steps, Places
<1> QED
  BY <1>1, <1>6 DEF Progress, Witnessed

\* An operation ends with a report on its own arguments.
LEMMA EndFacts ==
    ASSUME run \in RunType, NEW ok \in BOOLEAN, End(ok)
    PROVE  /\ run' = Idle /\ report' \in ReportType /\ report'.ok = ok
           /\ report'.op = run.op /\ report'.sha = run.sha /\ report'.was = run.was
           /\ report'.used = run.used /\ report'.seen = run.seen
  BY DEF End, RunType, ReportType

\* An operation that does not succeed only has to leave the host as it should be.
LEMMA RunEnds ==
    ASSUME GenerationsInv, run' = Idle, report' \in ReportType,
           incarnation' \in Nat, lost' \in BOOLEAN,
           HostKept', OrderKept', Promised(report', host', may'), Unless'
    PROVE  GenerationsInv'
<1>1. Witnessed(run', incarnation')
  BY IdleIsSound DEF Witnessed
<1> QED
  BY <1>1, IdleIsSound DEF GenerationsInv

-----------------------------------------------------------------------------
(* Which operation is at a step, and what it has established. *)

\* Which operation runs, and what its steps so far have established.
LEMMA RunFacts ==
    ASSUME GenerationsInv, run.pc # "idle"
    PROVE  /\ run \in RunType /\ run.sha \in Shas /\ run.op \in Operations
           /\ run.op = "final" => FinalRun(run, host, may)
           /\ run.op \in Migrations => MigrationRun(run, host, stage, temps)
           /\ run.op = "resources" => ResourceRun(run, host, may, stage)
           /\ run.op \in Rotations => RotationRun(run, host, stage)
  BY DEF GenerationsInv, Progress, Migrations, Rotations, Operations

\* A step names its operation, or the few that share it.
LEMMA StepsOfOperations ==
    ASSUME GenerationsInv
    PROVE  /\ run.pc \in {"sync_app", "sync_config"} => run.op = "final"
           /\ run.pc \in {"stage", "replace", "sync", "inspect"} => run.op \in Migrations \cup {"final"}
           /\ run.pc = "after" => run.op = "state_store"
           /\ run.pc \in ResourceSteps => run.op = "resources"
           /\ run.pc \in RotationSteps => run.op \in Rotations
  BY DEF GenerationsInv, Progress, FinalRun, MigrationRun, ResourceRun, RotationRun, FinalSteps,
     MigrationSteps, ResourceSteps, DirectorySteps, RotationSteps, PublicationSteps, Migrations

\* Generations of the application, as numbers of files.
LEMMA ApplicationFacts ==
    ASSUME host \in HostType, host.app <= Files + 2
    PROVE  /\ AppGeneration = 0 <=> host.app < Files
           /\ AppGeneration = 1 <=> host.app = Files
           /\ AppGeneration = 2 <=> host.app = Files + 1
           /\ AppGeneration = 3 <=> host.app = Files + 2
           /\ AppGeneration \in 0..3
<1>1. Files \in Nat /\ host.app \in Nat
  BY GenerationsAssumption DEF HostType
<1>2. CASE host.app < Files
  BY <1>1, <1>2 DEF AppGeneration, StateStoreApplication, SuccessorApplication, FinalApplication
<1>3. CASE host.app = Files
  BY <1>1, <1>3 DEF AppGeneration, StateStoreApplication, SuccessorApplication, FinalApplication
<1>4. CASE host.app = Files + 1
  BY <1>1, <1>4 DEF AppGeneration, StateStoreApplication, SuccessorApplication, FinalApplication
<1>5. CASE host.app = Files + 2
  BY <1>1, <1>5 DEF AppGeneration, StateStoreApplication, SuccessorApplication, FinalApplication
<1> QED
  BY <1>1, <1>2, <1>3, <1>4, <1>5

\* What classify recognizes.
LEMMA PhaseFacts ==
    ASSUME HostKept, NEW op \in Migrations, NEW w,
           Phase(op, w) # "rejected"
    PROVE  LET g == Target(op)
           IN  /\ g \in {2, 3} /\ (g = 3 <=> op = "state_store") /\ (g = 2 <=> op = "successor")
               /\ "broker" \notin temps /\ ReadBroker = host.broker
               /\ Phase(op, w) \in {"predecessor", "application", "executor", "complete"}
               /\ Phase(op, w) # "complete" =>
                     /\ host.broker.gen = g - 1
                     /\ g = 3 => host.broker.sha = PREDECESSOR_WORKFLOW_SHA
               /\ Phase(op, w) = "predecessor" => host.app = Files + g - 2 /\ host.executor = g - 1
               /\ Phase(op, w) = "application" => host.app = Files + g - 1 /\ host.executor = g - 1
               /\ Phase(op, w) = "executor" => host.app = Files + g - 1 /\ host.executor = g
               /\ Phase(op, w) = "complete" =>
                     /\ host.app = Files + g - 1 /\ host.executor = g
                     /\ host.broker = BrokerOf(g, IF g = 2 THEN host.broker.sha ELSE w)
<1> DEFINE g == Target(op)
<1>1. g \in {2, 3} /\ (g = 3 <=> op = "state_store") /\ (g = 2 <=> op = "successor")
  BY DEF Target, Migrations
<1>2. host \in HostType /\ host.app <= Files + 2 /\ Files \in Nat
  BY GenerationsAssumption DEF HostKept, HostTyped
<1>3. /\ AppGeneration = g - 1 <=> host.app = Files + g - 2
      /\ AppGeneration = g <=> host.app = Files + g - 1
      /\ AppGeneration # g - 1 \/ AppGeneration # g
  BY <1>1, <1>2, ApplicationFacts
<1>4. Absent.gen = 0 /\ BrokerOf(2, 0).gen = 2
  BY DEF Absent, BrokerOf, SuccessorBroker
<1>5. \A v : BrokerOf(g, v).gen = g
  BY <1>1 DEF BrokerOf, SuccessorBroker, StateStoreBroker
<1> DEFINE A == AppGeneration = g - 1 /\ ReadExecutor = g - 1 /\ PredecessorBroker(op)
           B == AppGeneration = g /\ ReadExecutor = g - 1 /\ PredecessorBroker(op)
           C == AppGeneration = g /\ ReadExecutor = g /\ PredecessorBroker(op)
           D == AppGeneration = g /\ ReadExecutor = g /\ TargetBroker(op, w)
<1>6. PredecessorBroker(op) \/ TargetBroker(op, w) => "broker" \notin temps
  BY <1>1, <1>4, <1>5 DEF PredecessorBroker, TargetBroker, ReadBroker, ExactConfigurationFile
<1>7. PredecessorBroker(op) => ~TargetBroker(op, w)
  <2>1. PredecessorBroker(op) => ReadBroker.gen = g - 1
    BY DEF PredecessorBroker
  <2>2. TargetBroker(op, w) => ReadBroker.gen = g
    BY <1>5 DEF TargetBroker
  <2> QED
    BY <1>1, <2>1, <2>2
<1>8. g - 1 # g
  BY <1>1
<1>9. /\ A => Phase(op, w) = "predecessor"
      /\ B => Phase(op, w) = "application"
      /\ C => Phase(op, w) = "executor"
      /\ D => Phase(op, w) = "complete"
      /\ A \/ B \/ C \/ D
  <2>1. ~(A /\ B) /\ ~(A /\ C) /\ ~(A /\ D) /\ ~(B /\ C) /\ ~(B /\ D) /\ ~(C /\ D)
    BY <1>3, <1>7, <1>8
  <2>2. Phase(op, w) = CASE A -> "predecessor" [] B -> "application" [] C -> "executor"
                        [] D -> "complete" [] OTHER -> "rejected"
    BY DEF Phase
  <2> HIDE DEF A, B, C, D
  <2> QED
    BY <2>1, <2>2
<1>10. "broker" \notin temps /\ ReadBroker = host.broker
  BY <1>6, <1>9 DEF ReadBroker, ExactConfigurationFile
<1>11. PredecessorBroker(op) => /\ host.broker.gen = g - 1
                                /\ g = 3 => host.broker.sha = PREDECESSOR_WORKFLOW_SHA
  BY <1>1, <1>10 DEF PredecessorBroker
<1>12. TargetBroker(op, w) => host.broker = BrokerOf(g, IF g = 2 THEN host.broker.sha ELSE w)
  BY <1>1, <1>10 DEF TargetBroker, TargetSha
<1>13. ReadExecutor = host.executor
  BY DEF ReadExecutor
<1> HIDE DEF g
<1> QED
  BY <1>1, <1>3, <1>8, <1>9, <1>10, <1>11, <1>12, <1>13 DEF g

-----------------------------------------------------------------------------
(* The steps of the final update and of the migrations. *)

\* The host is kept where it does not change.
LEMMA SameHost ==
    ASSUME GenerationsInv, UNCHANGED <<host, may, stage, lost>>
    PROVE  HostKept' /\ OrderKept'
  BY DEF GenerationsInv, HostKept, OrderKept

\* _next_advance of the final update.
LEMMA FinalStepIsSound ==
    ASSUME GenerationsInv, FinalStep PROVE GenerationsInv'
<1>1. run.pc = "inspect" /\ run.op = "final" /\ FinalQualify
  BY DEF FinalStep
<1>2. PICK q, a : q = FinalNext.pc /\ a = FinalNext.at
  OBVIOUS
<1>3. run' = [run EXCEPT !.pc = q, !.at = a]
  BY <1>2 DEF FinalStep, GotoAt
<1>4. host \in HostType /\ may \in MayType /\ host.app \in may.app /\ \A x \in may.app : x <= host.app
  BY DEF GenerationsInv, HostKept, HostTyped, Durable
<1>5. host.executor \in {0, 1} /\ (host.executor = 0 => host.app <= Files)
  BY <1>1 DEF FinalQualify, ReadExecutor, FinalInspect, FinalApplicationState, FinalTarget
<1>6. \/ q = "sync_config" /\ a = "none" /\ host.executor = 1
      \/ q = "stage" /\ a = "app" /\ host.executor = 0 /\ host.app < Files /\ host.app = 0
      \/ q = "sync_app" /\ a = "app" /\ host.executor = 0 /\ host.app < Files
      \/ q = "sync_app" /\ a = "executor" /\ host.executor = 0 /\ host.app = Files
  BY <1>2, <1>4, <1>5, GenerationsAssumption DEF FinalNext, HostType
<1>7. host.app = 0 => may.app = {host.app}
  <2>1. \A x \in Nat : x <= 0 => x = 0
    OBVIOUS
  <2> QED
    BY <1>4, <2>1 DEF MayType
<1>8. q \in Steps /\ a \in Places
  BY <1>6 DEF Steps, FinalSteps, Places
<1>9. run \in RunType /\ run.sha \in Shas
  BY <1>1, RunFacts
<1>10. Continues /\ run'.pc = q /\ run'.at = a /\ run'.used = run.used
  BY <1>3, <1>8, <1>9, GotoFacts
<1>11. FinalRun(run', host, may)
  BY <1>6, <1>7, <1>10 DEF FinalRun, FinalSteps
<1>12. UNCHANGED <<host, may, stage, temps, report, incarnation, lost>>
  BY DEF FinalStep, World
<1>13. Progress(run', host', may', stage', temps')
  BY <1>1, <1>6, <1>9, <1>10, <1>11, <1>12 DEF Progress, Continues
<1>14. incarnation' \in Nat /\ incarnation' >= incarnation
  BY <1>12 DEF GenerationsInv
<1> QED
  BY <1>1, <1>10, <1>12, <1>13, <1>14, SameHost, RunGoesOn

\* The application's directory is synced before a file that depends on it.
LEMMA SyncApplicationIsSound ==
    ASSUME GenerationsInv, SyncApplication PROVE GenerationsInv'
<1>1. run.pc = "sync_app" /\ run.op = "final"
  BY StepsOfOperations DEF SyncApplication
<1>2. FinalRun(run, host, may) /\ run \in RunType /\ run.sha \in Shas
  BY <1>1, RunFacts
<1>3. HostKept /\ host \in HostType /\ may \in MayType
  BY DEF GenerationsInv, HostKept, HostTyped
<1>4. Sync({"app"}) /\ UNCHANGED <<stage, temps, report, incarnation, lost>>
  BY DEF SyncApplication, World
<1>5. host' = host /\ may'.app = {host.app}
  BY <1>3, <1>4, SyncFacts
<1>6. "stage" \in Steps
  BY DEF Steps, FinalSteps
<1>7. Continues /\ run'.pc = "stage" /\ run'.at = run.at /\ run'.used = run.used
  BY <1>2, <1>6, StepFacts DEF SyncApplication, Goto
<1>8. FinalRun(run', host', may')
  BY <1>1, <1>2, <1>5, <1>7 DEF FinalRun, FinalSteps
<1>9. Progress(run', host', may', stage', temps')
  BY <1>1, <1>2, <1>7, <1>8 DEF Progress, Continues
<1>10. HostKept'
  BY <1>3, <1>4, SyncKeepsHost
<1>11. OrderKept'
  BY <1>4, <1>5 DEF GenerationsInv, OrderKept
<1>12. incarnation' \in Nat /\ incarnation' >= incarnation
  BY <1>4 DEF GenerationsInv
<1> QED
  BY <1>1, <1>4, <1>7, <1>9, <1>10, <1>11, <1>12, RunGoesOn

\* The next destination of a migration.
LEMMA MigrationStepIsSound ==
    ASSUME GenerationsInv, MigrationStep PROVE GenerationsInv'
<1>1. run.pc = "inspect" /\ run.op \in Migrations /\ MigrationQualified(run.op, run.sha)
      /\ Phase(run.op, run.sha) # "complete"
  BY DEF MigrationStep
<1>2. MigrationRun(run, host, stage, temps) /\ run \in RunType /\ run.sha \in Shas
  BY <1>1, RunFacts
<1>3. HostKept
  BY DEF GenerationsInv
<1>4. PICK p : p = Phase(run.op, run.sha)
  OBVIOUS
<1>5. p # "rejected" /\ host.unit = 1
  BY <1>1, <1>4 DEF MigrationQualified, Inspect, ControlPlaneClosed, ServicesClosed
<1>6. PICK g : g = Target(run.op)
  OBVIOUS
<1>7. /\ g \in {2, 3}
      /\ "broker" \notin temps
      /\ host.broker.gen = g - 1
      /\ g = 3 => host.broker.sha = PREDECESSOR_WORKFLOW_SHA
      /\ \/ p = "predecessor" /\ host.app = Files + g - 2 /\ host.executor = g - 1
         \/ p = "application" /\ host.app = Files + g - 1 /\ host.executor = g - 1
         \/ p = "executor" /\ host.app = Files + g - 1 /\ host.executor = g
  BY <1>1, <1>3, <1>4, <1>5, <1>6, PhaseFacts
<1>8. PICK a : a = NextDestination(p)
  OBVIOUS
<1>9. \/ p = "predecessor" /\ a = "app"
      \/ p = "application" /\ a = "executor"
      \/ p = "executor" /\ a = "broker"
  BY <1>7, <1>8 DEF NextDestination
<1>10. "stage" \in Steps /\ a \in Places
  BY <1>9 DEF Steps, FinalSteps, Places
<1>11. run' = [run EXCEPT !.pc = "stage", !.at = a]
  BY <1>4, <1>8 DEF MigrationStep, GotoAt
<1>12. Continues /\ run'.pc = "stage" /\ run'.at = a /\ run'.used = run.used
  BY <1>2, <1>10, <1>11, GotoFacts
<1>13. g = 3 => run.op = "state_store" /\ run.sha # PREDECESSOR_WORKFLOW_SHA
  BY <1>1, <1>6 DEF Target, Migrations, MigrationQualified, Inspect
<1>14. MigrationRun(run', host, stage, temps)
  BY <1>2, <1>5, <1>6, <1>7, <1>9, <1>12, <1>13 DEF MigrationRun, MigrationSteps, Continues
<1>15. UNCHANGED <<host, may, stage, temps, report, incarnation, lost>>
  BY DEF MigrationStep, World
<1>16. Progress(run', host', may', stage', temps')
  BY <1>1, <1>2, <1>12, <1>14, <1>15 DEF Progress, Continues
<1>17. incarnation' \in Nat /\ incarnation' >= incarnation
  BY <1>15 DEF GenerationsInv
<1> QED
  BY <1>1, <1>12, <1>15, <1>16, <1>17, SameHost, RunGoesOn

\* A unit that is visible was published beside a durable broker configuration.
LEMMA UnitNeedsBroker ==
    ASSUME HostKept, host.unit = 1
    PROVE  BrokerStays(may)
  BY DEF HostKept, HostTyped, Durable

\* A stage of the final update or of a migration.
LEMMA WriteStageIsSound ==
    ASSUME GenerationsInv, WriteStage PROVE GenerationsInv'
<1>1. run.pc = "stage" /\ run.op \in Migrations \cup {"final"}
  BY StepsOfOperations DEF WriteStage
<1>2. run \in RunType /\ run.sha \in Shas
  BY <1>1, RunFacts
<1>3. HostKept /\ host \in HostType /\ OrderKept
  BY DEF GenerationsInv, HostKept, HostTyped
<1>4. PICK c : c = IF run.at = "broker" THEN TargetSha(run.op, run.sha) ELSE "none"
  OBVIOUS
<1>5. stage' = [at |-> run.at, sha |-> c]
  BY <1>4 DEF WriteStage
<1>6. UNCHANGED <<host, may, temps, report, incarnation, lost>>
  BY DEF WriteStage, World
<1>7. "replace" \in Steps
  BY DEF Steps, FinalSteps
<1>8. Continues /\ run'.pc = "replace" /\ run'.at = run.at /\ run'.used = run.used
  BY <1>2, <1>7, StepFacts DEF WriteStage, Goto
<1>9. PICK s : s = stage'
  OBVIOUS
<1>10. s.at = run.at /\ s.sha = c
  BY <1>5, <1>9
<1>11. CASE run.op = "final"
  <2>1. FinalRun(run, host, may)
    BY <1>1, <1>11, RunFacts
  <2>2. run.at \in {"app", "executor"} /\ host.executor = 0 /\ may.app = {host.app}
        /\ (run.at = "app" => host.app < Files) /\ (run.at = "executor" => host.app = Files)
    BY <1>1, <2>1 DEF FinalRun
  <2>3. s \in StageType /\ s # NoStage
    BY <1>4, <1>5, <1>9, <2>2 DEF StageType, NoStage
  <2>4. StageKept(host, may, s)
    BY <1>10, <2>2, <2>3 DEF StageKept
  <2>5. HostKept'
    BY <1>3, <1>6, <1>9, <2>4 DEF HostKept
  <2>6. ~lost => host.broker.gen = 0
    BY <1>3, <2>2 DEF OrderKept, InOrder, Chain
  <2>7. ~lost => InOrder(host, s)
    BY <1>3, <2>6 DEF OrderKept, InOrder
  <2>8. OrderKept'
    BY <1>6, <1>9, <2>7 DEF OrderKept
  <2>9. FinalRun(run', host', may')
    BY <1>1, <1>6, <1>8, <2>1 DEF FinalRun, FinalSteps
  <2>10. Progress(run', host', may', stage', temps')
    BY <1>2, <1>8, <1>11, <2>9 DEF Progress, Continues
  <2>11. incarnation' \in Nat /\ incarnation' >= incarnation
    BY <1>6 DEF GenerationsInv
  <2> QED
    BY <1>1, <1>6, <1>8, <2>5, <2>8, <2>10, <2>11, RunGoesOn
<1>12. CASE run.op \in Migrations
  <2>1. MigrationRun(run, host, stage, temps)
    BY <1>1, <1>12, RunFacts
  <2>2. PICK g : g = Target(run.op)
    OBVIOUS
  <2>3. g \in {2, 3} /\ (g = 3 <=> run.op = "state_store") /\ (g = 2 <=> run.op = "successor")
    BY <1>12, <2>2 DEF Target, Migrations
  <2>4. /\ host.unit = 1 /\ "broker" \notin temps
        /\ host.broker.gen = g - 1
        /\ g = 3 => /\ host.broker.sha = PREDECESSOR_WORKFLOW_SHA
                    /\ run.sha # PREDECESSOR_WORKFLOW_SHA
        /\ \/ run.at = "app" /\ host.app = Files + g - 2 /\ host.executor = g - 1
           \/ run.at = "executor" /\ host.app = Files + g - 1 /\ host.executor = g - 1
           \/ run.at = "broker" /\ host.app = Files + g - 1 /\ host.executor = g
    BY <1>1, <2>1, <2>2 DEF MigrationRun
  <2>5. host.broker.sha \in Shas
    BY <1>3, <2>3, <2>4 DEF HostKept, HostTyped
  <2>6. run.at = "broker" => c = IF run.op = "successor" THEN host.broker.sha ELSE run.sha
    BY <1>4, <2>4 DEF TargetSha, ReadBroker, ExactConfigurationFile
  <2>7. s \in StageType /\ s # NoStage
    BY <1>2, <1>4, <1>5, <1>9, <2>4, <2>5, <2>6 DEF StageType, NoStage
  <2>8. StageKept(host, may, s)
    BY <1>3, <1>10, <2>4, <2>7, UnitNeedsBroker DEF StageKept
  <2>9. HostKept'
    BY <1>3, <1>6, <1>9, <2>8 DEF HostKept
  <2>10. NextStage(host, s)
    BY <1>2, <1>10, <2>3, <2>4, <2>6, GenerationsAssumption DEF NextStage, Predecessor
  <2>11. ~lost => InOrder(host, s)
    BY <1>3, <2>4, <2>10 DEF OrderKept, InOrder
  <2>12. OrderKept'
    BY <1>6, <1>9, <2>11 DEF OrderKept
  <2>13. MigrationRun(run', host', stage', temps')
    <3>1. run'.pc = "replace" /\ run'.at = run.at /\ run'.op = run.op /\ run'.sha = run.sha
          /\ run'.was = run.was /\ host' = host /\ stage' = s /\ temps' = temps
      BY <1>6, <1>8, <1>9 DEF Continues
    <3>2. run.op = "successor" => host.broker.sha = run.was.broker.sha
      BY <2>1 DEF MigrationRun
    <3> QED
      BY <1>10, <2>2, <2>3, <2>4, <2>6, <3>1, <3>2 DEF MigrationRun, MigrationSteps
  <2>14. Progress(run', host', may', stage', temps')
    BY <1>2, <1>8, <1>12, <2>13 DEF Progress, Continues
  <2>15. incarnation' \in Nat /\ incarnation' >= incarnation
    BY <1>6 DEF GenerationsInv
  <2> QED
    BY <1>1, <1>6, <1>8, <2>9, <2>12, <2>14, <2>15, RunGoesOn
<1> QED
  BY <1>1, <1>11, <1>12

-----------------------------------------------------------------------------
(* The replacement of a staged file. *)

\* No stage is a stage.
LEMMA NoStageFacts ==
    NoStage \in StageType /\ NoStage.at = "none"
  BY DEF NoStage, StageType

\* One more file of the application.
LEMMA AppReplaced ==
    ASSUME HostKept, Show("app", host.app + 1), stage' = NoStage,
           host.app <= Files + 1, host.app >= Files => BrokerStays(may)
    PROVE  HostKept'
<1>1. PICK h, m, k, n : h = host /\ m = may /\ k = host' /\ n = may'
  OBVIOUS
<1>2. HostTyped(h, m) /\ Durable(h, m)
  BY <1>1 DEF HostKept
<1>3. h \in HostType /\ m \in MayType /\ h.app \in Nat /\ Files \in Nat /\ h.app + 1 \in Nat
  BY <1>2, GenerationsAssumption DEF HostTyped, HostType
<1>4. /\ k \in HostType /\ k.app = h.app + 1 /\ k.executor = h.executor
      /\ k.broker = h.broker /\ k.static = h.static /\ k.runtime = h.runtime /\ k.unit = h.unit
      /\ n \in MayType /\ n.app = m.app \cup {h.app + 1} /\ n.executor = m.executor
      /\ n.broker = m.broker /\ n.static = m.static /\ n.unit = m.unit
  BY <1>1, <1>3, ShowApp
<1>5. k.app <= Files + 2
  BY <1>1, <1>3, <1>4
<1>6. HostTyped(k, n)
  BY <1>2, <1>4, <1>5 DEF HostTyped
<1>7. BrokerStays(m) <=> BrokerStays(n)
  BY <1>4 DEF BrokerStays
<1>8. \A a \in n.app : a \in Nat /\ a <= k.app
  BY <1>2, <1>3, <1>4 DEF Durable, MayType
<1>9. \A e \in n.executor, a \in n.app : e >= 1 => a >= Files
  <2>1. h.app \in m.app
    BY <1>2 DEF HostTyped
  <2>2. \A e \in m.executor, a \in m.app : e >= 1 => a >= Files
    BY <1>2 DEF Durable
  <2> QED
    BY <1>3, <1>4, <2>1, <2>2
<1>10. \A a \in n.app : a > Files => BrokerStays(n)
  BY <1>1, <1>2, <1>3, <1>4, <1>7 DEF Durable
<1>11. Durable(k, n)
  BY <1>2, <1>4, <1>7, <1>8, <1>9, <1>10 DEF Durable
<1> QED
  BY <1>1, <1>6, <1>11, NoStageFacts DEF HostKept, StageKept

\* The executor's next configuration.
LEMMA ExecutorReplaced ==
    ASSUME HostKept, Show("executor", host.executor + 1), stage' = NoStage,
           host.executor <= 2, \A a \in may.app : a >= Files,
           host.executor >= 1 => BrokerStays(may)
    PROVE  HostKept'
<1>1. PICK h, m, k, n : h = host /\ m = may /\ k = host' /\ n = may'
  OBVIOUS
<1>2. HostTyped(h, m) /\ Durable(h, m)
  BY <1>1 DEF HostKept
<1>3. h \in HostType /\ m \in MayType /\ h.executor \in 0..2 /\ h.executor + 1 \in 0..3
  BY <1>1, <1>2 DEF HostTyped, HostType
<1>4. /\ k \in HostType /\ k.app = h.app /\ k.executor = h.executor + 1
      /\ k.broker = h.broker /\ k.static = h.static /\ k.runtime = h.runtime /\ k.unit = h.unit
      /\ n \in MayType /\ n.app = m.app /\ n.executor = m.executor \cup {h.executor + 1}
      /\ n.broker = m.broker /\ n.static = m.static /\ n.unit = m.unit
  BY <1>1, <1>3, ShowExecutor
<1>5. HostTyped(k, n)
  BY <1>2, <1>4 DEF HostTyped
<1>6. BrokerStays(m) <=> BrokerStays(n)
  BY <1>4 DEF BrokerStays
<1>7. \A e \in n.executor : e <= k.executor
  BY <1>2, <1>3, <1>4 DEF Durable, MayType
<1>8. \A e \in n.executor : e > 1 => BrokerStays(n)
  BY <1>1, <1>2, <1>3, <1>4, <1>6 DEF Durable
<1>9. Durable(k, n)
  BY <1>1, <1>2, <1>4, <1>6, <1>7, <1>8 DEF Durable
<1> QED
  BY <1>1, <1>5, <1>9, NoStageFacts DEF HostKept, StageKept

\* A broker configuration, the first or a later one.
LEMMA BrokerReplaced ==
    ASSUME HostKept, NEW b \in Brokers, Show("broker", b), stage' = NoStage,
           b.gen >= 1, b.sha \in Shas, may.static = {Names},
           b.gen > 1 => BrokerStays(may)
    PROVE  HostKept'
<1>1. PICK h, m, k, n : h = host /\ m = may /\ k = host' /\ n = may'
  OBVIOUS
<1>2. HostTyped(h, m) /\ Durable(h, m)
  BY <1>1 DEF HostKept
<1>3. h \in HostType /\ m \in MayType
  BY <1>1, <1>2 DEF HostTyped
<1>4. /\ k \in HostType /\ k.app = h.app /\ k.executor = h.executor
      /\ k.broker = b /\ k.static = h.static /\ k.runtime = h.runtime /\ k.unit = h.unit
      /\ n \in MayType /\ n.app = m.app /\ n.executor = m.executor
      /\ n.broker = m.broker \cup {b} /\ n.static = m.static /\ n.unit = m.unit
  BY <1>1, <1>3, ShowBroker
<1>5. b.gen # 0
  BY DEF Brokers
<1>6. HostTyped(k, n)
  BY <1>2, <1>4, <1>5 DEF HostTyped
<1>7. BrokerStays(m) => BrokerStays(n)
  BY <1>4 DEF BrokerStays
<1>8. Durable(k, n)
  BY <1>1, <1>2, <1>4, <1>7 DEF Durable
<1> QED
  BY <1>1, <1>6, <1>8, NoStageFacts DEF HostKept, StageKept

\* A file of the final update.
LEMMA FinalReplaceIsSound ==
    ASSUME GenerationsInv, Replace, run.op = "final"
    PROVE  HostKept' /\ OrderKept' /\ run.at \in {"app", "executor"}
<1>1. run.pc = "replace" /\ stage' = NoStage /\ lost' = lost
  BY DEF Replace, World
<1>2. FinalRun(run, host, may)
  BY <1>1, RunFacts
<1>3. /\ host.executor = 0 /\ may.app = {host.app}
      /\ \/ run.at = "app" /\ host.app < Files
         \/ run.at = "executor" /\ host.app = Files
  BY <1>1, <1>2 DEF FinalRun
<1>4. HostKept /\ host \in HostType /\ may \in MayType /\ OrderKept
  BY DEF GenerationsInv, HostKept, HostTyped
<1>5. host.app \in Nat /\ Files \in Nat
  BY <1>4, GenerationsAssumption DEF HostType
<1>6. CASE run.at = "app"
  <2>1. Show("app", host.app + 1)
    BY <1>6 DEF Replace, Replacement
  <2>2. host.app < Files /\ host.app <= Files + 1 /\ ~(host.app >= Files) /\ host.app + 1 <= Files
    BY <1>3, <1>5, <1>6
  <2>3. HostKept'
    BY <1>1, <1>4, <2>1, <2>2, AppReplaced
  <2>4. PICK k : k = host'
    OBVIOUS
  <2>5. k.app = host.app + 1 /\ k.executor = 0 /\ k.broker = host.broker /\ k.unit = host.unit
        /\ k.static = host.static
    BY <1>3, <1>4, <1>5, <2>1, <2>4, ShowApp
  <2>6. ~lost => host.broker.gen = 0 /\ RootLast(host)
    BY <1>3, <1>4 DEF OrderKept, InOrder, Chain
  <2>7. ~lost => InOrder(k, NoStage)
    BY <1>5, <2>2, <2>5, <2>6 DEF InOrder, Chain, RootLast
  <2>8. OrderKept'
    BY <1>1, <2>4, <2>7 DEF OrderKept
  <2> QED
    BY <1>6, <2>3, <2>8
<1>7. CASE run.at = "executor"
  <2>1. Show("executor", host.executor + 1)
    BY <1>7 DEF Replace, Replacement
  <2>2. host.app = Files /\ host.executor <= 2 /\ ~(host.executor >= 1) /\ host.executor + 1 \in 0..3
        /\ host.executor + 1 = 1
    BY <1>3, <1>7
  <2>3. \A a \in may.app : a >= Files
    BY <1>3, <1>5, <2>2
  <2>4. HostKept'
    BY <1>1, <1>4, <2>1, <2>2, <2>3, ExecutorReplaced
  <2>5. PICK k : k = host'
    OBVIOUS
  <2>6. k.app = Files /\ k.executor = 1 /\ k.broker = host.broker /\ k.unit = host.unit
        /\ k.static = host.static
    BY <1>4, <2>1, <2>2, <2>5, ShowExecutor
  <2>7. ~lost => host.broker.gen = 0 /\ RootLast(host)
    BY <1>3, <1>4 DEF OrderKept, InOrder, Chain
  <2>8. ~lost => InOrder(k, NoStage)
    BY <1>5, <2>6, <2>7 DEF InOrder, Chain, RootLast
  <2>9. OrderKept'
    BY <1>1, <2>5, <2>8 DEF OrderKept
  <2> QED
    BY <1>7, <2>4, <2>9
<1> QED
  BY <1>3, <1>6, <1>7

\* A file of a migration.
LEMMA MigrationReplaceIsSound ==
    ASSUME GenerationsInv, Replace, run.op \in Migrations
    PROVE  /\ HostKept' /\ OrderKept' /\ run.at \in {"app", "executor", "broker"}
           /\ run.op = "successor" => host'.broker.sha = host.broker.sha
           /\ run.op = "state_store" => host'.app = Files + 2
<1>1. run.pc = "replace" /\ stage' = NoStage /\ lost' = lost
  BY DEF Replace, World
<1>2. MigrationRun(run, host, stage, temps) /\ run.sha \in Shas
  BY <1>1, RunFacts
<1>3. PICK g : g = Target(run.op)
  OBVIOUS
<1>4. g \in {2, 3} /\ (g = 3 <=> run.op = "state_store") /\ (g = 2 <=> run.op = "successor")
  BY <1>3 DEF Target, Migrations
<1>5. /\ host.unit = 1
      /\ host.broker.gen = g - 1
      /\ g = 3 => host.broker.sha = PREDECESSOR_WORKFLOW_SHA
      /\ \/ run.at = "app" /\ host.app = Files + g - 2 /\ host.executor = g - 1
         \/ run.at = "executor" /\ host.app = Files + g - 1 /\ host.executor = g - 1
         \/ run.at = "broker" /\ host.app = Files + g - 1 /\ host.executor = g
  BY <1>1, <1>2, <1>3 DEF MigrationRun
<1>6. HostKept /\ host \in HostType /\ may \in MayType /\ OrderKept
  BY DEF GenerationsInv, HostKept, HostTyped
<1>7. host.app \in Nat /\ Files \in Nat /\ host.executor \in 0..3
  BY <1>6, GenerationsAssumption DEF HostType
<1>8. BrokerStays(may)
  BY <1>5, <1>6, UnitNeedsBroker
<1>9. may.static = {Names} /\ host.static = Names
  BY <1>4, <1>5, <1>6 DEF HostKept, HostTyped, Durable
<1>10. \A a \in may.app : a >= Files
  <2>1. host.executor \in may.executor /\ host.executor >= 1
    BY <1>4, <1>5, <1>6 DEF HostKept, HostTyped
  <2> QED
    BY <1>6, <2>1 DEF HostKept, Durable
<1>11. host.broker.sha \in Shas
  BY <1>4, <1>5, <1>6 DEF HostKept, HostTyped
<1>12. CASE run.at = "app"
  <2>1. Show("app", host.app + 1)
    BY <1>12 DEF Replace, Replacement
  <2>2. host.app = Files + g - 2 /\ host.executor = g - 1
    BY <1>5, <1>12
  <2>3. HostKept'
    BY <1>1, <1>4, <1>6, <1>7, <1>8, <2>1, <2>2, AppReplaced
  <2>4. PICK k : k = host'
    OBVIOUS
  <2>5. k.app = host.app + 1 /\ k.executor = g - 1 /\ k.broker = host.broker /\ k.unit = 1
        /\ k.static = host.static
    BY <1>5, <1>6, <1>7, <2>1, <2>2, <2>4, ShowApp
  <2>6. k.app = Files + g - 1
    BY <1>4, <1>7, <2>2, <2>5
  <2>7. InOrder(k, NoStage)
    BY <1>4, <1>5, <1>7, <1>9, <2>5, <2>6 DEF InOrder, Chain, Predecessor, RootLast, Names
  <2>8. OrderKept'
    BY <1>1, <2>4, <2>7 DEF OrderKept
  <2> QED
    BY <1>4, <1>7, <1>12, <2>3, <2>4, <2>5, <2>6, <2>8
<1>13. CASE run.at = "executor"
  <2>1. Show("executor", host.executor + 1)
    BY <1>13 DEF Replace, Replacement
  <2>2. host.app = Files + g - 1 /\ host.executor = g - 1
    BY <1>5, <1>13
  <2>3. host.executor + 1 = g /\ host.executor + 1 \in 0..3 /\ host.executor <= 2
    BY <1>4, <2>2
  <2>4. HostKept'
    BY <1>1, <1>6, <1>8, <1>10, <2>1, <2>3, ExecutorReplaced
  <2>5. PICK k : k = host'
    OBVIOUS
  <2>6. k.app = Files + g - 1 /\ k.executor = g /\ k.broker = host.broker /\ k.unit = 1
        /\ k.static = host.static
    BY <1>5, <1>6, <2>1, <2>2, <2>3, <2>5, ShowExecutor
  <2>7. InOrder(k, NoStage)
    BY <1>4, <1>5, <1>7, <1>9, <2>6 DEF InOrder, Chain, Predecessor, RootLast, Names
  <2>8. OrderKept'
    BY <1>1, <2>5, <2>7 DEF OrderKept
  <2> QED
    BY <1>4, <1>7, <1>13, <2>4, <2>5, <2>6, <2>8
<1>14. CASE run.at = "broker"
  <2>1. PICK b : b = BrokerOf(g, stage.sha)
    OBVIOUS
  <2>2. stage.sha \in Shas /\ (run.op = "successor" => stage.sha = host.broker.sha)
    BY <1>1, <1>2, <1>11, <1>14 DEF MigrationRun
  <2>3. b \in Brokers /\ b.gen = g /\ b.sha = stage.sha
    BY <1>4, <2>1, <2>2 DEF BrokerOf, SuccessorBroker, StateStoreBroker, Brokers
  <2>4. Show("broker", b)
    BY <1>3, <1>14, <2>1 DEF Replace, Replacement
  <2>5. host.app = Files + g - 1 /\ host.executor = g
    BY <1>5, <1>14
  <2>6. HostKept'
    BY <1>1, <1>4, <1>6, <1>8, <1>9, <2>2, <2>3, <2>4, BrokerReplaced
  <2>7. PICK k : k = host'
    OBVIOUS
  <2>8. k.app = Files + g - 1 /\ k.executor = g /\ k.broker = b /\ k.unit = 1
        /\ k.static = host.static
    BY <1>5, <1>6, <2>3, <2>4, <2>5, <2>7, ShowBroker
  <2>9. InOrder(k, NoStage)
    BY <1>4, <1>7, <1>9, <2>3, <2>8 DEF InOrder, Chain, RootLast, Names
  <2>10. OrderKept'
    BY <1>1, <2>7, <2>9 DEF OrderKept
  <2> QED
    BY <1>4, <1>7, <1>14, <2>2, <2>3, <2>6, <2>7, <2>8, <2>10
<1> QED
  BY <1>5, <1>12, <1>13, <1>14

\* The rename of a stage.
LEMMA ReplaceIsSound ==
    ASSUME GenerationsInv, Replace PROVE GenerationsInv'
<1>1. run.pc = "replace" /\ run.op \in Migrations \cup {"final"}
  BY StepsOfOperations DEF Replace
<1>2. run \in RunType /\ run.sha \in Shas
  BY <1>1, RunFacts
<1>3. UNCHANGED <<temps, report, incarnation, lost>>
  BY DEF Replace, World
<1>4. incarnation \in Nat /\ "sync" \in Steps
  BY DEF GenerationsInv, Steps, FinalSteps
<1>5. Continues /\ run'.pc = "sync" /\ run'.at = run.at /\ run'.used = run.used \cup {incarnation}
  BY <1>2, <1>4, UseFacts DEF Replace
<1>6. CASE run.op = "final"
  <2>1. HostKept' /\ OrderKept' /\ run.at \in {"app", "executor"}
    BY <1>6, FinalReplaceIsSound
  <2>2. FinalRun(run', host', may')
    BY <1>5, <2>1 DEF FinalRun, FinalSteps
  <2>3. Progress(run', host', may', stage', temps')
    BY <1>2, <1>5, <1>6, <2>2 DEF Progress, Continues
  <2> QED
    BY <1>1, <1>3, <1>4, <1>5, <2>1, <2>3, RunGoesOn
<1>7. CASE run.op \in Migrations
  <2>1. /\ HostKept' /\ OrderKept' /\ run.at \in {"app", "executor", "broker"}
        /\ run.op = "successor" => host'.broker.sha = host.broker.sha
        /\ run.op = "state_store" => host'.app = Files + 2
    BY <1>7, MigrationReplaceIsSound
  <2>2. run.op = "successor" => host.broker.sha = run.was.broker.sha
    BY <1>1, <1>7, RunFacts DEF MigrationRun
  <2>3. MigrationRun(run', host', stage', temps')
    BY <1>5, <2>1, <2>2 DEF MigrationRun, MigrationSteps, Continues
  <2>4. Progress(run', host', may', stage', temps')
    BY <1>2, <1>5, <1>7, <2>3 DEF Progress, Continues
  <2> QED
    BY <1>1, <1>3, <1>4, <1>5, <2>1, <2>4, RunGoesOn
<1> QED
  BY <1>1, <1>6, <1>7

-----------------------------------------------------------------------------
(* The ends of the final update and of the migrations. *)

\* A directory is synced after each replacement.
LEMMA SyncReplacementIsSound ==
    ASSUME GenerationsInv, SyncReplacement PROVE GenerationsInv'
<1>1. run.pc = "sync" /\ run.op \in Migrations \cup {"final"}
  BY StepsOfOperations DEF SyncReplacement
<1>2. run \in RunType /\ run.sha \in Shas
  BY <1>1, RunFacts
<1>3. HostKept /\ host \in HostType /\ may \in MayType
  BY DEF GenerationsInv, HostKept, HostTyped
<1>4. Sync({run.at}) /\ UNCHANGED <<stage, temps, report, incarnation, lost>>
  BY DEF SyncReplacement, World
<1>5. host' = host
  BY <1>3, <1>4, SyncFacts
<1>6. PICK q : q = IF run.op = "state_store" THEN "after" ELSE "inspect"
  OBVIOUS
<1>7. q \in Steps
  BY <1>6 DEF Steps, FinalSteps, MigrationSteps
<1>8. Continues /\ run'.pc = q /\ run'.at = run.at /\ run'.used = run.used
  BY <1>2, <1>6, <1>7, StepFacts DEF SyncReplacement, Goto
<1>9. HostKept' /\ OrderKept'
  BY <1>3, <1>4, <1>5, SyncKeepsHost DEF GenerationsInv, OrderKept
<1>10. Progress(run', host', may', stage', temps')
  <2>1. CASE run.op = "final"
    <3>1. FinalRun(run', host', may')
      BY <1>6, <1>8, <2>1 DEF FinalRun, FinalSteps
    <3> QED
      BY <1>2, <1>6, <1>8, <2>1, <3>1 DEF Progress, Continues
  <2>2. CASE run.op \in Migrations
    <3>1. MigrationRun(run, host, stage, temps)
      BY <1>1, <2>2, RunFacts
    <3>2. MigrationRun(run', host', stage', temps')
      BY <1>1, <1>5, <1>6, <1>8, <3>1 DEF MigrationRun, MigrationSteps, Continues
    <3> QED
      BY <1>2, <1>6, <1>8, <2>2, <3>2 DEF Progress, Continues
  <2> QED
    BY <1>1, <2>1, <2>2
<1>11. incarnation' \in Nat /\ incarnation' >= incarnation
  BY <1>4 DEF GenerationsInv
<1> QED
  BY <1>1, <1>4, <1>8, <1>9, <1>10, <1>11, RunGoesOn

\* The final update reports a durable executor configuration.
LEMMA FinalDoneIsSound ==
    ASSUME GenerationsInv, FinalDone PROVE GenerationsInv'
<1>1. run.pc = "sync_config" /\ run.op = "final"
  BY StepsOfOperations DEF FinalDone
<1>2. run \in RunType /\ host.executor = 1
  BY <1>1, RunFacts DEF FinalRun
<1>3. HostKept /\ host \in HostType /\ may \in MayType
  BY DEF GenerationsInv, HostKept, HostTyped
<1>4. Sync({"executor"}) /\ End(TRUE) /\ UNCHANGED <<stage, incarnation, lost>>
  BY DEF FinalDone, World
<1>5. host' = host /\ may'.executor = {1}
  BY <1>2, <1>3, <1>4, SyncFacts
<1>6. HostKept' /\ OrderKept'
  BY <1>3, <1>4, <1>5, SyncKeepsHost DEF GenerationsInv, OrderKept
<1>7. run' = Idle /\ report' \in ReportType /\ report'.op = "final"
  BY <1>1, <1>2, <1>4, EndFacts
<1>8. Promised(report', host', may')
  BY <1>5, <1>7 DEF Promised, Operations, Migrations
<1>9. Unless'
  BY <1>7 DEF Unless, Migrations, Rotations
<1>10. incarnation' \in Nat /\ lost' \in BOOLEAN
  BY <1>4 DEF GenerationsInv
<1> QED
  BY <1>6, <1>7, <1>8, <1>9, <1>10, RunEnds

\* A description of the host holds for as long as the host is the same.
LEMMA DescribedStays ==
    ASSUME host' = host, NEW r, Described(r), report' = r
    PROVE  Described(report)'
  BY DEF Described, AppGeneration, StateStoreApplication, SuccessorApplication,
     FinalApplication, BrokerIs

\* Nor do the runtime directories matter to it.
LEMMA DescribedWithout ==
    ASSUME host \in HostType, host' \in HostType,
           host'.app = host.app, host'.executor = host.executor, host'.broker = host.broker,
           host'.static = host.static, host'.unit = host.unit,
           NEW r \in ReportType, r.op \in Operations, Described(r), report' = r
    PROVE  Described(report)'
<1>1. PICK h, k : h = host /\ k = host'
  OBVIOUS
<1>2. CASE r.op \in Rotations
  <2>1. h = [r.was EXCEPT !.broker.sha = r.sha, !.runtime = h.runtime]
    BY <1>1, <1>2 DEF Described, Rotations
  <2>2. k = [h EXCEPT !.runtime = k.runtime]
    BY <1>1 DEF HostType
  <2>3. r.was \in HostType
    BY DEF ReportType
  <2>4. k = [r.was EXCEPT !.broker.sha = r.sha, !.runtime = k.runtime]
    BY <2>1, <2>2, <2>3 DEF HostType
  <2> QED
    BY <1>1, <1>2, <2>4 DEF Described, Rotations
<1>3. CASE r.op \notin Rotations
  BY <1>3 DEF Described, AppGeneration, StateStoreApplication, SuccessorApplication,
     FinalApplication, BrokerIs, Operations, Migrations
<1> QED
  BY <1>2, <1>3

\* What was published under the incarnation that is still there was published
\* under the one seen at the start.
LEMMA SeenOnly ==
    ASSUME GenerationsInv, incarnation = run.seen
    PROVE  run.used \subseteq {run.seen}
<1>1. run \in RunType /\ Witnessed(run, incarnation)
  BY DEF GenerationsInv, Progress
<1>2. \A u \in run.used : u \in Nat /\ run.seen <= u /\ u <= run.seen
  BY <1>1 DEF Witnessed, RunType
<1>3. run.seen \in Nat
  BY <1>1 DEF RunType
<1> QED
  BY <1>2, <1>3

\* A migration is complete, or its one step has been taken.
LEMMA MigrationDoneIsSound ==
    ASSUME GenerationsInv, MigrationDone PROVE GenerationsInv'
<1>1. /\ run.pc \in {"inspect", "after"} /\ run.op \in Migrations
      /\ MigrationQualified(run.op, run.sha) /\ RuntimeUnchanged
      /\ run.pc = "inspect" => Phase(run.op, run.sha) = "complete"
  BY DEF MigrationDone
<1>2. run \in RunType /\ MigrationRun(run, host, stage, temps) /\ run.op \in Operations
  BY <1>1, RunFacts
<1>3. HostKept /\ host \in HostType /\ host.app <= Files + 2
  BY DEF GenerationsInv, HostKept, HostTyped
<1>4. End(TRUE) /\ UNCHANGED <<host, may, stage, incarnation, lost>>
  BY DEF MigrationDone, World
<1>5. HostKept' /\ OrderKept'
  BY <1>4, SameHost
<1>6. PICK r : r = report'
  OBVIOUS
<1>7. /\ run' = Idle /\ r \in ReportType /\ r.op = run.op /\ r.sha = run.sha
      /\ r.was = run.was /\ r.used = run.used /\ r.seen = run.seen
  BY <1>2, <1>4, <1>6, EndFacts
<1>8. r.used \subseteq {r.seen}
  BY <1>1, <1>7, SeenOnly DEF RuntimeUnchanged
<1>9. Promised(r, host', may')
  BY <1>1, <1>2, <1>7, <1>8 DEF Promised, Migrations
<1>10. Phase(run.op, run.sha) # "rejected"
  BY <1>1 DEF MigrationQualified, Inspect
<1>11. Described(r)
  <2>1. CASE run.op = "successor"
    <3>1. run.pc = "inspect" /\ Phase(run.op, run.sha) = "complete" /\ Target(run.op) = 2
      BY <1>1, <1>2, <2>1 DEF MigrationRun, Target
    <3>2. host.app = Files + 1 /\ host.executor = 2
          /\ host.broker = BrokerOf(2, host.broker.sha)
      BY <1>1, <1>3, <1>10, <3>1, PhaseFacts, GenerationsAssumption
    <3>3. AppGeneration = 2
      BY <1>3, <3>2, ApplicationFacts
    <3>4. host.broker.sha = r.was.broker.sha
      BY <1>2, <1>7, <2>1 DEF MigrationRun
    <3>5. BrokerIs(2, r.was.broker.sha)
      BY <3>2, <3>4 DEF BrokerIs
    <3> QED
      BY <1>7, <2>1, <3>2, <3>3, <3>5 DEF Described, Rotations
  <2>2. CASE run.op = "state_store"
    <3>1. Target(run.op) = 3
      BY <2>2 DEF Target
    <3>2. host.app = Files + 2
      <4>1. CASE run.pc = "after"
        BY <1>2, <2>2, <4>1 DEF MigrationRun
      <4>2. CASE run.pc = "inspect"
        BY <1>1, <1>3, <1>10, <3>1, <4>2, PhaseFacts, GenerationsAssumption
      <4> QED
        BY <1>1, <4>1, <4>2
    <3>3. AppGeneration = 3
      BY <1>3, <3>2, ApplicationFacts
    <3>4. CASE Phase(run.op, run.sha) = "complete"
      <4>1. host.executor = 3 /\ host.broker = BrokerOf(3, run.sha)
        BY <1>1, <1>3, <1>10, <3>1, <3>4, PhaseFacts
      <4>2. host.broker.gen = 3
        BY <4>1 DEF BrokerOf, StateStoreBroker
      <4>3. BrokerIs(3, r.sha)
        BY <1>7, <4>1 DEF BrokerIs
      <4> QED
        BY <1>7, <2>2, <3>3, <4>1, <4>2, <4>3 DEF Described, Rotations
    <3>5. CASE Phase(run.op, run.sha) # "complete"
      <4>1. host.broker.gen = 2 /\ host.broker.sha = PREDECESSOR_WORKFLOW_SHA
        BY <1>1, <1>3, <1>10, <3>1, <3>5, PhaseFacts
      <4>2. host.broker \in Brokers
        BY <1>3 DEF HostType
      <4>3. BrokerIs(2, PREDECESSOR_WORKFLOW_SHA)
        BY <4>1, <4>2 DEF BrokerIs, BrokerOf, SuccessorBroker, Brokers
      <4> QED
        BY <1>7, <2>2, <3>3, <4>1, <4>3 DEF Described, Rotations
    <3> QED
      BY <3>4, <3>5
  <2> QED
    BY <1>1, <2>1, <2>2 DEF Migrations
<1>12. Unless'
  BY <1>4, <1>6, <1>11, DescribedStays DEF Unless
<1>13. incarnation' \in Nat /\ lost' \in BOOLEAN
  BY <1>4 DEF GenerationsInv
<1> QED
  BY <1>5, <1>6, <1>7, <1>9, <1>12, <1>13, RunEnds

-----------------------------------------------------------------------------
(* provision_final_dev_broker_resources. *)

\* Resources are provisioned on the complete final generation only.
LEMMA ResourceGoesOn ==
    ASSUME GenerationsInv, run.pc \in ResourceSteps, Continues, run'.used = run.used,
           UNCHANGED <<report, incarnation, lost>>,
           HostKept', ~lost => RootLast(host'), ResourceRun(run', host', may', stage')
    PROVE  GenerationsInv'
<1>1. run.op = "resources" /\ run.pc # "idle"
  BY StepsOfOperations DEF ResourceSteps, PublicationSteps, DirectorySteps
<1>2. run.sha \in Shas
  BY <1>1, RunFacts
<1>3. PICK k, r : k = host' /\ r = run'
  OBVIOUS
<1>4. k.executor = 1 /\ k.app = Files /\ stage' = NoStage
      /\ (k.broker.gen = 0 \/ k.broker = FinalBroker(r.sha))
  BY <1>3 DEF ResourceRun
<1>5. k.broker.gen \in {0, 1}
  BY <1>4 DEF FinalBroker
<1>6. ~lost => InOrder(k, NoStage)
  BY <1>3, <1>4, <1>5, GenerationsAssumption DEF InOrder, Chain
<1>7. OrderKept'
  BY <1>3, <1>4, <1>6 DEF OrderKept
<1>8. run'.pc # "idle"
  BY DEF ResourceRun, ResourceSteps, PublicationSteps, DirectorySteps
<1>9. Progress(run', host', may', stage', temps')
  BY <1>1, <1>2, <1>8 DEF Progress, Continues
<1>10. incarnation' \in Nat /\ incarnation' >= incarnation
  BY DEF GenerationsInv
<1> QED
  BY <1>1, <1>7, <1>9, <1>10, RunGoesOn

\* What is known at each step of it.
LEMMA ResourceFacts ==
    ASSUME GenerationsInv, run.pc \in ResourceSteps
    PROVE  /\ run.op = "resources" /\ run.pc # "idle" /\ run \in RunType /\ run.sha \in Shas
           /\ ResourceRun(run, host, may, stage)
           /\ HostKept /\ HostTyped(host, may) /\ host \in HostType /\ may \in MayType
           /\ Durable(host, may) /\ (~lost => RootLast(host))
<1>1. run.op = "resources" /\ run.pc # "idle"
  BY StepsOfOperations DEF ResourceSteps, PublicationSteps, DirectorySteps
<1> QED
  BY <1>1, RunFacts DEF GenerationsInv, HostKept, HostTyped, OrderKept, InOrder

\* A directory is made.
LEMMA MakeDirectoryIsSound ==
    ASSUME GenerationsInv, MakeDirectory PROVE GenerationsInv'
<1>1. run.pc \in {"directories", "leaf"} /\ run.pc \in ResourceSteps
      /\ "own" \in Steps /\ "own" \in ResourceSteps /\ "own" \notin PublicationSteps
  BY DEF MakeDirectory, Steps, ResourceSteps, DirectorySteps, PublicationSteps
<1>2. run \in RunType /\ ResourceRun(run, host, may, stage) /\ (~lost => RootLast(host))
  BY <1>1, ResourceFacts
<1>3. PICK a : /\ run' = [run EXCEPT !.pc = "own", !.at = a]
               /\ \/ a = "config" /\ "config" \notin host.static
                  \/ a = "runtime" /\ host.runtime < Directories
                  \/ a = "tools" /\ run.pc = "leaf"
  BY DEF MakeDirectory, GotoAt, NextDirectory
<1>4. a \in Places
  BY <1>3 DEF Places, Names
<1>5. Continues /\ run'.pc = "own" /\ run'.at = a /\ run'.used = run.used
  BY <1>1, <1>2, <1>3, <1>4, GotoFacts
<1>6. UNCHANGED <<host, may, stage, report, incarnation, lost>>
  BY DEF MakeDirectory, World
<1>7. PICK p, r : p = run' /\ r = run
  OBVIOUS
<1>8. p.pc = "own" /\ p.at = a /\ p.sha = r.sha
  BY <1>5, <1>7 DEF Continues
<1>9. a = "tools" => "tools" \notin host.static /\ "config" \in host.static
  BY <1>2, <1>3 DEF ResourceRun
<1>10. /\ host.executor = 1 /\ host.app = Files /\ stage = NoStage
       /\ host.broker.gen = 0 \/ host.broker = FinalBroker(r.sha)
  BY <1>2, <1>7 DEF ResourceRun
<1>11. ResourceRun(p, host, may, stage)
  BY <1>1, <1>3, <1>8, <1>9, <1>10 DEF ResourceRun
<1> QED
  BY <1>1, <1>2, <1>5, <1>6, <1>7, <1>11, SameHost, ResourceGoesOn

\* It gets its owner and mode, and the next run would accept it now.
LEMMA OwnDirectoryIsSound ==
    ASSUME GenerationsInv, OwnDirectory PROVE GenerationsInv'
<1>1. run.pc = "own" /\ run.pc \in ResourceSteps /\ "directory_sync" \in Steps
      /\ "directory_sync" \in ResourceSteps /\ "directory_sync" \notin PublicationSteps
  BY DEF OwnDirectory, Steps, ResourceSteps, DirectorySteps, PublicationSteps
<1>2. /\ run \in RunType /\ ResourceRun(run, host, may, stage) /\ (~lost => RootLast(host))
      /\ HostKept /\ HostTyped(host, may) /\ host \in HostType /\ may \in MayType
  BY <1>1, ResourceFacts
<1>3. Continues /\ run'.pc = "directory_sync" /\ run'.at = run.at /\ run'.used = run.used
  BY <1>1, <1>2, StepFacts DEF OwnDirectory, Goto
<1>4. UNCHANGED <<stage, report, incarnation, lost>>
  BY DEF OwnDirectory, World
<1>5. PICK h, m, k, n, r, p : h = host /\ m = may /\ k = host' /\ n = may' /\ r = run /\ p = run'
  OBVIOUS
<1>6. /\ r.pc = "own" /\ p.pc = "directory_sync" /\ p.at = r.at /\ p.sha = r.sha
      /\ r.at \in {"config", "runtime", "tools"} /\ stage = NoStage
      /\ h.executor = 1 /\ h.app = Files /\ (h.broker.gen = 0 \/ h.broker = FinalBroker(r.sha))
      /\ r.at = "runtime" => h.runtime < Directories
      /\ r.at # "runtime" => r.at \notin h.static
      /\ r.at = "tools" => "config" \in h.static
  BY <1>1, <1>2, <1>3, <1>5 DEF ResourceRun, Continues
<1>7. CASE run.at = "runtime"
  <2>1. host' = [host EXCEPT !.runtime = host.runtime + 1] /\ may' = may
    BY <1>7 DEF OwnDirectory
  <2>2. /\ k \in HostType /\ k.app = h.app /\ k.executor = h.executor
        /\ k.broker = h.broker /\ k.static = h.static
        /\ k.runtime = h.runtime + 1 /\ k.unit = h.unit
    BY <1>2, <1>5, <2>1 DEF HostType
  <2>3. h.runtime \in Nat /\ Directories \in Nat
    BY <1>2, <1>5, GenerationsAssumption DEF HostType
  <2>4. k.runtime <= Directories /\ k.runtime > 0
    BY <1>5, <1>6, <1>7, <2>2, <2>3
  <2>5. HostKept'
    BY <1>2, <1>4, <1>5, <2>1, <2>2, <2>4, StaticChanged DEF HostTyped
  <2>6. ResourceRun(p, k, n, NoStage)
    BY <1>1, <1>5, <1>6, <1>7, <2>2, <2>4 DEF ResourceRun
  <2>7. ~lost => RootLast(k)
    BY <1>2, <1>5, <2>2 DEF RootLast
  <2> QED
    BY <1>1, <1>3, <1>4, <1>5, <1>6, <2>5, <2>6, <2>7, ResourceGoesOn
<1>8. CASE run.at \in {"config", "tools"}
  <2>1. Place(run.at) /\ run.at \in Names /\ run.at \notin host.static
        /\ Holder(run.at) \subseteq host.static
    BY <1>5, <1>6, <1>8 DEF OwnDirectory, Names, Holder
  <2>2. HostKept' /\ n.static # {Names}
    BY <1>2, <1>4, <1>5, <2>1, NamePlaced
  <2>3. /\ k.app = h.app /\ k.executor = h.executor
        /\ k.broker = h.broker /\ k.static = h.static \cup {r.at}
    BY <1>2, <1>5, <2>1, PlaceFacts
  <2>4. ResourceRun(p, k, n, NoStage)
    BY <1>1, <1>5, <1>6, <1>8, <2>2, <2>3 DEF ResourceRun
  <2>5. ~lost => RootLast(k)
    BY <1>2, <1>5, <1>8, <2>3 DEF RootLast
  <2> QED
    BY <1>1, <1>3, <1>4, <1>5, <1>6, <2>2, <2>4, <2>5, ResourceGoesOn
<1> QED
  BY <1>5, <1>6, <1>7, <1>8

\* The directory that it is in is synced.
LEMMA SyncDirectoryIsSound ==
    ASSUME GenerationsInv, SyncDirectory PROVE GenerationsInv'
<1>1. run.pc = "directory_sync" /\ run.pc \in ResourceSteps
      /\ {"publish", "directories"} \subseteq Steps \cap ResourceSteps
      /\ "publish" \in PublicationSteps /\ "directories" \notin PublicationSteps
      /\ {"none", "cosign"} \subseteq Places /\ "tools" \in Names
  BY DEF SyncDirectory, Steps, ResourceSteps, DirectorySteps, PublicationSteps, Places, Names
<1>2. /\ run \in RunType /\ ResourceRun(run, host, may, stage) /\ (~lost => RootLast(host))
      /\ HostKept /\ host \in HostType /\ may \in MayType
  BY <1>1, ResourceFacts
<1>3. UNCHANGED <<stage, report, incarnation, lost>>
  BY DEF SyncDirectory, World
<1>4. run.at \in {"config", "runtime", "tools"}
  BY <1>1, <1>2 DEF ResourceRun
<1>5. HostKept' /\ host' = host
  <2>1. CASE run.at = "runtime"
    BY <1>3, <2>1, SameHost DEF SyncDirectory
  <2>2. CASE run.at # "runtime"
    <3>1. SyncName(run.at) /\ run.at \in Names
      BY <1>4, <2>2 DEF SyncDirectory, Names
    <3> QED
      BY <1>2, <1>3, <3>1, NameSynced
  <2> QED
    BY <2>1, <2>2
<1>6. PICK r, p : r = run /\ p = run'
  OBVIOUS
<1>7. /\ host.executor = 1 /\ host.app = Files /\ stage = NoStage
      /\ host.broker.gen = 0 \/ host.broker = FinalBroker(r.sha)
      /\ run.at = "tools" => "tools" \in host.static /\ "config" \in host.static
  BY <1>1, <1>2, <1>6 DEF ResourceRun
<1>8. CASE run.at = "tools"
  <2>1. Continues /\ run'.pc = "publish" /\ run'.at = "cosign" /\ run'.used = run.used
    BY <1>1, <1>2, <1>8, GotoFacts DEF SyncDirectory, GotoAt
  <2>2. p.pc = "publish" /\ p.at = "cosign" /\ p.sha = r.sha
    BY <1>6, <2>1 DEF Continues
  <2>3. ResourceRun(p, host, may', stage)
    BY <1>1, <1>7, <1>8, <2>2 DEF ResourceRun
  <2> QED
    BY <1>1, <1>2, <1>3, <1>5, <1>6, <2>1, <2>3, ResourceGoesOn
<1>9. CASE run.at # "tools"
  <2>1. Continues /\ run'.pc = "directories" /\ run'.at = "none" /\ run'.used = run.used
    BY <1>1, <1>2, <1>9, GotoFacts DEF SyncDirectory, GotoAt
  <2>2. p.pc = "directories" /\ p.at = "none" /\ p.sha = r.sha
    BY <1>6, <2>1 DEF Continues
  <2>3. ResourceRun(p, host, may', stage)
    BY <1>1, <1>7, <1>9, <2>2 DEF ResourceRun
  <2> QED
    BY <1>1, <1>2, <1>3, <1>5, <1>6, <2>1, <2>3, ResourceGoesOn
<1> QED
  BY <1>8, <1>9

\* The publications begin once every directory is there.
LEMMA DirectoriesReadyIsSound ==
    ASSUME GenerationsInv, DirectoriesReady PROVE GenerationsInv'
<1>1. run.pc = "directories" /\ run.pc \in ResourceSteps
      /\ {"publish", "leaf"} \subseteq Steps \cap ResourceSteps
      /\ "publish" \in PublicationSteps /\ "leaf" \notin PublicationSteps
      /\ "cosign" \in Places
  BY DEF DirectoriesReady, Steps, ResourceSteps, DirectorySteps, PublicationSteps, Places, Names
<1>2. run \in RunType /\ ResourceRun(run, host, may, stage) /\ (~lost => RootLast(host))
  BY <1>1, ResourceFacts
<1>3. PICK q : q = IF "tools" \in host.static THEN "publish" ELSE "leaf"
  OBVIOUS
<1>4. Continues /\ run'.pc = q /\ run'.at = "cosign" /\ run'.used = run.used
  BY <1>1, <1>2, <1>3, GotoFacts DEF DirectoriesReady, GotoAt
<1>5. UNCHANGED <<host, may, stage, report, incarnation, lost>>
  BY DEF DirectoriesReady, World
<1>6. "config" \in host.static
  BY DEF DirectoriesReady, NextDirectory
<1>7. PICK r, p : r = run /\ p = run'
  OBVIOUS
<1>8. /\ host.executor = 1 /\ host.app = Files /\ stage = NoStage
      /\ host.broker.gen = 0 \/ host.broker = FinalBroker(r.sha)
      /\ p.pc = q /\ p.at = "cosign" /\ p.sha = r.sha
  BY <1>2, <1>4, <1>7 DEF ResourceRun, Continues
<1>9. ResourceRun(p, host, may, stage)
  BY <1>1, <1>3, <1>6, <1>8 DEF ResourceRun
<1> QED
  BY <1>1, <1>2, <1>4, <1>5, <1>7, <1>9, SameHost, ResourceGoesOn

\* Where a publication leads once its file is there and its directory synced.
LEMMA NextPublication ==
    ASSUME GenerationsInv, run.pc \in {"publish", "publish_sync"},
           run.at \in Names => run.at \in host.static,
           run.at = "broker" => host.broker.gen = 1 /\ may'.broker = {host.broker},
           run.at = "unit" => host.unit = 1 /\ may'.unit = {host.unit} /\ may'.broker = may.broker,
           run.at \in {"broker", "unit"} => may'.static = may.static,
           host' = host, HostKept', UNCHANGED <<stage, report, incarnation, lost>>,
           run' = [run EXCEPT !.pc = AfterPublish(run.at).pc, !.at = AfterPublish(run.at).at]
    PROVE  GenerationsInv'
<1>1. run.pc \in ResourceSteps /\ run.pc \in PublicationSteps
  BY DEF ResourceSteps, PublicationSteps
<1>2. run \in RunType /\ ResourceRun(run, host, may, stage) /\ host \in HostType
      /\ (~lost => RootLast(host))
  BY <1>1, ResourceFacts
<1>3. run.at \in {"cosign", "root", "broker", "unit"}
  BY <1>1, <1>2 DEF ResourceRun
<1>4. PICK q, a : q = AfterPublish(run.at).pc /\ a = AfterPublish(run.at).at
  OBVIOUS
<1>5. \/ run.at = "cosign" /\ q = "publish" /\ a = "root"
      \/ run.at = "root" /\ q = "durable" /\ a = "root"
      \/ run.at = "broker" /\ q = "publish" /\ a = "unit"
      \/ run.at = "unit" /\ q = "qualify" /\ a = "none"
  BY <1>3, <1>4 DEF AfterPublish
<1>6. q \in Steps /\ a \in Places /\ q \in ResourceSteps
  BY <1>5 DEF Steps, ResourceSteps, PublicationSteps, Places, Names
<1>7. Continues /\ run'.pc = q /\ run'.at = a /\ run'.used = run.used
  BY <1>2, <1>4, <1>6, GotoFacts
<1>8. PICK h, m, n, r, p : h = host /\ m = may /\ n = may' /\ r = run /\ p = run'
  OBVIOUS
<1>9. /\ p.pc = q /\ p.at = a /\ p.sha = r.sha
      /\ h.executor = 1 /\ h.app = Files /\ stage = NoStage
      /\ {"config", "tools"} \subseteq h.static
      /\ h.broker.gen = 0 \/ h.broker = FinalBroker(p.sha)
      /\ r.at \in {"broker", "unit"} => n.static = {Names}
      /\ r.at = "unit" => n.broker = {h.broker} /\ h.broker.gen = 1
  BY <1>1, <1>2, <1>7, <1>8 DEF ResourceRun, PublicationSteps, Continues
<1>10. /\ r.at = "cosign" => "cosign" \in h.static
       /\ r.at = "root" => h.static = Names
       /\ a \in Names => q # "link"
  <2>1. r.at = "root" => {"root", "cosign"} \subseteq h.static
    BY <1>1, <1>2, <1>8 DEF ResourceRun, Names
  <2>2. h.static \subseteq Names
    BY <1>2, <1>8 DEF HostType
  <2> QED
    BY <1>5, <1>8, <1>9, <2>1, <2>2 DEF Names
<1>11. ResourceRun(p, h, n, stage)
  BY <1>5, <1>6, <1>8, <1>9, <1>10 DEF ResourceRun, PublicationSteps
<1> QED
  BY <1>1, <1>2, <1>7, <1>8, <1>11, ResourceGoesOn

\* _publish of an existing exact file.
LEMMA PublishExistingIsSound ==
    ASSUME GenerationsInv, PublishExisting PROVE GenerationsInv'
<1>1. run.pc = "publish" /\ run.pc \in ResourceSteps /\ run.pc \in PublicationSteps /\ Exists(run.at)
  BY DEF PublishExisting, ResourceSteps, PublicationSteps
<1>2. /\ ResourceRun(run, host, may, stage) /\ HostKept /\ HostTyped(host, may)
      /\ host \in HostType /\ may \in MayType
  BY <1>1, ResourceFacts
<1>3. run.at \in {"cosign", "root", "broker", "unit"}
  BY <1>1, <1>2 DEF ResourceRun
<1>4. UNCHANGED <<stage, report, incarnation, lost>>
      /\ run' = [run EXCEPT !.pc = AfterPublish(run.at).pc, !.at = AfterPublish(run.at).at]
  BY DEF PublishExisting, World, GotoAt
<1>5. CASE run.at \in {"cosign", "root"}
  <2>1. UNCHANGED <<host, may>>
    BY <1>5 DEF PublishExisting
  <2>2. run.at \in Names /\ run.at \in host.static
    BY <1>1, <1>5 DEF Exists, Names
  <2> QED
    BY <1>1, <1>4, <1>5, <2>1, <2>2, SameHost, NextPublication
<1>6. CASE run.at = "broker"
  <2>1. Sync({"broker"})
    BY <1>6 DEF PublishExisting
  <2>2. host' = host /\ may'.broker = {host.broker} /\ may'.static = may.static
    BY <1>2, <2>1, SyncFacts
  <2>3. HostKept'
    BY <1>2, <1>4, <2>1, SyncKeepsHost
  <2>4. host.broker # Absent
    BY <1>1, <1>6 DEF Exists, Names
  <2>5. host.broker.gen = 1
    BY <1>2, <2>4 DEF ResourceRun, FinalBroker, HostTyped
  <2> QED
    BY <1>1, <1>4, <1>6, <2>2, <2>3, <2>5, NextPublication DEF Names
<1>7. CASE run.at = "unit"
  <2>1. Sync({"unit"})
    BY <1>7 DEF PublishExisting
  <2>2. host' = host /\ may'.unit = {host.unit} /\ may'.static = may.static /\ may'.broker = may.broker
    BY <1>2, <2>1, SyncFacts
  <2>3. HostKept'
    BY <1>2, <1>4, <2>1, SyncKeepsHost
  <2>4. host.unit = 1
    BY <1>1, <1>7 DEF Exists, Names
  <2> QED
    BY <1>1, <1>4, <1>7, <2>2, <2>3, <2>4, NextPublication DEF Names
<1> QED
  BY <1>3, <1>5, <1>6, <1>7

\* The sync that ends a publication, or its cleanup.
LEMMA PublishedSynced ==
    ASSUME HostKept, run.at \in {"cosign", "root", "broker", "unit"}, SyncPublished(run.at),
           UNCHANGED stage
    PROVE  /\ host' = host /\ HostKept'
           /\ run.at = "broker" => may'.broker = {host.broker}
           /\ run.at = "unit" => may'.unit = {host.unit} /\ may'.broker = may.broker
           /\ run.at \in {"broker", "unit"} => may'.static = may.static
<1>1. host \in HostType /\ may \in MayType
  BY DEF HostKept, HostTyped
<1>2. CASE run.at \in {"cosign", "root"}
  <2>1. SyncName(run.at) /\ run.at \in Names
    BY <1>2 DEF SyncPublished, Names
  <2> QED
    BY <1>2, <2>1, NameSynced
<1>3. CASE run.at \in {"broker", "unit"}
  <2>1. Sync({run.at})
    BY <1>3 DEF SyncPublished, Names
  <2>2. host' = host /\ HostKept'
    BY <1>1, <2>1, SyncFacts, SyncKeepsHost
  <2>3. CASE run.at = "broker"
    BY <1>1, <2>1, <2>2, <2>3, SyncFacts
  <2>4. CASE run.at = "unit"
    BY <1>1, <2>1, <2>2, <2>4, SyncFacts
  <2> QED
    BY <1>3, <2>3, <2>4
<1> QED
  BY <1>2, <1>3

\* The sync that ends a publication.
LEMMA PublishSyncIsSound ==
    ASSUME GenerationsInv, PublishSync PROVE GenerationsInv'
<1>1. run.pc = "publish_sync" /\ run.pc \in ResourceSteps /\ run.pc \in PublicationSteps
  BY DEF PublishSync, ResourceSteps, PublicationSteps
<1>2. ResourceRun(run, host, may, stage) /\ HostKept
  BY <1>1, ResourceFacts
<1>3. run.at \in {"cosign", "root", "broker", "unit"}
  BY <1>1, <1>2 DEF ResourceRun
<1>4. UNCHANGED <<stage, report, incarnation, lost>>
      /\ run' = [run EXCEPT !.pc = AfterPublish(run.at).pc, !.at = AfterPublish(run.at).at]
      /\ SyncPublished(run.at)
  BY DEF PublishSync, World, GotoAt
<1>5. /\ run.at \in Names => run.at \in host.static
      /\ run.at = "broker" => host.broker.gen = 1
      /\ run.at = "unit" => host.unit = 1
  BY <1>1, <1>2 DEF ResourceRun
<1> QED
  BY <1>1, <1>2, <1>3, <1>4, <1>5, PublishedSynced, NextPublication

\* The temporary of a publication.
LEMMA PublishTemporaryIsSound ==
    ASSUME GenerationsInv, PublishTemporary PROVE GenerationsInv'
<1>1. run.pc = "publish" /\ run.pc \in ResourceSteps /\ "link" \in Steps /\ "link" \in ResourceSteps
      /\ run.pc \in PublicationSteps /\ "link" \in PublicationSteps /\ ~Exists(run.at)
  BY DEF PublishTemporary, Steps, ResourceSteps, PublicationSteps
<1>2. run \in RunType /\ ResourceRun(run, host, may, stage) /\ (~lost => RootLast(host))
  BY <1>1, ResourceFacts
<1>3. Continues /\ run'.pc = "link" /\ run'.at = run.at /\ run'.used = run.used
  BY <1>1, <1>2, StepFacts DEF PublishTemporary, Goto
<1>4. UNCHANGED <<host, may, stage, report, incarnation, lost>>
  BY DEF PublishTemporary, World
<1>5. run.at \in {"cosign", "root", "broker", "unit"}
  BY <1>1, <1>2 DEF ResourceRun
<1>6. run.at \in Names => run.at \notin host.static
  BY <1>1 DEF Exists, Names
<1>7. run.at = "broker" => host.broker.gen = 0
  <2>1. run.at = "broker" => host.broker = Absent
    BY <1>1 DEF Exists, Names
  <2> QED
    BY <2>1 DEF Absent
<1>8. PICK r, p : r = run /\ p = run'
  OBVIOUS
<1>9. /\ p.sha = r.sha /\ p.pc = "link" /\ p.at = r.at /\ r.pc = "publish"
  BY <1>1, <1>3, <1>8 DEF Continues
<1>10. ResourceRun(p, host, may, stage)
  BY <1>1, <1>2, <1>5, <1>6, <1>7, <1>8, <1>9 DEF ResourceRun, PublicationSteps
<1> QED
  BY <1>1, <1>2, <1>3, <1>4, <1>8, <1>10, SameHost, ResourceGoesOn

\* The temporary is removed.
LEMMA PublishUnlinkIsSound ==
    ASSUME GenerationsInv, PublishUnlink PROVE GenerationsInv'
<1>1. run.pc = "unlink" /\ run.pc \in ResourceSteps /\ "publish_sync" \in Steps
      /\ "publish_sync" \in ResourceSteps
  BY DEF PublishUnlink, Steps, ResourceSteps, PublicationSteps
<1>2. run \in RunType /\ ResourceRun(run, host, may, stage) /\ (~lost => RootLast(host))
  BY <1>1, ResourceFacts
<1>3. Continues /\ run'.pc = "publish_sync" /\ run'.at = run.at /\ run'.used = run.used
  BY <1>1, <1>2, StepFacts DEF PublishUnlink, Goto
<1>4. UNCHANGED <<host, may, stage, report, incarnation, lost>>
  BY DEF PublishUnlink, World
<1>5. PICK r, p : r = run /\ p = run'
  OBVIOUS
<1>6. /\ p.sha = r.sha /\ p.pc = "publish_sync" /\ p.at = r.at /\ r.pc = "unlink"
  BY <1>1, <1>3, <1>5 DEF Continues
<1>7. ResourceRun(p, host, may, stage)
  BY <1>1, <1>2, <1>5, <1>6 DEF ResourceRun, PublicationSteps
<1> QED
  BY <1>1, <1>2, <1>3, <1>4, <1>5, <1>7, SameHost, ResourceGoesOn

\* _install makes the names durable before the configuration.
LEMMA StaticDurableIsSound ==
    ASSUME GenerationsInv, StaticDurable PROVE GenerationsInv'
<1>1. run.pc = "durable" /\ run.pc \in ResourceSteps /\ "publish" \in Steps
      /\ "publish" \in ResourceSteps /\ "broker" \in Places
  BY DEF StaticDurable, Steps, ResourceSteps, PublicationSteps, Places
<1>2. run \in RunType /\ ResourceRun(run, host, may, stage) /\ HostKept
      /\ host \in HostType /\ may \in MayType /\ (~lost => RootLast(host))
  BY <1>1, ResourceFacts
<1>3. Continues /\ run'.pc = "publish" /\ run'.at = "broker" /\ run'.used = run.used
  BY <1>1, <1>2, GotoFacts DEF StaticDurable, GotoAt
<1>4. UNCHANGED <<stage, report, incarnation, lost>> /\ Sync({"static"})
  BY DEF StaticDurable, World
<1>5. host' = host /\ HostKept' /\ may'.static = {host.static}
  BY <1>2, <1>4, SyncFacts, SyncKeepsHost
<1>6. host.static = Names /\ "config" \in Names /\ "tools" \in Names /\ "broker" \notin Names
  BY <1>1, <1>2 DEF ResourceRun, Names
<1>7. PICK r, p : r = run /\ p = run'
  OBVIOUS
<1>8. p.sha = r.sha /\ p.pc = "publish" /\ p.at = "broker" /\ r.pc = "durable"
  BY <1>1, <1>3, <1>7 DEF Continues
<1>9. ResourceRun(p, host', may', stage)
  BY <1>1, <1>2, <1>5, <1>6, <1>7, <1>8 DEF ResourceRun, PublicationSteps
<1> QED
  BY <1>1, <1>2, <1>3, <1>4, <1>5, <1>7, <1>9, ResourceGoesOn

\* The three resources are durable when they are reported.
LEMMA ResourcesDoneIsSound ==
    ASSUME GenerationsInv, ResourcesDone PROVE GenerationsInv'
<1>1. run.pc = "qualify" /\ run.pc \in ResourceSteps
  BY DEF ResourcesDone, ResourceSteps
<1>2. run \in RunType /\ ResourceRun(run, host, may, stage) /\ run.op = "resources"
  BY <1>1, ResourceFacts
<1>3. End(TRUE) /\ UNCHANGED <<host, may, stage, incarnation, lost>>
  BY DEF ResourcesDone, World
<1>4. run' = Idle /\ report' \in ReportType /\ report'.op = "resources" /\ report'.sha = run.sha
  BY <1>2, <1>3, EndFacts
<1>5. /\ may.static = {Names} /\ may.unit = {1}
      /\ may.broker = {host.broker} /\ host.broker = FinalBroker(run.sha)
  BY <1>1, <1>2 DEF ResourceRun
<1>6. Promised(report', host', may')
  BY <1>3, <1>4, <1>5 DEF Promised, Operations, Migrations
<1>7. Unless'
  BY <1>4 DEF Unless, Migrations, Rotations
<1>8. incarnation' \in Nat /\ lost' \in BOOLEAN
  BY <1>3 DEF GenerationsInv
<1> QED
  BY <1>3, <1>4, <1>6, <1>7, <1>8, SameHost, RunEnds

\* The link that makes a resource visible.
LEMMA PublishLinkIsSound ==
    ASSUME GenerationsInv, PublishLink PROVE GenerationsInv'
<1>1. run.pc = "link" /\ run.pc \in ResourceSteps /\ "unlink" \in Steps /\ "unlink" \in ResourceSteps
      /\ run.pc \in PublicationSteps /\ "unlink" \in PublicationSteps
  BY DEF PublishLink, Steps, ResourceSteps, PublicationSteps
<1>2. /\ run \in RunType /\ run.sha \in Shas /\ ResourceRun(run, host, may, stage) /\ HostKept
      /\ HostTyped(host, may) /\ Durable(host, may) /\ host \in HostType /\ may \in MayType
      /\ (~lost => RootLast(host))
  BY <1>1, ResourceFacts
<1>3. Continues /\ run'.pc = "unlink" /\ run'.at = run.at /\ run'.used = run.used
  BY <1>1, <1>2, StepFacts DEF PublishLink, Goto
<1>4. UNCHANGED <<stage, report, incarnation, lost>>
  BY DEF PublishLink, World
<1>5. PICK h, m, k, n, r, p : h = host /\ m = may /\ k = host' /\ n = may' /\ r = run /\ p = run'
  OBVIOUS
<1>6. /\ r.at \in {"cosign", "root", "broker", "unit"} /\ stage = NoStage
      /\ h.executor = 1 /\ h.app = Files /\ {"config", "tools"} \subseteq h.static
      /\ h.broker.gen = 0 \/ h.broker = FinalBroker(r.sha)
      /\ r.at \in Names => r.at \notin h.static
      /\ r.at = "root" => "cosign" \in h.static
      /\ r.at \in {"broker", "unit"} => m.static = {Names}
      /\ r.at = "broker" => h.broker.gen = 0
      /\ r.at = "unit" => m.broker = {h.broker} /\ h.broker.gen = 1
  BY <1>1, <1>2, <1>5 DEF ResourceRun
<1>7. p.sha = r.sha /\ p.pc = "unlink" /\ p.at = r.at
  BY <1>3, <1>5 DEF Continues
<1>8. CASE run.at \in {"cosign", "root"}
  <2>1. Place(run.at) /\ run.at \in Names /\ Holder(run.at) \subseteq host.static
    BY <1>5, <1>6, <1>8 DEF PublishLink, Names, Holder
  <2>2. HostKept'
    BY <1>2, <1>4, <1>5, <1>6, <2>1, NamePlaced
  <2>3. /\ k.app = h.app /\ k.executor = h.executor
        /\ k.broker = h.broker /\ k.static = h.static \cup {r.at}
    BY <1>2, <1>5, <2>1, PlaceFacts
  <2>4. ResourceRun(p, k, n, NoStage)
    BY <1>1, <1>5, <1>6, <1>7, <1>8, <2>3 DEF ResourceRun, PublicationSteps
  <2>5. ~lost => RootLast(k)
    BY <1>2, <1>5, <1>6, <1>8, <2>3 DEF RootLast
  <2> QED
    BY <1>1, <1>3, <1>4, <1>5, <1>6, <2>2, <2>4, <2>5, ResourceGoesOn
<1>9. CASE run.at = "broker"
  <2>1. PICK b : b = FinalBroker(run.sha)
    OBVIOUS
  <2>2. b \in Brokers /\ b.gen = 1 /\ b.sha = run.sha
    BY <1>2, <2>1 DEF FinalBroker, Brokers
  <2>3. Show("broker", b)
    BY <1>9, <2>1 DEF PublishLink, Names
  <2>4. HostKept'
    BY <1>2, <1>4, <1>5, <1>6, <1>9, <2>2, <2>3, BrokerReplaced
  <2>5. /\ k.app = h.app /\ k.executor = h.executor /\ k.broker = b /\ k.static = h.static
        /\ k.unit = h.unit /\ n.static = m.static
    BY <1>2, <1>5, <2>2, <2>3, ShowBroker
  <2>6. ResourceRun(p, k, n, NoStage)
    BY <1>1, <1>5, <1>6, <1>7, <1>9, <2>1, <2>2, <2>5 DEF ResourceRun, PublicationSteps, Names
  <2>7. ~lost => RootLast(k)
    BY <1>2, <1>5, <2>5 DEF RootLast
  <2> QED
    BY <1>1, <1>3, <1>4, <1>5, <1>6, <2>4, <2>6, <2>7, ResourceGoesOn
<1>10. CASE run.at = "unit"
  <2>1. Show("unit", 1)
    BY <1>10 DEF PublishLink, Names
  <2>2. /\ k \in HostType /\ k.app = h.app /\ k.executor = h.executor
        /\ k.broker = h.broker /\ k.static = h.static
        /\ k.runtime = h.runtime /\ k.unit = 1
        /\ n \in MayType /\ n.app = m.app /\ n.executor = m.executor
        /\ n.broker = m.broker /\ n.static = m.static /\ n.unit = m.unit \cup {1}
    BY <1>2, <1>5, <2>1, ShowUnit
  <2>3. HostTyped(k, n)
    BY <1>2, <1>5, <2>2 DEF HostTyped
  <2>4. BrokerStays(n)
    BY <1>5, <1>6, <1>10, <2>2 DEF BrokerStays
  <2>5. Durable(k, n)
    BY <1>2, <1>5, <2>2, <2>4 DEF Durable
  <2>6. HostKept'
    BY <1>4, <1>5, <1>6, <2>3, <2>5, NoStageFacts DEF HostKept, StageKept
  <2>7. ResourceRun(p, k, n, NoStage)
    BY <1>1, <1>5, <1>6, <1>7, <1>10, <2>2 DEF ResourceRun, PublicationSteps, Names
  <2>8. ~lost => RootLast(k)
    BY <1>2, <1>5, <2>2 DEF RootLast
  <2> QED
    BY <1>1, <1>3, <1>4, <1>5, <1>6, <2>6, <2>7, <2>8, ResourceGoesOn
<1> QED
  BY <1>5, <1>6, <1>8, <1>9, <1>10

-----------------------------------------------------------------------------
(* The rotations. *)

\* A rotation goes on.
LEMMA RotationGoesOn ==
    ASSUME GenerationsInv, run.pc \in RotationSteps, Continues,
           run'.used \subseteq run.used \cup {incarnation},
           UNCHANGED <<report, incarnation, lost>>,
           HostKept', OrderKept', RotationRun(run', host', stage')
    PROVE  GenerationsInv'
<1>1. run.op \in Rotations /\ run.pc # "idle"
  BY StepsOfOperations DEF RotationSteps
<1>2. run.sha \in Shas
  BY <1>1, RunFacts
<1>3. run'.pc # "idle"
  BY DEF RotationRun, RotationSteps
<1>4. Progress(run', host', may', stage', temps')
  BY <1>1, <1>2, <1>3 DEF Progress, Continues
<1>5. incarnation' \in Nat /\ incarnation' >= incarnation
  BY DEF GenerationsInv
<1> QED
  BY <1>1, <1>4, <1>5, RunGoesOn

\* What is known at each step of a rotation.
LEMMA RotationFacts ==
    ASSUME GenerationsInv, run.pc \in RotationSteps
    PROVE  /\ run.op \in Rotations /\ run.pc # "idle" /\ run \in RunType /\ run.sha \in Shas
           /\ RotationRun(run, host, stage) /\ HostKept /\ OrderKept
           /\ HostTyped(host, may) /\ host \in HostType /\ may \in MayType /\ incarnation \in Nat
<1>1. run.op \in Rotations /\ run.pc # "idle"
  BY StepsOfOperations DEF RotationSteps
<1> QED
  BY <1>1, RunFacts DEF GenerationsInv, HostKept, HostTyped

\* The temporary of a rotation.
LEMMA RotationTemporaryIsSound ==
    ASSUME GenerationsInv, RotationTemporary PROVE GenerationsInv'
<1>1. run.pc = "temporary" /\ run.pc \in RotationSteps /\ "rotate" \in Steps /\ "rotate" \in RotationSteps
  BY DEF RotationTemporary, Steps, RotationSteps
<1>2. run \in RunType /\ RotationRun(run, host, stage)
  BY <1>1, RotationFacts
<1>3. Continues /\ run'.pc = "rotate" /\ run'.used = run.used
  BY <1>1, <1>2, StepFacts DEF RotationTemporary, Goto
<1>4. UNCHANGED <<host, may, stage, report, incarnation, lost>>
  BY DEF RotationTemporary, World
<1>5. RotationRun(run', host, stage)
  BY <1>1, <1>2, <1>3 DEF RotationRun, Continues
<1> QED
  BY <1>1, <1>3, <1>4, <1>5, SameHost, RotationGoesOn

\* A rotation changes the workflow SHA alone.
LEMMA RotationReplaceIsSound ==
    ASSUME GenerationsInv, RotationReplace PROVE GenerationsInv'
<1>1. run.pc = "rotate" /\ run.pc \in RotationSteps /\ "rotate_sync" \in Steps
      /\ "rotate_sync" \in RotationSteps
  BY DEF RotationReplace, Steps, RotationSteps
<1>2. /\ run \in RunType /\ RotationRun(run, host, stage) /\ run.sha \in Shas /\ incarnation \in Nat
      /\ HostKept /\ OrderKept /\ HostTyped(host, may) /\ host \in HostType /\ may \in MayType
  BY <1>1, RotationFacts
<1>3. Continues /\ run'.pc = "rotate_sync" /\ run'.used = run.used \cup {incarnation}
  BY <1>1, <1>2, UseFacts DEF RotationReplace
<1>4. PICK b : b = [host.broker EXCEPT !.sha = run.sha]
  OBVIOUS
<1>5. Show("broker", b) /\ UNCHANGED <<stage, report, incarnation, lost>>
  BY <1>4 DEF RotationReplace, World
<1>6. host.broker \in Brokers
  BY <1>2 DEF HostType
<1>7. b \in Brokers /\ b.gen = host.broker.gen /\ b.sha = run.sha
  BY <1>2, <1>4, <1>6 DEF Brokers
<1>8. host.broker.gen >= 1 /\ stage = NoStage /\ host = run.was
  BY <1>1, <1>2 DEF RotationRun
<1>9. /\ may.static = {Names} /\ host.static = Names
      /\ b.gen > 1 => BrokerStays(may)
  BY <1>2, <1>7, <1>8 DEF HostKept, HostTyped, Durable
<1>10. HostKept'
  BY <1>2, <1>5, <1>7, <1>8, <1>9, BrokerReplaced
<1>11. PICK h, k, r : h = host /\ k = host' /\ r = run'
  OBVIOUS
<1>12. /\ k \in HostType /\ k.app = h.app /\ k.executor = h.executor /\ k.broker = b
       /\ k.static = h.static /\ k.runtime = h.runtime /\ k.unit = h.unit
  BY <1>2, <1>5, <1>7, <1>11, ShowBroker
<1>13. k = [h EXCEPT !.broker = b]
  BY <1>5, <1>11 DEF Show
<1>14. k = [h EXCEPT !.broker.sha = run.sha]
  BY <1>2, <1>4, <1>6, <1>11, <1>13 DEF HostType, Brokers
<1>15. r.pc = "rotate_sync" /\ r.sha = run.sha /\ r.was = run.was
  BY <1>3, <1>11 DEF Continues
<1>16. RotationRun(r, k, NoStage)
  BY <1>1, <1>2, <1>7, <1>8, <1>11, <1>12, <1>14, <1>15 DEF RotationRun
<1>17. ~lost => InOrder(k, NoStage)
  <2>1. ~lost => (h.app > Files => h.unit = 1)
    BY <1>2, <1>11 DEF OrderKept, InOrder
  <2>2. \/ k.executor = 1 /\ k.app = Files /\ k.broker.gen = 1
        \/ k.executor = 2 /\ k.app = Files + 1 /\ k.broker.gen = 2
        \/ k.executor = 3 /\ k.app = Files + 2 /\ k.broker.gen = 3
    BY <1>16 DEF RotationRun
  <2>3. Chain(k)
    BY <2>2 DEF Chain
  <2>4. RootLast(k)
    BY <1>9, <1>11, <1>12 DEF RootLast, Names
  <2> QED
    BY <1>12, <2>1, <2>3, <2>4 DEF InOrder
<1>18. OrderKept'
  BY <1>5, <1>8, <1>11, <1>17 DEF OrderKept
<1> QED
  BY <1>1, <1>3, <1>5, <1>8, <1>10, <1>11, <1>16, <1>18, RotationGoesOn

\* Its directory is synced.
LEMMA RotationSyncIsSound ==
    ASSUME GenerationsInv, RotationSync PROVE GenerationsInv'
<1>1. run.pc = "rotate_sync" /\ run.pc \in RotationSteps /\ "rotated" \in Steps
      /\ "rotated" \in RotationSteps
  BY DEF RotationSync, Steps, RotationSteps
<1>2. run \in RunType /\ RotationRun(run, host, stage) /\ HostKept /\ OrderKept
      /\ host \in HostType /\ may \in MayType
  BY <1>1, RotationFacts
<1>3. Continues /\ run'.pc = "rotated" /\ run'.used = run.used
  BY <1>1, <1>2, StepFacts DEF RotationSync, Goto
<1>4. UNCHANGED <<stage, report, incarnation, lost>> /\ Sync({"broker"})
  BY DEF RotationSync, World
<1>5. host' = host /\ HostKept'
  BY <1>2, <1>4, SyncFacts, SyncKeepsHost
<1>6. OrderKept'
  BY <1>2, <1>4, <1>5 DEF OrderKept
<1>7. RotationRun(run', host, stage)
  BY <1>1, <1>2, <1>3 DEF RotationRun, Continues
<1> QED
  BY <1>1, <1>3, <1>4, <1>5, <1>6, <1>7, RotationGoesOn

\* A reported rotation.
LEMMA RotationDoneIsSound ==
    ASSUME GenerationsInv, RotationDone PROVE GenerationsInv'
<1>1. run.pc = "rotated" /\ run.pc \in RotationSteps /\ RuntimeUnchanged
  BY DEF RotationDone, RotationSteps
<1>2. run \in RunType /\ RotationRun(run, host, stage) /\ run.op \in Rotations /\ run.op \in Operations
  BY <1>1, RotationFacts, RunFacts
<1>3. End(TRUE) /\ UNCHANGED <<host, may, stage, incarnation, lost>>
  BY DEF RotationDone, World
<1>4. PICK r : r = report'
  OBVIOUS
<1>5. /\ run' = Idle /\ r \in ReportType /\ r.op = run.op /\ r.sha = run.sha /\ r.was = run.was
      /\ r.used = run.used /\ r.seen = run.seen
  BY <1>2, <1>3, <1>4, EndFacts
<1>6. r.op \in Migrations \cup {"rotate_successor", "rotate_state_store"} => r.used \subseteq {r.seen}
  BY <1>1, <1>5, SeenOnly DEF RuntimeUnchanged
<1>7. Promised(r, host', may')
  BY <1>2, <1>5, <1>6 DEF Promised, Rotations
<1>8. host = [r.was EXCEPT !.broker.sha = r.sha] /\ r.was \in HostType
  BY <1>1, <1>2, <1>5 DEF RotationRun, RunType
<1>9. host = [r.was EXCEPT !.broker.sha = r.sha, !.runtime = host.runtime]
  BY <1>8 DEF HostType
<1>10. Described(r)
  BY <1>2, <1>5, <1>9 DEF Described, Rotations
<1>11. Unless'
  BY <1>3, <1>4, <1>10, DescribedStays DEF Unless
<1>12. incarnation' \in Nat /\ lost' \in BOOLEAN
  BY <1>3 DEF GenerationsInv
<1> QED
  BY <1>3, <1>4, <1>5, <1>7, <1>11, <1>12, SameHost, RunEnds

-----------------------------------------------------------------------------
(* Beginnings, failures and power losses. *)

\* A host that the final generation's qualification accepts as complete.
LEMMA FinalPairFacts ==
    ASSUME HostKept, FinalPair
    PROVE  host.executor = 1 /\ host.app = Files /\ stage = NoStage
<1>1. host \in HostType /\ host.app <= Files + 2
  BY DEF HostKept, HostTyped
<1>2. FinalTarget
  BY DEF FinalPair, FinalQualify, ReadExecutor
<1> QED
  BY <1>1, <1>2, ApplicationFacts DEF FinalTarget, ReadExecutor, Unstaged

\* A host whose live authority is that of a migration's target.
LEMMA LiveFacts ==
    ASSUME HostKept, NEW op \in Migrations, NEW w, LiveAuthority(op, w)
    PROVE  /\ stage = NoStage
           /\ op = "successor" => host.executor = 2 /\ host.app = Files + 1 /\ host.broker.gen = 2
           /\ op = "state_store" => host.executor = 3 /\ host.app = Files + 2 /\ host.broker.gen = 3
<1>1. Phase(op, w) = "complete" /\ stage = NoStage /\ BrokerIs(Target(op), w)
  BY DEF LiveAuthority, Unstaged, ResourceQualification
<1>2. Phase(op, w) # "rejected" /\ Files \in Nat
  BY <1>1, GenerationsAssumption
<1>3. PICK g : g = Target(op)
  OBVIOUS
<1>4. g \in {2, 3} /\ (g = 3 <=> op = "state_store") /\ (g = 2 <=> op = "successor")
      /\ host.app = Files + g - 1 /\ host.executor = g
  BY <1>1, <1>2, <1>3, PhaseFacts
<1>5. host.broker.gen = g
  BY <1>1, <1>3, <1>4 DEF BrokerIs, BrokerOf, SuccessorBroker, StateStoreBroker
<1> QED
  BY <1>1, <1>2, <1>4, <1>5

\* The lock is taken and the first qualification passes.
LEMMA BeginIsSound ==
    ASSUME GenerationsInv, NEW op \in Operations, NEW w \in Shas, Begin(op, w)
    PROVE  GenerationsInv'
<1>1. Admitted(op, w) /\ UNCHANGED <<host, may, stage, temps, incarnation, lost>> /\ report' = NoReport
  BY DEF Begin, World
<1>2. HostKept /\ HostTyped(host, may) /\ host \in HostType /\ incarnation \in Nat /\ lost \in BOOLEAN
  BY DEF GenerationsInv, HostKept, HostTyped
<1>3. HostKept' /\ OrderKept'
  BY <1>1, SameHost
<1>4. PICK b, h, p : b = Absent /\ h = Fresh /\ p = NoReport
  OBVIOUS
<1>5. b \in Brokers
  BY <1>4 DEF Absent, Brokers
<1>6. h \in HostType
  BY <1>4, <1>5 DEF Fresh, HostType
<1>7. p \in ReportType /\ p.ok = FALSE
  BY <1>4, <1>6 DEF NoReport, ReportType
<1>8. report' = p
  BY <1>1, <1>4
<1>9. Promised(report', host', may') /\ Unless'
  BY <1>7, <1>8 DEF Promised, Unless
<1>10. PICK q : q = CASE op \in {"final"} \cup Migrations -> "inspect"
                      [] op = "resources" -> "directories"
                      [] op \in Rotations -> "temporary"
  OBVIOUS
<1>11. /\ op \in {"final"} \cup Migrations => q = "inspect"
       /\ op = "resources" => q = "directories"
       /\ op \in Rotations => q = "temporary"
  BY <1>10 DEF Migrations, Rotations
<1>12. q \in Steps /\ "none" \in Places /\ q # "idle"
  BY <1>10, <1>11 DEF Operations, Steps, FinalSteps, ResourceSteps, DirectorySteps, RotationSteps,
     Places
<1>16. PICK r : r = run'
  OBVIOUS
<1>17. r = [op |-> op, sha |-> w, at |-> "none", seen |-> incarnation, used |-> {},
            was |-> host, pc |-> q]
  BY <1>10, <1>16 DEF Begin, Started
<1>18. /\ r \in RunType /\ r.op = op /\ r.sha = w /\ r.at = "none" /\ r.seen = incarnation
       /\ r.used = {} /\ r.was = host /\ r.pc = q
  BY <1>2, <1>12, <1>17 DEF RunType
<1>19. CASE op = "final"
  <2>1. FinalRun(r, host, may)
    BY <1>11, <1>18, <1>19 DEF FinalRun, FinalSteps
  <2>2. Progress(r, host, may, stage, temps)
    BY <1>12, <1>18, <1>19, <2>1 DEF Progress
  <2>3. Witnessed(r, incarnation)
    BY <1>2, <1>18 DEF Witnessed
  <2> QED
    BY <1>1, <1>2, <1>3, <1>7, <1>8, <1>9, <1>16, <2>2, <2>3 DEF GenerationsInv
<1>20. CASE op \in Migrations
  <2>1. MigrationRun(r, host, stage, temps)
    BY <1>11, <1>18, <1>20 DEF MigrationRun, MigrationSteps
  <2>2. Progress(r, host, may, stage, temps)
    BY <1>12, <1>18, <1>20, <2>1 DEF Progress
  <2>3. Witnessed(r, incarnation)
    BY <1>2, <1>18 DEF Witnessed
  <2> QED
    BY <1>1, <1>2, <1>3, <1>7, <1>8, <1>9, <1>16, <2>2, <2>3 DEF GenerationsInv
<1>21. CASE op = "resources"
  <2>1. ResourcesAdmitted(w)
    BY <1>1, <1>21 DEF Admitted, Migrations
  <2>2. host.executor = 1 /\ host.app = Files /\ stage = NoStage
    BY <1>2, <2>1, FinalPairFacts DEF ResourcesAdmitted
  <2>3. host.broker.gen = 0 \/ host.broker = FinalBroker(w)
    BY <2>1 DEF ResourcesAdmitted, Absent, BrokerIs, BrokerOf
  <2>4. ResourceRun(r, host, may, stage)
    BY <1>11, <1>18, <1>21, <2>2, <2>3 DEF ResourceRun, ResourceSteps, DirectorySteps, PublicationSteps
  <2>5. Progress(r, host, may, stage, temps)
    BY <1>12, <1>18, <1>21, <2>4 DEF Progress
  <2>6. Witnessed(r, incarnation)
    BY <1>2, <1>18 DEF Witnessed
  <2> QED
    BY <1>1, <1>2, <1>3, <1>7, <1>8, <1>9, <1>16, <2>5, <2>6 DEF GenerationsInv
<1>22. CASE op \in Rotations
  <2>1. /\ stage = NoStage
        /\ \/ host.executor = 1 /\ host.app = Files /\ host.broker.gen = 1
           \/ host.executor = 2 /\ host.app = Files + 1 /\ host.broker.gen = 2
           \/ host.executor = 3 /\ host.app = Files + 2 /\ host.broker.gen = 3
    <3>1. CASE op = "rotate_final"
      <4>1. QualifiedFinal(host.broker.sha)
        BY <1>1, <3>1 DEF Admitted, Migrations, RotateFinal
      <4>2. host.broker.gen = 1
        BY <4>1 DEF QualifiedFinal, ResourceQualification, BrokerIs, BrokerOf, FinalBroker
      <4> QED
        BY <1>2, <4>1, <4>2, FinalPairFacts DEF QualifiedFinal
    <3>2. CASE op = "rotate_successor"
      <4>1. LiveAuthority("successor", host.broker.sha) /\ "successor" \in Migrations
        BY <1>1, <3>2 DEF Admitted, Migrations, RotateSuccessor, QualifiedSuccessor
      <4> QED
        BY <1>2, <4>1, LiveFacts
    <3>3. CASE op = "rotate_state_store"
      <4>1. LiveAuthority("state_store", host.broker.sha) /\ "state_store" \in Migrations
        BY <1>1, <3>3 DEF Admitted, Migrations, RotateStateStore, QualifiedStateStore
      <4> QED
        BY <1>2, <4>1, LiveFacts
    <3> QED
      BY <1>22, <3>1, <3>2, <3>3 DEF Rotations
  <2>2. RotationRun(r, host, stage)
    BY <1>11, <1>18, <1>22, <2>1 DEF RotationRun, RotationSteps
  <2>3. Progress(r, host, may, stage, temps)
    BY <1>12, <1>18, <1>22, <2>2 DEF Progress
  <2>4. Witnessed(r, incarnation)
    BY <1>2, <1>18 DEF Witnessed
  <2> QED
    BY <1>1, <1>2, <1>3, <1>7, <1>8, <1>9, <1>16, <2>3, <2>4 DEF GenerationsInv
<1> QED
  BY <1>19, <1>20, <1>21, <1>22 DEF Operations

\* A failed end leaves no promise.
LEMMA FailedEnd ==
    ASSUME GenerationsInv, run' = Idle, report' \in ReportType, report'.ok = FALSE,
           UNCHANGED <<incarnation, lost>>, HostKept', OrderKept'
    PROVE  GenerationsInv'
<1>1. Promised(report', host', may') /\ Unless'
  BY DEF Promised, Unless
<1>2. incarnation' \in Nat /\ lost' \in BOOLEAN
  BY DEF GenerationsInv
<1> QED
  BY <1>1, <1>2, RunEnds

\* A check that raises.
LEMMA RejectIsSound ==
    ASSUME GenerationsInv, Reject PROVE GenerationsInv'
<1>1. End(FALSE) /\ UNCHANGED <<host, may, stage, incarnation, lost>> /\ run \in RunType
  BY DEF Reject, World, GenerationsInv, Progress
<1> QED
  BY <1>1, SameHost, EndFacts, FailedEnd

\* A directory whose parent could not be synced is removed again.
LEMMA DirectoryRemoved ==
    ASSUME GenerationsInv, run.pc = "directory_sync", RemoveDirectory, UNCHANGED <<stage, lost>>
    PROVE  HostKept' /\ OrderKept'
<1>1. run.pc \in ResourceSteps
  BY DEF ResourceSteps, DirectorySteps
<1>2. /\ ResourceRun(run, host, may, stage) /\ HostKept /\ HostTyped(host, may)
      /\ host \in HostType /\ may \in MayType
  BY <1>1, ResourceFacts
<1>3. PICK h, m, k, n : h = host /\ m = may /\ k = host' /\ n = may'
  OBVIOUS
<1>4. /\ run.at \in {"config", "runtime", "tools"}
      /\ run.at = "runtime" => h.runtime > 0
      /\ run.at # "runtime" => m.static # {Names}
  BY <1>2, <1>3 DEF ResourceRun
<1>5. h.static \in m.static /\ h.runtime \in Nat /\ Directories \in Nat /\ h.runtime <= Directories
      /\ h.static \in SUBSET Names /\ m.static \in SUBSET SUBSET Names
  BY <1>2, <1>3, GenerationsAssumption DEF HostTyped, HostType, MayType
<1>6. /\ HostKept' /\ k.app = h.app /\ k.executor = h.executor /\ k.broker = h.broker
      /\ k.unit = h.unit /\ (RootLast(h) => RootLast(k))
  <2>1. CASE run.at = "runtime"
    <3>1. host' = [host EXCEPT !.runtime = host.runtime - 1] /\ may' = may
      BY <2>1 DEF RemoveDirectory
    <3>2. h.runtime - 1 \in Nat /\ h.runtime - 1 <= Directories
      BY <1>4, <1>5, <2>1
    <3>3. /\ k \in HostType /\ k.app = h.app /\ k.executor = h.executor /\ k.broker = h.broker
          /\ k.static = h.static /\ k.runtime = h.runtime - 1 /\ k.unit = h.unit
      BY <1>2, <1>3, <3>1, <3>2 DEF HostType
    <3>4. HostKept'
      BY <1>2, <1>3, <1>5, <3>1, <3>2, <3>3, StaticChanged
    <3> QED
      BY <3>3, <3>4 DEF RootLast
  <2>2. CASE run.at # "runtime"
    <3>1. host' = [host EXCEPT !.static = @ \ {run.at}]
      BY <2>2 DEF RemoveDirectory
    <3>2. PICK left \in {{}, may.static} :
              may' = [may EXCEPT !.static = {x \ {run.at} : x \in @} \cup left]
      BY <2>2 DEF RemoveDirectory
    <3>3. /\ k \in HostType /\ k.app = h.app /\ k.executor = h.executor /\ k.broker = h.broker
          /\ k.static = h.static \ {run.at} /\ k.runtime = h.runtime /\ k.unit = h.unit
      BY <1>2, <1>3, <3>1 DEF HostType
    <3>4. {x \ {run.at} : x \in m.static} \cup left \in SUBSET SUBSET Names
      BY <1>3, <1>5, <3>2
    <3>5. /\ n \in MayType /\ n.app = m.app /\ n.executor = m.executor /\ n.broker = m.broker
          /\ n.static = {x \ {run.at} : x \in m.static} \cup left /\ n.unit = m.unit
      BY <1>2, <1>3, <3>2, <3>4 DEF MayType
    <3>6. k.static \in n.static
      BY <1>5, <3>3, <3>5
    <3>7. HostKept'
      BY <1>2, <1>3, <1>4, <1>5, <2>2, <3>3, <3>5, <3>6, StaticChanged
    <3>8. RootLast(h) => RootLast(k)
      BY <1>4, <2>2, <3>3 DEF RootLast
    <3> QED
      BY <3>3, <3>7, <3>8
  <2> QED
    BY <2>1, <2>2
<1>7. InOrder(h, stage) => InOrder(k, stage)
  BY <1>6 DEF InOrder, Chain, NextStage, Predecessor
<1>8. OrderKept'
  BY <1>3, <1>7 DEF GenerationsInv, OrderKept
<1> QED
  BY <1>6, <1>8

\* A failed call, with its cleanup.
LEMMA FailIsSound ==
    ASSUME GenerationsInv, Fail PROVE GenerationsInv'
<1>1. End(FALSE) /\ UNCHANGED <<stage, incarnation, lost>> /\ run \in RunType
  BY DEF Fail, GenerationsInv, Progress
<1>2. HostKept /\ OrderKept
  BY DEF GenerationsInv
<1>3. HostKept' /\ OrderKept'
  <2>1. CASE run.pc = "directory_sync" /\ RemoveDirectory
    BY <1>1, <2>1, DirectoryRemoved
  <2>2. CASE run.pc = "unlink" /\ SyncPublished(run.at)
    <3>1. run.pc \in ResourceSteps /\ run.pc \in PublicationSteps
      BY <2>2 DEF ResourceSteps, PublicationSteps
    <3>2. run.at \in {"cosign", "root", "broker", "unit"}
      BY <3>1, ResourceFacts DEF ResourceRun
    <3>3. host' = host /\ HostKept'
      BY <1>1, <1>2, <2>2, <3>2, PublishedSynced
    <3> QED
      BY <1>1, <1>2, <3>3 DEF OrderKept
  <2>3. CASE UNCHANGED <<host, may>>
    BY <1>1, <2>3, SameHost
  <2> QED
    BY <2>1, <2>2, <2>3 DEF Fail
<1> QED
  BY <1>1, <1>3, EndFacts, FailedEnd

\* A kill.
LEMMA KillIsSound ==
    ASSUME GenerationsInv, Kill PROVE GenerationsInv'
<1>1. run' = Idle /\ UNCHANGED <<host, may, stage, incarnation, report, lost>> /\ run.pc # "idle"
  BY DEF Kill
<1>2. report' \in ReportType /\ report'.ok = FALSE
  BY <1>1 DEF GenerationsInv, ReportType
<1> QED
  BY <1>1, <1>2, SameHost, FailedEnd

\* A power loss takes back only what was not durable; what a success promised is.
LEMMA PowerLossIsSound ==
    ASSUME GenerationsInv, PowerLoss PROVE GenerationsInv'
<1>1. /\ run' = Idle /\ report' = report /\ incarnation' = incarnation + 1
      /\ lost' = (lost \/ \E f \in Objects : host'[f] # host[f])
      /\ stage' = stage \/ stage' = NoStage
  BY DEF PowerLoss
<1>2. HostKept /\ host \in HostType /\ may \in MayType /\ OrderKept /\ lost \in BOOLEAN
      /\ incarnation \in Nat /\ report \in ReportType
  BY DEF GenerationsInv, HostKept, HostTyped
<1>3. HostKept'
  BY <1>2, PowerKeepsHost
<1>4. /\ lost' \in BOOLEAN
      /\ ~lost' => /\ ~lost
                   /\ host'.app = host.app /\ host'.executor = host.executor
                   /\ host'.broker = host.broker /\ host'.static = host.static
                   /\ host'.unit = host.unit
  BY <1>1, <1>2 DEF Objects
<1>5. OrderKept'
  <2>1. PICK h, k, s, u : h = host /\ k = host' /\ s = stage /\ u = stage'
    OBVIOUS
  <2>2. InOrder(h, s) => InOrder(h, u)
    BY <1>1, <2>1 DEF InOrder
  <2>3. ~lost' => (InOrder(h, u) => InOrder(k, u))
    BY <1>4, <2>1 DEF InOrder, Chain, NextStage, Predecessor, RootLast
  <2> QED
    BY <1>2, <1>4, <2>1, <2>2, <2>3 DEF OrderKept
<1>6. Promised(report', host', may')
  <2>1. Promised(report, host, may)
    BY DEF GenerationsInv
  <2>2. /\ may.executor = {1} => may'.executor = {1}
        /\ may.static = {Names} => may'.static = {Names}
        /\ may.unit = {1} => may'.unit = {1}
        /\ \A b : may.broker = {b} => may'.broker = {b}
    BY <1>2, PowerFacts
  <2> QED
    BY <1>1, <2>1, <2>2 DEF Promised
<1>7. Unless'
  <2>1. CASE lost'
    BY <2>1 DEF Unless
  <2>2. CASE ~lost' /\ ~(report.ok /\ report.op \in Migrations \cup Rotations)
    BY <1>1, <2>2 DEF Unless
  <2>3. CASE ~lost' /\ report.ok /\ report.op \in Migrations \cup Rotations
    <3>1. Described(report)
      BY <1>4, <2>3 DEF GenerationsInv, Unless
    <3>2. PICK r : r = report
      OBVIOUS
    <3>3. Described(report)'
      BY <1>1, <1>2, <1>4, <2>3, <3>1, <3>2, PowerFacts, DescribedWithout DEF Operations
    <3> QED
      BY <3>3 DEF Unless
  <2> QED
    BY <2>1, <2>2, <2>3
<1>8. incarnation' \in Nat /\ report' \in ReportType
  BY <1>1, <1>2
<1> QED
  BY <1>1, <1>3, <1>4, <1>5, <1>6, <1>7, <1>8, RunEnds

\* The rootless daemon comes back as another one during an operation.
LEMMA RestartIsSound ==
    ASSUME GenerationsInv, RestartRootless PROVE GenerationsInv'
<1>1. /\ run.pc # "idle" /\ incarnation' = incarnation + 1
      /\ UNCHANGED <<host, may, stage, temps, run, report, lost>>
  BY DEF RestartRootless
<1>2. run \in RunType /\ incarnation \in Nat /\ Progress(run, host, may, stage, temps)
  BY DEF GenerationsInv, Progress
<1>3. Continues /\ run'.used = run.used
  BY <1>1, <1>2 DEF Continues
<1>4. Progress(run', host', may', stage', temps')
  BY <1>1, <1>2
<1> QED
  BY <1>1, <1>2, <1>3, <1>4, SameHost, RunGoesOn

\* Nothing depends on the facts outside the managed objects.
LEMMA OutsideIsSound ==
    ASSUME GenerationsInv, UNCHANGED <<host, may, stage, temps, incarnation, run, report, lost>>
    PROVE  GenerationsInv'
<1>1. HostKept' /\ OrderKept'
  BY SameHost
<1>2. Unless'
  <2>1. CASE lost \/ ~(report.ok /\ report.op \in Migrations \cup Rotations)
    BY <2>1 DEF Unless
  <2>2. CASE ~lost /\ report.ok /\ report.op \in Migrations \cup Rotations
    <3>1. Described(report)
      BY <2>2 DEF GenerationsInv, Unless
    <3>2. Described(report)'
      BY <3>1, DescribedStays
    <3> QED
      BY <3>2 DEF Unless
  <2> QED
    BY <2>1, <2>2
<1> QED
  BY <1>1, <1>2 DEF GenerationsInv

-----------------------------------------------------------------------------
(* The theorems on the generations. *)

\* The host before the final update.
LEMMA GenerationsStart ==
    GenerationsInit => GenerationsInv
<1> SUFFICES ASSUME GenerationsInit PROVE GenerationsInv
  OBVIOUS
<1>1. PICK b, h, m, p, r, s : /\ b = Absent /\ h = host /\ m = may /\ p = report
                              /\ r = run /\ s = stage
  OBVIOUS
<1>2. b \in Brokers /\ b.gen = 0
  BY <1>1 DEF Absent, Brokers
<1>3. h = [app |-> 0, executor |-> 0, broker |-> b, static |-> {}, runtime |-> 0, unit |-> 0]
  BY <1>1 DEF GenerationsInit, Fresh
<1>4. /\ h \in HostType /\ h.app = 0 /\ h.executor = 0 /\ h.broker = b /\ h.static = {}
      /\ h.runtime = 0 /\ h.unit = 0
  BY <1>2, <1>3 DEF HostType
<1>5. m = [f \in Objects |-> {h[f]}]
  BY <1>1 DEF GenerationsInit
<1>6. /\ m \in MayType /\ m.app = {0} /\ m.executor = {0} /\ m.broker = {b} /\ m.static = {{}}
      /\ m.unit = {0}
  BY <1>4, <1>5 DEF HostType, MayType, Objects
<1>7. HostTyped(h, m)
  BY <1>1, <1>2, <1>4, <1>6, GenerationsAssumption DEF HostTyped
<1>8. Durable(h, m)
  BY <1>2, <1>4, <1>6, GenerationsAssumption DEF Durable
<1>9. StageKept(h, m, s) /\ s = NoStage
  BY <1>1, NoStageFacts DEF StageKept, GenerationsInit
<1>10. InOrder(h, s)
  BY <1>2, <1>4, <1>9, GenerationsAssumption DEF InOrder, Chain, RootLast
<1>11. r = [op |-> "none", sha |-> "none", pc |-> "idle", at |-> "none",
            seen |-> 0, used |-> {}, was |-> h]
  BY <1>1 DEF GenerationsInit, Idle
<1>12. r \in RunType /\ r.pc = "idle" /\ r.seen = 0 /\ r.used = {}
  BY <1>4, <1>11 DEF RunType, Steps, Places
<1>13. p = [op |-> "none", sha |-> "none", ok |-> FALSE, seen |-> 0, used |-> {}, was |-> h]
  BY <1>1 DEF GenerationsInit, NoReport
<1>14. p \in ReportType /\ p.ok = FALSE
  BY <1>4, <1>13 DEF ReportType
<1>15. incarnation = 0 /\ lost = FALSE
  BY DEF GenerationsInit
<1>16. Progress(run, host, may, stage, temps) /\ Witnessed(run, incarnation)
  BY <1>1, <1>12, <1>15 DEF Progress, Witnessed
<1>17. HostKept /\ OrderKept
  BY <1>1, <1>7, <1>8, <1>9, <1>10 DEF HostKept, OrderKept
<1>18. Promised(report, host, may) /\ Unless
  BY <1>1, <1>14 DEF Promised, Unless
<1> QED
  BY <1>1, <1>12, <1>14, <1>15, <1>16, <1>17, <1>18 DEF GenerationsInv

\* Every step of an operation and of the environment keeps the invariant.
LEMMA GenerationsContinue ==
    GenerationsInv /\ [GenerationsNext]_genVars => GenerationsInv'
<1> SUFFICES ASSUME GenerationsInv, [GenerationsNext]_genVars PROVE GenerationsInv'
  OBVIOUS
<1>1. CASE UNCHANGED genVars
  BY <1>1, OutsideIsSound DEF genVars
<1>2. CASE \E op \in Operations, w \in Shas : Begin(op, w)
  BY <1>2, BeginIsSound
<1>3. CASE RunStep
  BY <1>3, FinalStepIsSound, SyncApplicationIsSound, FinalDoneIsSound, MigrationStepIsSound,
     WriteStageIsSound, ReplaceIsSound, SyncReplacementIsSound, MigrationDoneIsSound,
     MakeDirectoryIsSound, OwnDirectoryIsSound, SyncDirectoryIsSound, DirectoriesReadyIsSound,
     PublishExistingIsSound, PublishTemporaryIsSound, PublishLinkIsSound,
     PublishUnlinkIsSound, PublishSyncIsSound, StaticDurableIsSound, ResourcesDoneIsSound,
     RotationTemporaryIsSound, RotationReplaceIsSound, RotationSyncIsSound,
     RotationDoneIsSound, RejectIsSound DEF RunStep
<1>4. CASE Environment
  <2>1. ASSUME NEW f \in Facts, Drift(f) PROVE GenerationsInv'
    BY <2>1, OutsideIsSound DEF Drift
  <2> QED
    BY <1>4, <2>1, FailIsSound, KillIsSound, PowerLossIsSound, RestartIsSound DEF Environment
<1> QED
  BY <1>1, <1>2, <1>3, <1>4 DEF GenerationsNext

\* The invariant of the host's generations holds for any number of files and
\* directories, any workflow commits and any failures, kills and power losses.
THEOREM GenerationsAreInductive == GenerationsSpec => []GenerationsInv
BY GenerationsStart, GenerationsContinue, PTL DEF GenerationsSpec

\* A reported success is true, survives a power loss where it was synced, and was
\* published under the runtime that the operation had seen.
THEOREM SuccessesAreTrue == GenerationsSpec => []SuccessIsTrue
<1>1. GenerationsInv => SuccessIsTrue
  <2> SUFFICES ASSUME GenerationsInv, report.ok
               PROVE  /\ Described(report) \/ (lost /\ report.op \in Migrations \cup Rotations)
                      /\ report.op \in Migrations \cup {"rotate_successor", "rotate_state_store"}
                            => report.used \subseteq {report.seen}
    BY DEF SuccessIsTrue
  <2>1. Promised(report, host, may) /\ Unless /\ HostTyped(host, may) /\ Durable(host, may)
        /\ host \in HostType
    BY DEF GenerationsInv, HostKept, HostTyped
  <2>2. report.op \in Operations
    BY <2>1 DEF Promised
  <2>3. CASE report.op = "final"
    <3>1. may.executor = {1}
      BY <2>1, <2>3 DEF Promised
    <3>2. host.executor = 1 /\ host.app >= Files
      BY <2>1, <3>1 DEF HostTyped, Durable
    <3>3. Described(report)
      BY <2>3, <3>2 DEF Described, Rotations
    <3> QED
      BY <2>3, <3>3 DEF Migrations
  <2>4. CASE report.op = "resources"
    <3>1. host.static = Names /\ host.unit = 1 /\ host.broker = FinalBroker(report.sha)
      BY <2>1, <2>4 DEF Promised, HostTyped
    <3>2. BrokerIs(1, report.sha)
      BY <3>1 DEF BrokerIs, BrokerOf
    <3>3. Described(report)
      BY <2>4, <3>1, <3>2 DEF Described, Rotations
    <3> QED
      BY <2>4, <3>3 DEF Migrations
  <2>5. CASE report.op \in Migrations \cup Rotations
    BY <2>1, <2>5 DEF Unless, Promised
  <2> QED
    BY <2>2, <2>3, <2>4, <2>5 DEF Operations
<1> QED
  BY <1>1, GenerationsAreInductive, PTL

\* Reviewed facts that all hold, and nothing unfinished beside the objects.
Clean == drift = {} /\ temps = {}

\* The final update is admitted on an application that is not complete.
LEMMA FinalGoesOn ==
    ASSUME GenerationsInv, Clean, host.executor = 0, host.app <= Files,
           stage.at = "app" => host.app < Files, stage.at = "executor" => host.app = Files
    PROVE  \E op \in Operations, w \in Shas : Forward(op, w)
<1>1. FinalQualify
  BY DEF Clean, FinalQualify, ReviewedFinal, Holds, ReadExecutor, FinalInspect, FinalApplicationState
<1>2. Forward("final", PREDECESSOR_WORKFLOW_SHA)
  BY <1>1 DEF Forward, Admitted
<1> QED
  BY <1>2, GenerationsAssumption DEF Operations

\* The resources are admitted on the complete final generation.
LEMMA ResourcesGoOn ==
    ASSUME GenerationsInv, Clean, host.executor = 1, host.app = Files, stage = NoStage,
           host.broker.gen \in {0, 1}, ~LostName
    PROVE  \E op \in Operations, w \in Shas : Forward(op, w)
<1>1. HostTyped(host, may) /\ Durable(host, may) /\ host \in HostType /\ host.app <= Files + 2
  BY DEF GenerationsInv, HostKept, HostTyped
<1>2. AppGeneration = 1
  BY <1>1, ApplicationFacts
<1>3. FinalPair
  BY <1>2 DEF Clean, FinalPair, FinalQualify, ReviewedFinal, Holds, ReadExecutor, FinalTarget, Unstaged
<1>4. host.broker \in Brokers /\ (host.broker.gen = 0 => host.broker = Absent)
      /\ (host.broker.gen = 1 => host.broker.sha \in Shas)
  BY <1>1 DEF HostTyped, HostType
<1>5. host.unit = 1 => host.broker # Absent
  <2>1. host.unit = 1 => host.broker.gen >= 1
    BY <1>1 DEF HostTyped, Durable, BrokerStays
  <2> QED
    BY <2>1 DEF Absent
<1>6. host.broker # Absent => StaticInstalled
  <2>1. host.broker # Absent => may.static = {Names}
    BY <1>1, <1>4 DEF HostTyped, Durable
  <2>2. host.broker # Absent => host.static = Names
    BY <1>1, <2>1 DEF HostTyped
  <2> QED
    BY <2>1, <2>2 DEF Clean, StaticInstalled, StaticDestinations, RootWithoutCosign, Names
<1>7. PICK w \in Shas : host.broker = Absent \/ BrokerIs(1, w)
  <2>1. CASE host.broker.gen = 0
    BY <1>4, <2>1, GenerationsAssumption
  <2>2. CASE host.broker.gen = 1
    <3>1. host.broker = [gen |-> 1, sha |-> host.broker.sha]
      BY <1>4, <2>2 DEF Brokers
    <3>2. BrokerIs(1, host.broker.sha)
      BY <3>1 DEF BrokerIs, BrokerOf, FinalBroker
    <3> QED
      BY <1>4, <2>2, <3>2
  <2> QED
    BY <2>1, <2>2
<1>8. ResourcesAdmitted(w)
  BY <1>3, <1>5, <1>6, <1>7 DEF Clean, ResourcesAdmitted, ReplayValid, SourceUnit, StagedSource,
     Holds, TemporaryAbsent
<1>9. ~RootWithoutCosign
  <2>1. host.broker # Absent => ~RootWithoutCosign
    BY <1>6 DEF StaticInstalled, StaticDestinations
  <2>2. ~lost => ~RootWithoutCosign
    BY DEF GenerationsInv, OrderKept, InOrder, RootLast, RootWithoutCosign
  <2> QED
    BY <2>1, <2>2 DEF LostName
<1>10. Forward("resources", w)
  BY <1>8, <1>9 DEF Forward, Admitted
<1> QED
  BY <1>7, <1>10 DEF Operations

\* classify recognizes each of its four prefixes.
LEMMA PhaseIs ==
    ASSUME HostKept, temps = {}, NEW op \in Migrations, NEW w, NEW g, g = Target(op)
    PROVE  /\ /\ host.broker.gen = g - 1
              /\ g = 3 => host.broker.sha = PREDECESSOR_WORKFLOW_SHA
              => /\ host.app = Files + g - 2 /\ host.executor = g - 1 => Phase(op, w) = "predecessor"
                 /\ host.app = Files + g - 1 /\ host.executor = g - 1 => Phase(op, w) = "application"
                 /\ host.app = Files + g - 1 /\ host.executor = g => Phase(op, w) = "executor"
           /\ /\ host.broker = BrokerOf(g, IF g = 2 THEN host.broker.sha ELSE w)
              /\ host.app = Files + g - 1 /\ host.executor = g
              => Phase(op, w) = "complete"
<1>1. g \in {2, 3} /\ (g = 3 <=> op = "state_store") /\ (g = 2 <=> op = "successor")
  BY DEF Target, Migrations
<1>2. host \in HostType /\ host.app <= Files + 2 /\ Files \in Nat /\ host.app \in Nat
  BY GenerationsAssumption DEF HostKept, HostTyped, HostType
<1>3. /\ AppGeneration = g - 1 <=> host.app = Files + g - 2
      /\ AppGeneration = g <=> host.app = Files + g - 1
      /\ AppGeneration # g - 1 \/ AppGeneration # g
  BY <1>1, <1>2, ApplicationFacts
<1>4. ReadBroker = host.broker /\ ReadExecutor = host.executor
  BY DEF ReadBroker, ExactConfigurationFile, ReadExecutor
<1>5. PredecessorBroker(op) <=> /\ host.broker.gen = g - 1
                                /\ g = 3 => host.broker.sha = PREDECESSOR_WORKFLOW_SHA
  BY <1>1, <1>4 DEF PredecessorBroker
<1>6. TargetBroker(op, w) <=> host.broker = BrokerOf(g, IF g = 2 THEN host.broker.sha ELSE w)
  BY <1>1, <1>4 DEF TargetBroker, TargetSha
<1>7. \A v : BrokerOf(g, v).gen = g
  BY <1>1 DEF BrokerOf, SuccessorBroker, StateStoreBroker
<1>8. PredecessorBroker(op) => ~TargetBroker(op, w)
  BY <1>1, <1>5, <1>6, <1>7
<1> DEFINE A == AppGeneration = g - 1 /\ ReadExecutor = g - 1 /\ PredecessorBroker(op)
           B == AppGeneration = g /\ ReadExecutor = g - 1 /\ PredecessorBroker(op)
           C == AppGeneration = g /\ ReadExecutor = g /\ PredecessorBroker(op)
           D == AppGeneration = g /\ ReadExecutor = g /\ TargetBroker(op, w)
<1>9. g - 1 # g
  BY <1>1
<1>10. ~(A /\ B) /\ ~(A /\ C) /\ ~(A /\ D) /\ ~(B /\ C) /\ ~(B /\ D) /\ ~(C /\ D)
  BY <1>3, <1>8, <1>9
<1>11. Phase(op, w) = CASE A -> "predecessor" [] B -> "application" [] C -> "executor"
                       [] D -> "complete" [] OTHER -> "rejected"
  BY DEF Phase
<1>12. /\ A => Phase(op, w) = "predecessor"
       /\ B => Phase(op, w) = "application"
       /\ C => Phase(op, w) = "executor"
       /\ D => Phase(op, w) = "complete"
  <2> HIDE DEF A, B, C, D
  <2> QED
    BY <1>10, <1>11
<1> QED
  BY <1>3, <1>4, <1>5, <1>6, <1>12

\* A migration is admitted at each of its prefixes, with the stage that it left.
LEMMA MigrationGoesOn ==
    ASSUME GenerationsInv, Clean, host.unit = 1, NEW op \in Migrations, NEW w \in Shas,
           Inspect(op, w), op = "successor" => Phase(op, w) # "complete"
    PROVE  \E o \in Operations, v \in Shas : Forward(o, v)
<1>1. MigrationQualified(op, w)
  BY DEF Clean, MigrationQualified, ReviewedSuccessor, ReviewedStateStore, Holds,
     ControlPlaneClosed, ServicesClosed, RootlessRuntime, PersistentState
<1>2. Forward(op, w)
  BY <1>1 DEF Forward, Admitted, Migrations
<1> QED
  BY <1>2 DEF Operations

\* A host that no power loss has disordered, with something of a migration on it.
LEMMA MigrationHasNext ==
    ASSUME GenerationsInv, Clean, ~lost, MigrationBegun, ~RuntimeGone, ~RotatedBack
    PROVE  \E o \in Operations, v \in Shas : Forward(o, v)
<1>1. HostKept /\ HostTyped(host, may) /\ Durable(host, may) /\ host \in HostType
      /\ StageKept(host, may, stage)
  BY DEF GenerationsInv, HostKept, HostTyped
<1>2. host.broker \in Brokers /\ host.broker.gen >= 1 /\ host.broker.sha \in Shas
      /\ Files \in Nat /\ host.app \in Nat /\ host.app <= Files + 2
  BY <1>1, GenerationsAssumption DEF MigrationBegun, HostTyped, HostType, Brokers
<1>3. Chain(host) /\ (stage # NoStage => NextStage(host, stage))
      /\ (host.app > Files \/ stage # NoStage => host.unit = 1)
  BY <1>2 DEF GenerationsInv, OrderKept, InOrder
<1>4. stage.at \in {"none", "app", "executor", "broker"} /\ (stage.at = "none" => stage = NoStage)
  BY <1>1 DEF StageKept, StageType
<1>5. host.unit = 1
  <2>1. AppGeneration >= 2 => host.app > Files
    BY <1>1, <1>2, ApplicationFacts
  <2>2. host.executor >= 2 \/ host.broker.gen >= 2 => host.app > Files
    BY <1>2, <1>3 DEF Chain, Predecessor
  <2> QED
    BY <1>3, <2>1, <2>2 DEF MigrationBegun, Unstaged
<1>6. stage = NoStage => host.app > Files
  <2>1. AppGeneration >= 2 => host.app > Files
    BY <1>1, <1>2, ApplicationFacts
  <2>2. host.executor >= 2 \/ host.broker.gen >= 2 => host.app > Files
    BY <1>2, <1>3 DEF Chain, Predecessor
  <2> QED
    BY <2>1, <2>2 DEF MigrationBegun, Unstaged
<1>7. temps = {} /\ ReadBroker = host.broker
  BY DEF Clean, ReadBroker, ExactConfigurationFile
<1>8. "successor" \in Migrations /\ Target("successor") = 2
      /\ "state_store" \in Migrations /\ Target("state_store") = 3
  BY DEF Migrations, Target
<1>9. PREDECESSOR_WORKFLOW_SHA \in Shas
  BY GenerationsAssumption
<1>10. CASE host.broker.gen = 1
  <2>1. \/ host.executor = 1 /\ host.app = Files
        \/ host.executor = 1 /\ host.app = Files + 1
        \/ host.executor = 2 /\ host.app = Files + 1
    BY <1>3, <1>10 DEF Chain, Predecessor
  <2>2. PICK w : w = host.broker.sha
    OBVIOUS
  <2>3. w \in Shas
    BY <1>2, <2>2
  <2>4. /\ host.executor = 1 /\ host.app = Files => Phase("successor", w) = "predecessor"
        /\ host.executor = 1 /\ host.app = Files + 1 => Phase("successor", w) = "application"
        /\ host.executor = 2 => Phase("successor", w) = "executor"
    BY <1>1, <1>2, <1>7, <1>8, <1>10, <2>1, PhaseIs
  <2>5. /\ host.executor = 1 /\ host.app = Files => stage.at = "app"
        /\ host.executor = 1 /\ host.app = Files + 1 => stage.at \in {"none", "executor"}
        /\ host.executor = 2 => stage.at \in {"none", "broker"}
        /\ stage.at = "broker" => stage.sha = host.broker.sha
    BY <1>2, <1>3, <1>4, <1>6, <1>10, <2>1, NoStageFacts DEF NextStage, Predecessor
  <2>6. Phase("successor", w) \notin {"rejected", "complete"}
    BY <2>1, <2>4
  <2>7. StagePermitted("successor", w)
    <3>1. CASE host.executor = 1 /\ host.app = Files
      BY <2>4, <2>5, <3>1 DEF StagePermitted, NextDestination
    <3>2. CASE host.executor = 1 /\ host.app = Files + 1
      BY <2>4, <2>5, <3>2 DEF StagePermitted, NextDestination
    <3>3. CASE host.executor = 2
      BY <2>4, <2>5, <3>3 DEF StagePermitted, NextDestination
    <3> QED
      BY <2>1, <3>1, <3>2, <3>3
  <2>8. StageExact("successor", w)
    BY <1>7, <2>5 DEF StageExact, TargetSha
  <2>9. Inspect("successor", w)
    BY <2>6, <2>7, <2>8 DEF Inspect
  <2> QED
    BY <1>5, <1>8, <2>3, <2>6, <2>9, MigrationGoesOn
<1>11. CASE host.broker.gen = 2 /\ host.broker.sha = PREDECESSOR_WORKFLOW_SHA
  <2>1. \/ host.executor = 2 /\ host.app = Files + 1
        \/ host.executor = 2 /\ host.app = Files + 2
        \/ host.executor = 3 /\ host.app = Files + 2
    BY <1>3, <1>11 DEF Chain, Predecessor
  <2>2. PICK w \in Shas : w # PREDECESSOR_WORKFLOW_SHA /\ (stage.at = "broker" => w = stage.sha)
    <3>1. CASE stage.at = "broker"
      BY <1>3, <1>11, <3>1, NoStageFacts DEF NextStage
    <3>2. CASE stage.at # "broker"
      BY <1>9, <3>2, GenerationsAssumption
    <3> QED
      BY <3>1, <3>2
  <2>3. /\ host.executor = 2 /\ host.app = Files + 1 => Phase("state_store", w) = "predecessor"
        /\ host.executor = 2 /\ host.app = Files + 2 => Phase("state_store", w) = "application"
        /\ host.executor = 3 => Phase("state_store", w) = "executor"
    BY <1>1, <1>2, <1>7, <1>8, <1>11, <2>1, PhaseIs
  <2>4. /\ host.executor = 2 /\ host.app = Files + 1 => stage.at \in {"none", "app"}
        /\ host.executor = 2 /\ host.app = Files + 2 => stage.at \in {"none", "executor"}
        /\ host.executor = 3 => stage.at \in {"none", "broker"}
    BY <1>2, <1>3, <1>4, <1>11, <2>1, NoStageFacts DEF NextStage, Predecessor
  <2>5. Phase("state_store", w) # "rejected"
    BY <2>1, <2>3
  <2>6. StagePermitted("state_store", w)
    <3>1. CASE host.executor = 2 /\ host.app = Files + 1
      BY <2>3, <2>4, <3>1 DEF StagePermitted, NextDestination
    <3>2. CASE host.executor = 2 /\ host.app = Files + 2
      BY <2>3, <2>4, <3>2 DEF StagePermitted, NextDestination
    <3>3. CASE host.executor = 3
      BY <2>3, <2>4, <3>3 DEF StagePermitted, NextDestination
    <3> QED
      BY <2>1, <3>1, <3>2, <3>3
  <2>7. StageExact("state_store", w)
    BY <2>2 DEF StageExact, TargetSha
  <2>8. Inspect("state_store", w)
    BY <2>2, <2>5, <2>6, <2>7 DEF Inspect
  <2> QED
    BY <1>5, <1>8, <2>2, <2>8, MigrationGoesOn
<1>12. CASE host.broker.gen = 2 /\ host.broker.sha # PREDECESSOR_WORKFLOW_SHA
  <2>1. host.executor = 2 /\ host.app = Files + 1
    BY <1>3, <1>12 DEF Chain, Predecessor
  <2>2. stage = NoStage
    BY <1>2, <1>3, <1>4, <1>12, <2>1 DEF NextStage, Predecessor
  <2>3. PICK w : w = host.broker.sha
    OBVIOUS
  <2>4. host.broker = BrokerOf(2, w)
    BY <1>2, <1>12, <2>3 DEF BrokerOf, SuccessorBroker, Brokers
  <2>5. Phase("successor", w) = "complete"
    BY <1>1, <1>2, <1>7, <1>8, <2>1, <2>3, <2>4, PhaseIs
  <2>6. Inspect("successor", w)
    BY <2>2, <2>5 DEF Inspect, StagePermitted, StageExact, NoStage
  <2>7. MigrationQualified("successor", w)
    BY <1>5, <2>6 DEF Clean, MigrationQualified, ReviewedSuccessor, Holds,
       ControlPlaneClosed, ServicesClosed, RootlessRuntime, PersistentState
  <2>8. host.static = Names /\ host.runtime = Directories
    <3>1. host.runtime \in Nat /\ Directories \in Nat /\ host.runtime <= Directories
      BY <1>1, GenerationsAssumption DEF HostTyped, HostType
    <3>2. host.runtime = Directories
      BY <1>12, <3>1 DEF RuntimeGone
    <3> QED
      BY <1>1, <1>2, <3>2 DEF HostTyped, Durable
  <2>9. ResourceQualification(2, w)
    BY <1>5, <2>4, <2>8 DEF Clean, ResourceQualification, BrokerDirectories, BrokerIs,
       TemporaryAbsent, ReplayValid, Holds, StaticInstalled, StaticDestinations,
       RootWithoutCosign, Names
  <2>10. LiveAuthority("successor", w)
    BY <1>8, <2>2, <2>5, <2>7, <2>9 DEF LiveAuthority, Unstaged
  <2>11. Forward("rotate_successor", PREDECESSOR_WORKFLOW_SHA)
    BY <1>12, <2>3, <2>10 DEF Forward, Admitted, RotateSuccessor, QualifiedSuccessor
  <2> QED
    BY <1>9, <2>11 DEF Operations, Rotations
<1>13. CASE host.broker.gen = 3
  <2>1. host.executor = 3 /\ host.app = Files + 2
    BY <1>3, <1>13 DEF Chain, Predecessor
  <2>2. stage = NoStage
    BY <1>2, <1>3, <1>4, <1>13, <2>1 DEF NextStage, Predecessor
  <2>3. PICK w : w = host.broker.sha
    OBVIOUS
  <2>4. host.broker = BrokerOf(3, w)
    BY <1>2, <1>13, <2>3 DEF BrokerOf, StateStoreBroker, Brokers
  <2>5. Phase("state_store", w) = "complete"
    BY <1>1, <1>2, <1>7, <1>8, <2>1, <2>4, PhaseIs
  <2>6. w # PREDECESSOR_WORKFLOW_SHA
    BY <2>4 DEF RotatedBack, BrokerOf
  <2>7. Inspect("state_store", w)
    BY <2>2, <2>5, <2>6 DEF Inspect, StagePermitted, StageExact, NoStage
  <2> QED
    BY <1>2, <1>5, <1>8, <2>3, <2>7, MigrationGoesOn
<1>14. host.broker.gen \in {1, 2, 3}
  BY <1>2 DEF Brokers
<1> QED
  BY <1>10, <1>11, <1>12, <1>13, <1>14

\* Some operation takes the host further, unless something unfinished was left, a
\* power loss took a name back from under a migration or from under the trusted
\* root, the successor generation has lost its runtime directories, or the
\* state-store generation was rotated to the SHA of its predecessor.
THEOREM HostGoesOn == GenerationsSpec => []NoOtherDeadEnd
<1>1. GenerationsInv => NoOtherDeadEnd
  <2> SUFFICES ASSUME GenerationsInv, Clean, ~LostName, ~RuntimeGone, ~RotatedBack
               PROVE  \E op \in Operations, w \in Shas : Forward(op, w)
    BY DEF NoOtherDeadEnd, Clean
  <2>1. CASE MigrationBegun
    BY <2>1, MigrationHasNext DEF GenerationsInv, LostName
  <2>2. CASE ~MigrationBegun
    <3>1. HostTyped(host, may) /\ Durable(host, may) /\ StageKept(host, may, stage) /\ host \in HostType
      BY DEF GenerationsInv, HostKept, HostTyped
    <3>2. host.app \in Nat /\ Files \in Nat /\ host.executor \in 0..3 /\ host.broker \in Brokers
          /\ host.broker.gen \in 0..3 /\ (host.broker.gen = 0 <=> host.broker = Absent)
          /\ host.app <= Files + 2
      BY <3>1, GenerationsAssumption DEF HostTyped, HostType, Brokers, Absent
    <3>3. host.app <= Files /\ host.executor <= 1 /\ host.broker.gen <= 1
          /\ (host.broker.gen >= 1 => stage = NoStage)
      <4>1. CASE host.broker.gen = 0
        <5>1. ~BrokerStays(may)
          BY <3>1, <4>1 DEF HostTyped, BrokerStays
        <5> QED
          BY <3>1, <3>2, <4>1, <5>1 DEF HostTyped, Durable
      <4>2. CASE host.broker.gen # 0
        <5>1. ~(AppGeneration >= 2) /\ ~(host.executor >= 2) /\ ~(host.broker.gen >= 2) /\ stage = NoStage
          BY <2>2, <3>2, <4>2 DEF MigrationBegun, Unstaged
        <5> QED
          BY <3>1, <3>2, <5>1, ApplicationFacts
      <4> QED
        BY <4>1, <4>2
    <3>4. \/ stage = NoStage
          \/ host.executor = 0 /\ stage.at = "app" /\ host.app < Files
          \/ host.executor = 0 /\ stage.at = "executor" /\ host.app = Files
      <4>1. host.broker.gen = 0 => ~BrokerStays(may)
        BY <3>1 DEF HostTyped, BrokerStays
      <4> QED
        BY <3>1, <3>2, <3>3, <4>1 DEF StageKept
    <3>5. CASE host.executor = 0
      BY <3>3, <3>4, <3>5, NoStageFacts, FinalGoesOn
    <3>6. CASE host.executor = 1
      <4>1. host.app >= Files
        BY <3>1, <3>6 DEF HostTyped, Durable
      <4>2. host.app = Files /\ host.broker.gen \in {0, 1} /\ stage = NoStage
        BY <3>2, <3>3, <3>4, <3>6, <4>1
      <4> QED
        BY <3>6, <4>2, ResourcesGoOn
    <3> QED
      BY <3>2, <3>3, <3>5, <3>6
  <2> QED
    BY <2>1, <2>2
<1> QED
  BY <1>1, GenerationsAreInductive, PTL
-----------------------------------------------------------------------------
(* The inductive invariant of the Analytics installation and of the owner's  *)
(* operations on it. *)

ExecutorSteps == {"preflight", "begin", "host", "pull", "digest", "up",
                  "verify", "ready", "finish", "stop"}

\* Steps at which the container may run and has not been accepted yet.
Undecided == {"verify", "ready", "finish", "stop"}

Call == [pc : ExecutorSteps, request : Requests]

InstallTyped ==
    /\ slot \in {"none", "running", "stopped"}
    /\ row \in [Requests -> {"absent", "consumed", "executing", "finished"}]
    /\ answered \in [Requests -> {"none", "accepted", "unavailable"}]
    /\ serving = Resting \/ serving \in Call

\* A request is served once: its row says so while it is served and after.
ServedOnce ==
    /\ \A r \in Requests : answered[r] # "none" => row[r] # "absent"
    /\ \A r \in Requests : answered[r] = "accepted" => row[r] = "finished"
    /\ serving # Resting =>
          answered[serving.request] = "none" /\ row[serving.request] # "absent"

Accepted == \E r \in Requests : answered[r] = "accepted" /\ row[r] = "finished"

RunsAccepted ==
    slot = "running" /\ serving.pc \notin Undecided => lapses # {} \/ Accepted

InstallInv == InstallTyped /\ ServedOnce /\ RunsAccepted

Finishing == {"reload", "clear", "listen", "probe", "absent_again", "serve",
              "stable", "complete"}
Publishing == {"preimage", "publish"} \cup Finishing
Restoring == {"restore_absent", "preserve", "restore_known", "restore",
              "reinspect", "restore_reload"}

OwnerSteps == Preparation \cup Stopping \cup Publishing \cup Restoring
                \cup {"confirm", "absent", "report"}

OwnerType ==
    [op : OwnerOperations, mode : Modes, sha : Workflows, next : Nat,
     failing : BOOLEAN, changed : BOOLEAN, control : BOOLEAN,
     errors : BOOLEAN, pc : OwnerSteps]

FileType == [kind : {"config", "source", "asset", "records"}, gen : Nat, index : Int]
Leftovers == [path : FileType, suffix : {"normal", "recovery"}]

LiveType == [source : [Generations -> SUBSET Nat], asset : [1..Assets -> Nat],
             config : Nat]

FilesTyped ==
    /\ live \in LiveType
    /\ \A g \in Generations : live.source[g] \subseteq SourceFiles(g)

PlaneTyped ==
    /\ leftovers \subseteq Leftovers
    /\ evidence \in [OwnerOperations -> [at : {"none", "partial", "complete"}, sha : Nat]]
    /\ unit \in [broker : BOOLEAN, listener : BOOLEAN]

\* Every file is the one before or the one after operation op with SHA w.
Between(op, w) ==
    /\ \A h \in Generations \ {To(op)} :
          live.source[h] = IF h <= To(op) THEN SourceFiles(h) ELSE {}
    /\ \A i \in 1..Assets : live.asset[i] \in {From(op), To(op)}
    /\ live.config \in {From(op), w}

\* Interrupted writes of sources, if any, are those of op.
Own(op) == \A l \in SourceLeftovers : l.path.gen = To(op)

Kept(op, w) ==
    /\ evidence[op].at = "complete"
    /\ op = "resume" => evidence[op].sha = w

IsRecovery(o) == o.mode = "recover"

\* The shape of an operation: which steps belong to which of its courses.
Course(o) ==
    /\ o.sha \notin {0, From(o.op)}
    /\ o.next >= 1
    /\ o.pc \in Preparation \cup Stopping \cup {"confirm", "absent", "preimage",
                "restore_absent", "preserve", "restore_known"} => o.next = 1
    /\ o.pc = "reinspect" /\ o.op = "resume" => o.next = 1
    /\ IsRecovery(o) => ~o.failing /\ ~o.changed /\ ~o.errors
    /\ o.failing => o.pc \in Stopping \cup Restoring \cup {"confirm", "report"}
    /\ o.errors => o.failing /\ o.pc = "report"
    /\ o.pc \in {"inspect", "directory", "retain", "absent"} => ~IsRecovery(o) /\ ~o.changed
    /\ o.pc \in Publishing => o.changed
    /\ o.pc \in Restoring \cup {"report"} => o.failing \/ IsRecovery(o)
    /\ o.failing /\ o.pc \in Restoring => o.changed
    /\ o.changed => o.failing \/ o.pc \in Publishing
    /\ o.pc \in {"qualify", "preserve", "reinspect"} => IsRecovery(o)
    /\ o.pc = "preserve" => o.op # "resume"

\* Files are only touched while the whole plane is stopped and empty.
Quiet(o) ==
    /\ o.pc \in {"absent", "preimage", "publish", "reload", "clear", "listen"} \cup Restoring
          => Stopped
    /\ o.pc = "report" /\ ~o.errors => Stopped
    /\ o.pc \in {"preimage", "publish"} \cup (Restoring \ {"restore_absent"})
          => NoApplication

\* The operation has inspected or qualified the files it will restore.
Grounded(o) ==
    \/ o.changed
    \/ IsRecovery(o) /\ o.op # "resume" /\ o.pc # "qualify"
    \/ IsRecovery(o) /\ o.pc \in {"restore_known", "restore", "restore_reload", "report"}

Evident(o) ==
    /\ o.pc \notin {"inspect", "directory", "retain", "qualify"}
          => Kept(o.op, o.sha) /\ (IsRecovery(o) \/ evidence[o.op].sha = o.sha)
    /\ ~IsRecovery(o) /\ o.pc # "inspect" => SourceLeftovers = {}
    /\ ~IsRecovery(o) /\ ~o.changed /\ o.pc # "inspect" => OldGeneration(o.op)
    /\ Grounded(o) => Between(o.op, o.sha) /\ Own(o.op)

\* The files of the generation that op leads to, with the configuration of w.
NewGeneration(op, w) == Whole(To(op)) /\ live.config = w

Advanced(o) ==
    /\ o.pc = "publish" =>
          \A i \in Entries(o.op) : i < o.next => IsAfter(o.op, o.sha, i)
    /\ o.pc \in Finishing => NewGeneration(o.op, o.sha)
    /\ o.op = "resume" /\ o.pc = "restore" /\ o.next > 1 => live.config = 0
    /\ o.op = "resume" /\ o.pc = "restore_reload" => live.config = 0
    /\ o.op = "resume" /\ o.pc = "report" /\ ~o.errors => live.config = 0

Sound(o) == o = NoOwner \/ (o \in OwnerType /\ Course(o) /\ Quiet(o) /\ Evident(o) /\ Advanced(o))

\* Operation p is operation o at step q.
Follows(p, o, q) ==
    /\ p \in OwnerType /\ p.pc = q
    /\ p.op = o.op /\ p.mode = o.mode /\ p.sha = o.sha /\ p.next = o.next
    /\ p.failing = o.failing /\ p.changed = o.changed
    /\ p.control = o.control /\ p.errors = o.errors

\* What a recovery needs, but for the temporaries of an interrupted restoration.
Mixed(op, w) == Between(op, w) /\ Kept(op, w) /\ (ManualReview \/ Own(op))

Mixture ==
    ~Coherent =>
        /\ Stopped /\ NoApplication
        /\ \E op \in OwnerOperations, w \in Workflows : Mixed(op, w)

AnalyticsInv == InstallInv /\ FilesTyped /\ PlaneTyped /\ Sound(owner) /\ Mixture

-----------------------------------------------------------------------------
(* The installation. *)

\* Every step of the executor keeps the installation's invariant.
LEMMA ExecutorStepIsSound ==
    InstallInv /\ ExecutorStep => InstallInv'
<1> SUFFICES ASSUME InstallInv, ExecutorStep PROVE InstallInv'
  OBVIOUS
<1>1. serving \in Call /\ serving # Resting
  BY DEF InstallInv, InstallTyped, ExecutorStep, ExecutorPreflight, BeginExecution,
     HostPreflight, Pull, VerifyLocalDigest, Up, VerifyPrivateContainer, PrivateReady,
     FinishExecution, StopFirstSlot, Check, InspectContainer, At, Resting
<1>2. PICK s \in Call : s = serving
  BY <1>1
<1>3. PICK r \in Requests : r = s.request
  BY <1>2 DEF Call
<1>4. s.pc \in ExecutorSteps
  BY <1>2 DEF Call
<1>5. answered[r] = "none" /\ row[r] # "absent"
  BY <1>1, <1>2, <1>3 DEF InstallInv, ServedOnce
<1>6. ASSUME NEW p \in ExecutorSteps, NEW q \in ExecutorSteps,
             s.pc = p, p \notin Undecided, GoTo(q), UNCHANGED <<slot, row, answered, lapses>>
      PROVE  InstallInv'
  BY <1>1, <1>2, <1>6 DEF InstallInv, InstallTyped, ServedOnce, RunsAccepted, GoTo, Call,
     Accepted, Resting
<1>7. ASSUME s.pc \notin Undecided, Answer("unavailable"), UNCHANGED <<slot, row, lapses>>
      PROVE  InstallInv'
  BY <1>1, <1>2, <1>3, <1>5, <1>7 DEF InstallInv, InstallTyped, ServedOnce, RunsAccepted,
     Answer, Call, Accepted, Resting, Undecided
<1>a. CASE ExecutorPreflight \/ HostPreflight \/ Pull \/ VerifyLocalDigest
  <2>1. s.pc \in {"preflight", "host", "pull", "digest"} /\ UNCHANGED <<slot, row, lapses>>
    BY <1>2, <1>a DEF ExecutorPreflight, HostPreflight, Pull, VerifyLocalDigest, Check, At
  <2>2. CASE Answer("unavailable")
    BY <1>7, <2>1, <2>2 DEF Undecided
  <2>3. CASE ~Answer("unavailable")
    <3>1. \E q \in ExecutorSteps : GoTo(q) /\ UNCHANGED answered
      BY <1>a, <2>3 DEF ExecutorPreflight, HostPreflight, Pull, VerifyLocalDigest, Check,
         ExecutorSteps
    <3> QED
      BY <1>6, <2>1, <3>1 DEF Undecided, ExecutorSteps
  <2> QED
    BY <2>2, <2>3
<1>b. CASE BeginExecution
  <2>1. s.pc = "begin" /\ UNCHANGED <<slot, lapses>>
    BY <1>2, <1>b DEF BeginExecution, At
  <2>2. PICK v \in {"consumed", "executing"} : row' = [row EXCEPT ![r] = v]
    BY <1>2, <1>3, <1>b DEF BeginExecution
  <2>3. CASE Answer("unavailable")
    BY <1>1, <1>2, <1>3, <1>5, <2>1, <2>2, <2>3 DEF InstallInv, InstallTyped, ServedOnce,
       RunsAccepted, Answer, Call, Accepted, Resting, Undecided
  <2>4. CASE GoTo("host") /\ UNCHANGED answered
    BY <1>1, <1>2, <1>3, <1>5, <2>1, <2>2, <2>4 DEF InstallInv, InstallTyped, ServedOnce,
       RunsAccepted, GoTo, Call, Accepted, Resting, Undecided, ExecutorSteps
  <2> QED
    BY <1>b, <2>3, <2>4 DEF BeginExecution
<1>c. CASE Up
  BY <1>1, <1>2, <1>3, <1>5, <1>c DEF Up, At, GoTo, InstallInv, InstallTyped, ServedOnce,
     RunsAccepted, Call, Accepted, Resting, Undecided, ExecutorSteps
<1>d. CASE VerifyPrivateContainer \/ PrivateReady
  BY <1>1, <1>2, <1>3, <1>5, <1>d DEF VerifyPrivateContainer, PrivateReady, InspectContainer,
     At, GoTo, InstallInv, InstallTyped, ServedOnce, RunsAccepted, Call, Accepted, Resting,
     Undecided, ExecutorSteps
<1>e. CASE FinishExecution
  <2>1. s.pc = "finish" /\ UNCHANGED <<slot, lapses>>
    BY <1>2, <1>e DEF FinishExecution, At
  <2>2. CASE row' = [row EXCEPT ![r] = "finished"] /\ Answer("accepted")
    BY <1>1, <1>2, <1>3, <1>5, <2>1, <2>2 DEF InstallInv, InstallTyped, ServedOnce,
       RunsAccepted, Answer, Call, Accepted, Resting, Undecided
  <2>3. ASSUME NEW v \in {"executing", "finished"}, row' = [row EXCEPT ![r] = v],
               GoTo("stop"), UNCHANGED answered
        PROVE  InstallInv'
    BY <1>1, <1>2, <1>3, <1>5, <2>1, <2>3 DEF InstallInv, InstallTyped, ServedOnce,
       RunsAccepted, GoTo, Call, Accepted, Resting, Undecided, ExecutorSteps
  <2> QED
    BY <1>2, <1>3, <1>e, <2>2, <2>3 DEF FinishExecution
<1>f. CASE StopFirstSlot
  <2>1. s.pc = "stop" /\ UNCHANGED row /\ Answer("unavailable")
    BY <1>2, <1>f DEF StopFirstSlot, At
  <2>2. slot' \in {"none", "running", "stopped"} /\ (slot' = "running" => lapses' # {})
    BY <1>f DEF StopFirstSlot, Halted, InstallInv, InstallTyped
  <2> QED
    BY <1>1, <1>2, <1>3, <1>5, <2>1, <2>2 DEF InstallInv, InstallTyped, ServedOnce,
       RunsAccepted, Answer, Call, Accepted, Resting, Undecided
<1> QED
  BY <1>a, <1>b, <1>c, <1>d, <1>e, <1>f DEF ExecutorStep

\* A killed executor leaves the slot as it is, and that is remembered.
LEMMA KillExecutorIsSound ==
    InstallInv /\ KillExecutor => InstallInv'
BY DEF InstallInv, InstallTyped, ServedOnce, RunsAccepted, KillExecutor, Resting, Accepted

\* A token is consumed before its request is forwarded.
LEMMA ForwardIsSound ==
    ASSUME InstallInv, NEW r \in Requests, ForwardRequest(r)
    PROVE  InstallInv'
<1>1. PICK s \in Call : s = [pc |-> "preflight", request |-> r]
  BY DEF Call, ExecutorSteps
<1>2. serving' = s /\ serving = Resting /\ row[r] = "absent"
      /\ row' = [row EXCEPT ![r] = "consumed"] /\ UNCHANGED <<slot, answered, lapses>>
  BY <1>1 DEF ForwardRequest
<1>3. s.pc = "preflight" /\ s.request = r /\ s # Resting
  BY <1>1 DEF Resting
<1> QED
  BY <1>2, <1>3 DEF InstallInv, InstallTyped, ServedOnce, RunsAccepted, Accepted, Undecided,
     Resting

-----------------------------------------------------------------------------
(* The files of an operation. *)

\* Generations and entries of the four operations.
LEMMA OperationFacts ==
    ASSUME NEW op \in OwnerOperations
    PROVE  /\ op \in {"resume", "identity", "transport", "stream"}
           /\ To(op) \in Generations /\ From(op) \in Workflows /\ To(op) \in Nat
           /\ op = "resume" => To(op) = 0 /\ From(op) = 0 /\ SourceCount(op) = 0 /\ Last(op) = 1
           /\ op # "resume" => /\ To(op) = From(op) + 1 /\ To(op) \in {1, 2, 3}
                               /\ SourceCount(op) \in Nat \ {0}
                               /\ Last(op) = SourceCount(op) + Assets + 1
                               /\ SourceFiles(To(op)) = 1..SourceCount(op)
           /\ SourceCount(op) \in Nat /\ Last(op) \in Nat \ {0}
           /\ SourceCount(op) < Last(op)
<1>1. op \in {"resume", "identity", "transport", "stream"}
  BY DEF OwnerOperations, Repairs
<1>a. CASE op = "resume"
  BY <1>a DEF To, From, Generations, Workflows, SourceCount, Last
<1>b. CASE op = "identity"
  BY <1>b, AnalyticsAssumption DEF To, From, Generations, Workflows, SourceCount, Last, SourceFiles
<1>c. CASE op = "transport"
  BY <1>c, AnalyticsAssumption DEF To, From, Generations, Workflows, SourceCount, Last, SourceFiles
<1>d. CASE op = "stream"
  BY <1>d, AnalyticsAssumption DEF To, From, Generations, Workflows, SourceCount, Last, SourceFiles
<1> QED
  BY <1>1, <1>a, <1>b, <1>c, <1>d

\* The configuration is the last entry and no source.
LEMMA LastEntry ==
    ASSUME NEW op \in OwnerOperations
    PROVE  Last(op) \in Entries(op) /\ Last(op) \in Nat /\ ~IsSource(op, Last(op))
BY OperationFacts DEF Entries, IsSource

\* An entry is a source, an asset or, last, the configuration.
LEMMA EntryKinds ==
    ASSUME NEW op \in OwnerOperations, NEW i \in Nat, 1 <= i, i <= Last(op)
    PROVE  \/ i = Last(op)
           \/ /\ op # "resume" /\ i # Last(op) /\ IsSource(op, i)
              /\ i \in 1..SourceCount(op)
           \/ /\ op # "resume" /\ i # Last(op) /\ ~IsSource(op, i)
              /\ AssetAt(op, i) \in 1..Assets
BY OperationFacts, AnalyticsAssumption DEF IsSource, AssetAt

\* The entry of an asset.
LEMMA AssetEntry ==
    ASSUME NEW op \in OwnerOperations, op # "resume", NEW k \in 1..Assets
    PROVE  /\ SourceCount(op) + k \in Entries(op)
           /\ SourceCount(op) + k # Last(op)
           /\ ~IsSource(op, SourceCount(op) + k)
           /\ AssetAt(op, SourceCount(op) + k) = k
BY OperationFacts, AnalyticsAssumption DEF IsSource, AssetAt, Entries

\* The files of the old generation are files that the operation knows.
LEMMA OldIsBetween ==
    ASSUME NEW op \in OwnerOperations, NEW w, OldGeneration(op)
    PROVE  Between(op, w)
<1>1. ASSUME NEW h \in Generations, h # To(op) PROVE (h <= From(op)) <=> (h <= To(op))
  BY <1>1, OperationFacts DEF Generations, Workflows
<1> QED
  BY <1>1, OperationFacts DEF Between, OldGeneration, Whole

\* Whatever lies between is known entry by entry.
LEMMA BetweenIsKnown ==
    ASSUME NEW op \in OwnerOperations, NEW w, Between(op, w)
    PROVE  \A i \in Entries(op) : Known(op, w, i)
<1> SUFFICES ASSUME NEW i \in Entries(op) PROVE Known(op, w, i)
  OBVIOUS
<1>1. i \in Nat /\ 1 <= i /\ i <= Last(op)
  BY OperationFacts DEF Entries
<1>2. CASE i = Last(op)
  BY <1>2 DEF Known, IsBefore, IsAfter, Between
<1>3. CASE i # Last(op) /\ IsSource(op, i)
  BY <1>3 DEF Known, IsBefore, IsAfter
<1>4. CASE i # Last(op) /\ ~IsSource(op, i)
  <2>1. PICK k \in 1..Assets : k = AssetAt(op, i)
    BY <1>1, <1>4, EntryKinds
  <2> QED
    BY <1>4, <2>1 DEF Known, IsBefore, IsAfter, Between
<1> QED
  BY <1>2, <1>3, <1>4

\* What a repair's recovery qualified lies between the two generations.
LEMMA QualifiedIsBetween ==
    ASSUME NEW op \in OwnerOperations, op # "resume", NEW w,
           \A i \in Entries(op) : Known(op, w, i), PartialTree(op)
    PROVE  Between(op, w)
<1>1. live.config \in {From(op), w}
  BY LastEntry DEF Known, IsBefore, IsAfter
<1>2. ASSUME NEW k \in 1..Assets PROVE live.asset[k] \in {From(op), To(op)}
  <2>1. PICK i \in Entries(op) : i = SourceCount(op) + k
    BY AssetEntry
  <2>2. i # Last(op) /\ ~IsSource(op, i) /\ AssetAt(op, i) = k
    BY <2>1, AssetEntry
  <2> QED
    BY <2>1, <2>2 DEF Known, IsBefore, IsAfter
<1> QED
  BY <1>1, <1>2 DEF Between, PartialTree

\* When every entry is published the new generation is whole.
LEMMA AllPublished ==
    ASSUME NEW op \in OwnerOperations, NEW w, FilesTyped, Between(op, w),
           \A i \in Entries(op) : IsAfter(op, w, i)
    PROVE  NewGeneration(op, w)
<1>1. live.config = w
  BY LastEntry DEF IsAfter
<1>2. CASE op = "resume"
  <2>1. live.source[0] = {}
    BY DEF FilesTyped, SourceFiles, Generations
  <2>2. SourceFiles(0) = {}
    BY DEF SourceFiles
  <2> QED
    BY <1>1, <1>2, <2>1, <2>2, OperationFacts DEF Between, NewGeneration, Whole, Generations
<1>3. CASE op # "resume"
  <2>1. ASSUME NEW k \in 1..Assets PROVE live.asset[k] = To(op)
    <3>1. PICK i \in Entries(op) : i = SourceCount(op) + k
      BY <1>3, AssetEntry
    <3>2. i # Last(op) /\ ~IsSource(op, i) /\ AssetAt(op, i) = k
      BY <1>3, <3>1, AssetEntry
    <3> QED
      BY <3>1, <3>2 DEF IsAfter
  <2>2. ASSUME NEW i \in 1..SourceCount(op) PROVE i \in live.source[To(op)]
    <3>1. i \in Entries(op) /\ i # Last(op) /\ IsSource(op, i)
      BY <1>3, OperationFacts, AnalyticsAssumption DEF Entries, IsSource
    <3> QED
      BY <3>1 DEF IsAfter
  <2>3. live.source[To(op)] = SourceFiles(To(op))
    BY <1>3, <2>2, OperationFacts DEF FilesTyped
  <2> QED
    BY <1>1, <2>1, <2>3, OperationFacts DEF Between, NewGeneration, Whole, Generations
<1> QED
  BY <1>2, <1>3

\* A repair leads from one generation to another.
LEMMA OldIsNotNew ==
    ASSUME NEW op \in OwnerOperations, Whole(From(op)), Whole(To(op))
    PROVE  op = "resume" /\ From(op) = 0
<1>1. 1 \in 1..Assets
  BY AnalyticsAssumption
<1>2. From(op) = To(op)
  BY <1>1 DEF Whole
<1>3. PICK g \in 0..2 : g = From(op)
  BY OperationFacts DEF Workflows
<1>4. op # "resume" => To(op) = g + 1
  BY <1>3, OperationFacts
<1> QED
  BY <1>2, <1>3, <1>4, OperationFacts

\* The new generation with the SHA that its evidence pins is coherent.
LEMMA NewIsCoherent ==
    ASSUME NEW op \in OwnerOperations, NEW w, NewGeneration(op, w),
           evidence[op].at = "complete", evidence[op].sha = w
    PROVE  Coherent
BY DEF NewGeneration, Coherent

-----------------------------------------------------------------------------
(* Steps that change nothing but the operation itself. *)

\* An operation is sound as long as the files and the plane are the same.
LEMMA OnlyOwnerIsSound ==
    ASSUME AnalyticsInv, NEW o, owner' = o, Sound(o),
           UNCHANGED <<installVars, live, leftovers, evidence, unit>>
    PROVE  AnalyticsInv'
<1>1. slot' = slot /\ row' = row /\ serving' = serving /\ answered' = answered
      /\ lapses' = lapses /\ live' = live /\ leftovers' = leftovers
      /\ evidence' = evidence /\ unit' = unit
  BY DEF installVars
<1>2. InstallInv'
  BY <1>1 DEF AnalyticsInv, InstallInv, InstallTyped, ServedOnce, RunsAccepted, Accepted
<1>3. FilesTyped' /\ PlaneTyped'
  BY <1>1 DEF AnalyticsInv, FilesTyped, PlaneTyped
<1>4. Quiet(o)' <=> Quiet(o)
  BY <1>1 DEF Quiet, Stopped, ExecutorIdle, NoApplication
<1>5. Evident(o)' <=> Evident(o)
  BY <1>1 DEF Evident, Kept, SourceLeftovers, OldGeneration, Whole, Between, Own
<1>6. Advanced(o)' <=> Advanced(o)
  BY <1>1 DEF Advanced, IsAfter, NewGeneration, Whole
<1>7. Sound(owner)'
  BY <1>4, <1>5, <1>6 DEF Sound
<1>8. Mixture'
  <2>1. Coherent' <=> Coherent
    BY <1>1 DEF Coherent, Whole
  <2>2. \A op \in OwnerOperations, w \in Workflows : Mixed(op, w)' <=> Mixed(op, w)
    BY <1>1 DEF Mixed, Between, Kept, ManualReview, Own, SourceLeftovers
  <2> QED
    BY <1>1, <2>1, <2>2 DEF AnalyticsInv, Mixture, Stopped, ExecutorIdle, NoApplication
<1> QED
  BY <1>2, <1>3, <1>7, <1>8 DEF AnalyticsInv

\* The next step of an operation leaves the rest of it alone.
LEMMA Moved ==
    ASSUME NEW o \in OwnerType, NEW q \in OwnerSteps
    PROVE  Follows([o EXCEPT !.pc = q], o, q)
<1>1. PICK p : p = [o EXCEPT !.pc = q]
  OBVIOUS
<1>2. p \in OwnerType
  BY <1>1 DEF OwnerType
<1>3. /\ p.pc = q /\ p.op = o.op /\ p.mode = o.mode /\ p.sha = o.sha
      /\ p.next = o.next /\ p.failing = o.failing /\ p.changed = o.changed
      /\ p.control = o.control /\ p.errors = o.errors
  BY <1>1 DEF OwnerType
<1>4. Follows(p, o, q)
  BY <1>2, <1>3 DEF Follows
<1> QED
  BY <1>1, <1>4

\* An exception ends an operation that has not stopped anything yet, and every
\* recovery; it makes a resume or a repair stop and restore, once.
LEMMA RaisedIsSound ==
    ASSUME Sound(owner), owner # NoOwner, NEW c \in BOOLEAN
    PROVE  Sound(Raised(c))
<1>1. PICK o \in OwnerType : o = owner
  BY DEF Sound
<1>2. Course(o) /\ Quiet(o) /\ Evident(o) /\ Advanced(o)
  BY <1>1 DEF Sound
<1>3. CASE owner.pc \in Preparation \/ Recovers
  BY <1>3 DEF Raised, Sound
<1>4. CASE ~(o.pc \in Preparation \/ IsRecovery(o)) /\ o.failing
  <2>0. PICK p : p = [o EXCEPT !.pc = "report"]
    OBVIOUS
  <2>1. p \in OwnerType /\ p = [o EXCEPT !.pc = "report"]
            /\ p.pc = "report" /\ p.op = o.op /\ p.mode = o.mode /\ p.sha = o.sha
            /\ p.next = o.next /\ p.failing = o.failing /\ p.changed = o.changed
    BY <2>0, Moved DEF OwnerSteps, Follows
  <2>2. PICK p2 : p2 = [p EXCEPT !.errors = TRUE]
    OBVIOUS
  <2>3. p2 \in OwnerType
    BY <2>1, <2>2 DEF OwnerType
  <2>4. /\ p2.pc = "report" /\ p2.op = o.op /\ p2.mode = o.mode /\ p2.sha = o.sha
        /\ p2.next = o.next /\ p2.failing = o.failing /\ p2.changed = o.changed
        /\ p2.errors
    BY <2>1, <2>2 DEF OwnerType
  <2>5. Raised(c) = p2
    BY <1>1, <1>4, <2>1, <2>2 DEF Raised, Recovers, IsRecovery, OwnerType
  <2>6. Course(p2)
    BY <1>2, <1>4, <2>4 DEF Course, IsRecovery, Restoring, Publishing, Finishing, Stopping,
       Preparation
  <2>7. Quiet(p2) /\ Advanced(p2)
    BY <2>4 DEF Quiet, Advanced, Restoring, Finishing
  <2>8. Evident(p2)
    BY <1>2, <1>4, <2>4 DEF Evident, Grounded, IsRecovery, Preparation
  <2> QED
    BY <2>3, <2>5, <2>6, <2>7, <2>8 DEF Sound
<1>5. CASE ~(o.pc \in Preparation \/ IsRecovery(o)) /\ ~o.failing
  <2>0. PICK p : p = [o EXCEPT !.pc = "stop_broker"]
    OBVIOUS
  <2>1. p \in OwnerType /\ p = [o EXCEPT !.pc = "stop_broker"]
            /\ p.pc = "stop_broker" /\ p.op = o.op /\ p.mode = o.mode /\ p.sha = o.sha
            /\ p.errors = o.errors /\ p.changed = o.changed
    BY <2>0, Moved DEF OwnerSteps, Stopping, Follows
  <2>2. PICK p1 : p1 = [p EXCEPT !.failing = TRUE]
    OBVIOUS
  <2>3. p1 \in OwnerType
    BY <2>1, <2>2 DEF OwnerType
  <2>4. PICK p2 : p2 = [p1 EXCEPT !.control = c]
    OBVIOUS
  <2>5. p2 \in OwnerType
    BY <2>3, <2>4 DEF OwnerType
  <2>6. PICK p3 : p3 = [p2 EXCEPT !.next = 1]
    OBVIOUS
  <2>7. p3 \in OwnerType
    BY <2>5, <2>6 DEF OwnerType
  <2>8. /\ p3.pc = "stop_broker" /\ p3.op = o.op /\ p3.mode = o.mode /\ p3.sha = o.sha
        /\ p3.errors = o.errors /\ p3.changed = o.changed /\ p3.failing /\ p3.next = 1
    BY <2>1, <2>2, <2>3, <2>4, <2>5, <2>6 DEF OwnerType
  <2>9. Raised(c) = p3
    BY <1>1, <1>5, <2>1, <2>2, <2>3, <2>4, <2>5, <2>6 DEF Raised, Recovers, IsRecovery, OwnerType
  <2>10. Course(p3)
    BY <1>2, <1>5, <2>8 DEF Course, IsRecovery, Restoring, Publishing, Finishing, Stopping,
       Preparation
  <2>11. Quiet(p3) /\ Advanced(p3)
    BY <2>8 DEF Quiet, Advanced, Restoring, Finishing
  <2>12. Evident(p3)
    BY <1>2, <1>5, <2>8 DEF Evident, Grounded, IsRecovery, Preparation
  <2> QED
    BY <2>7, <2>9, <2>10, <2>11, <2>12 DEF Sound
<1> QED
  BY <1>1, <1>3, <1>4, <1>5 DEF Recovers, IsRecovery

\* A check that fails, or a step that raises, leaves a sound operation.
LEMMA RaiseIsSound ==
    ASSUME AnalyticsInv, owner # NoOwner, NEW c \in BOOLEAN, owner' = Raised(c),
           UNCHANGED <<installVars, live, leftovers, evidence, unit>>
    PROVE  AnalyticsInv'
<1>1. PICK o : o = Raised(c)
  OBVIOUS
<1>2. Sound(o)
  BY <1>1, RaisedIsSound DEF AnalyticsInv
<1> QED
  BY <1>1, <1>2, OnlyOwnerIsSound

\* A check that passes, if its next step is sound on these files.
LEMMA MoveIsSound ==
    ASSUME AnalyticsInv, owner # NoOwner, NEW q \in OwnerSteps, StepTo(q),
           \A p : Follows(p, owner, q) => Course(p) /\ Quiet(p) /\ Evident(p) /\ Advanced(p),
           UNCHANGED <<installVars, live, leftovers, evidence, unit>>
    PROVE  AnalyticsInv'
<1>1. PICK o \in OwnerType : o = owner
  BY DEF AnalyticsInv, Sound
<1>2. PICK p : p = [o EXCEPT !.pc = q]
  OBVIOUS
<1>3. Follows(p, owner, q) /\ p \in OwnerType
  BY <1>1, <1>2, Moved DEF Follows
<1>4. Sound(p)
  BY <1>3 DEF Sound
<1>5. owner' = p
  BY <1>1, <1>2 DEF StepTo
<1> QED
  BY <1>4, <1>5, OnlyOwnerIsSound

\* The checks of a forward operation, up to the stop.
LEMMA InspectionIsSound ==
    AnalyticsInv /\ InspectGeneration => AnalyticsInv'
<1> SUFFICES ASSUME AnalyticsInv, InspectGeneration PROVE AnalyticsInv'
  OBVIOUS
<1>1. owner # NoOwner /\ owner.pc = "inspect" /\ UNCHANGED <<installVars, live, leftovers, evidence, unit>>
  BY DEF InspectGeneration, Require, Runs, OnlyOwner, NoOwner
<1>2. CASE ~Baseline(owner.op)
  BY <1>1, <1>2, RaiseIsSound DEF InspectGeneration, Require
<1>3. CASE Baseline(owner.op)
  <2>1. StepTo("directory")
    BY <1>3 DEF InspectGeneration, Require, StepTo
  <2>2. Course(owner) /\ owner \in OwnerType
    BY <1>1 DEF AnalyticsInv, Sound
  <2>3. OldGeneration(owner.op) /\ SourceLeftovers = {}
    BY <1>3 DEF Baseline, OldGeneration
  <2>4. ASSUME NEW p, Follows(p, owner, "directory")
        PROVE  Course(p) /\ Quiet(p) /\ Evident(p) /\ Advanced(p)
    <3>1. Course(p)
      BY <1>1, <2>2, <2>4 DEF Follows, Course, IsRecovery, Restoring, Publishing, Finishing,
         Stopping, Preparation
    <3>2. Quiet(p) /\ Advanced(p)
      BY <2>4 DEF Follows, Quiet, Advanced, Restoring, Finishing
    <3>3. Evident(p)
      BY <1>1, <2>2, <2>3, <2>4 DEF Follows, Evident, Grounded, Course, IsRecovery
    <3> QED
      BY <3>1, <3>2, <3>3
  <2> QED
    BY <1>1, <2>1, <2>4, MoveIsSound DEF OwnerSteps, Preparation
<1> QED
  BY <1>2, <1>3

\* A recovery stops anything only when it has qualified what it would restore.
LEMMA QualificationIsSound ==
    AnalyticsInv /\ QualifyRecovery => AnalyticsInv'
<1> SUFFICES ASSUME AnalyticsInv, QualifyRecovery PROVE AnalyticsInv'
  OBVIOUS
<1>1. owner # NoOwner /\ owner.pc = "qualify" /\ UNCHANGED <<installVars, live, leftovers, evidence, unit>>
  BY DEF QualifyRecovery, Require, Runs, OnlyOwner, NoOwner
<1>2. CASE ~RecoverAdmitted(owner.op, owner.sha)
  BY <1>1, <1>2, RaiseIsSound DEF QualifyRecovery, Require
<1>3. CASE RecoverAdmitted(owner.op, owner.sha)
  <2>1. StepTo("stop_broker")
    BY <1>3 DEF QualifyRecovery, Require, StepTo
  <2>2. Course(owner) /\ owner \in OwnerType /\ owner.op \in OwnerOperations
    BY <1>1 DEF AnalyticsInv, Sound, OwnerType
  <2>3. Kept(owner.op, owner.sha)
    BY <1>3 DEF RecoverAdmitted, Kept
  <2>4. owner.op # "resume" => Between(owner.op, owner.sha) /\ Own(owner.op)
    <3>1. PICK op \in OwnerOperations, w \in Workflows : op = owner.op /\ w = owner.sha
      BY <2>2 DEF OwnerType
    <3>2. op # "resume" => PartialTree(op) /\ \A i \in Entries(op) : Known(op, w, i)
      BY <1>3, <3>1 DEF RecoverAdmitted
    <3>3. op # "resume" => Between(op, w) /\ Own(op)
      BY <3>2, QualifiedIsBetween DEF PartialTree, Own
    <3> QED
      BY <3>1, <3>3
  <2>5. ASSUME NEW p, Follows(p, owner, "stop_broker")
        PROVE  Course(p) /\ Quiet(p) /\ Evident(p) /\ Advanced(p)
    <3>1. Course(p)
      BY <1>1, <2>2, <2>5 DEF Follows, Course, IsRecovery, Restoring, Publishing, Finishing,
         Stopping, Preparation
    <3>2. Quiet(p) /\ Advanced(p)
      BY <2>5 DEF Follows, Quiet, Advanced, Restoring, Finishing
    <3>3. Evident(p)
      BY <1>1, <2>2, <2>3, <2>4, <2>5 DEF Follows, Evident, Grounded, Course, IsRecovery
    <3> QED
      BY <3>1, <3>2, <3>3
  <2> QED
    BY <1>1, <2>1, <2>5, MoveIsSound DEF OwnerSteps, Stopping
<1> QED
  BY <1>2, <1>3

\* After the stop an operation publishes, restores or reports.
LEMMA ConfirmationIsSound ==
    AnalyticsInv /\ ConfirmStopped => AnalyticsInv'
<1> SUFFICES ASSUME AnalyticsInv, ConfirmStopped PROVE AnalyticsInv'
  OBVIOUS
<1>1. owner # NoOwner /\ owner.pc = "confirm"
  BY DEF ConfirmStopped, Require, Runs, NoOwner
<1>2. UNCHANGED <<installVars, live, leftovers, evidence, unit>>
  BY DEF ConfirmStopped, Require, OnlyOwner
<1>3. owner \in OwnerType /\ Course(owner) /\ Quiet(owner) /\ Evident(owner) /\ Advanced(owner)
  BY <1>1 DEF AnalyticsInv, Sound
<1>4. CASE owner' = Raised(FALSE)
  BY <1>1, <1>2, <1>4, RaiseIsSound
<1>5. CASE StepTo("report") /\ Stopped /\ owner.failing /\ ~owner.changed
  <2>0. owner.op = "resume" => live.config = 0
    BY <1>1, <1>3, <1>5, OperationFacts DEF Evident, Course, OldGeneration, OwnerType
  <2>1. ASSUME NEW p, Follows(p, owner, "report")
        PROVE  Course(p) /\ Quiet(p) /\ Evident(p) /\ Advanced(p)
    <3>1. Course(p)
      BY <1>1, <1>3, <1>5, <2>1 DEF Follows, Course, IsRecovery, Restoring, Publishing,
         Finishing, Stopping, Preparation
    <3>2. Quiet(p)
      BY <1>1, <1>3, <1>5, <2>1 DEF Follows, Quiet, Course, Restoring, Finishing
    <3>3. Evident(p)
      BY <1>1, <1>3, <1>5, <2>1, <2>0 DEF Follows, Evident, Grounded, Course, IsRecovery, Publishing,
         Finishing, Restoring
    <3>4. Advanced(p)
      BY <1>1, <1>3, <1>5, <2>1, <2>0 DEF Follows, Advanced, Course, Finishing
    <3> QED
      BY <3>1, <3>2, <3>3, <3>4
  <2> QED
    BY <1>1, <1>2, <1>5, <2>1, MoveIsSound DEF OwnerSteps, Publishing, Finishing, Restoring
<1>6. CASE StepTo("restore_absent") /\ Stopped /\ ((owner.failing /\ owner.changed) \/ IsRecovery(owner))
  <2>1. ASSUME NEW p, Follows(p, owner, "restore_absent")
        PROVE  Course(p) /\ Quiet(p) /\ Evident(p) /\ Advanced(p)
    <3>1. Course(p)
      BY <1>1, <1>3, <1>6, <2>1 DEF Follows, Course, IsRecovery, Restoring, Publishing,
         Finishing, Stopping, Preparation
    <3>2. Quiet(p)
      BY <1>1, <1>3, <1>6, <2>1 DEF Follows, Quiet, Course, Restoring, Finishing
    <3>3. Evident(p)
      BY <1>1, <1>3, <1>6, <2>1 DEF Follows, Evident, Grounded, Course, IsRecovery, Publishing,
         Finishing, Restoring
    <3>4. Advanced(p)
      BY <1>1, <1>3, <1>6, <2>1 DEF Follows, Advanced, Course, Finishing
    <3> QED
      BY <3>1, <3>2, <3>3, <3>4
  <2> QED
    BY <1>1, <1>2, <1>6, <2>1, MoveIsSound DEF OwnerSteps, Publishing, Finishing, Restoring
<1>7. CASE StepTo("absent") /\ Stopped /\ ~owner.failing /\ ~IsRecovery(owner)
  <2>1. ASSUME NEW p, Follows(p, owner, "absent")
        PROVE  Course(p) /\ Quiet(p) /\ Evident(p) /\ Advanced(p)
    <3>1. Course(p)
      BY <1>1, <1>3, <1>7, <2>1 DEF Follows, Course, IsRecovery, Restoring, Publishing,
         Finishing, Stopping, Preparation
    <3>2. Quiet(p)
      BY <1>1, <1>3, <1>7, <2>1 DEF Follows, Quiet, Course, Restoring, Finishing
    <3>3. Evident(p)
      BY <1>1, <1>3, <1>7, <2>1 DEF Follows, Evident, Grounded, Course, IsRecovery, Publishing,
         Finishing, Restoring
    <3>4. Advanced(p)
      BY <1>1, <1>3, <1>7, <2>1 DEF Follows, Advanced, Course, Finishing
    <3> QED
      BY <3>1, <3>2, <3>3, <3>4
  <2> QED
    BY <1>1, <1>2, <1>7, <2>1, MoveIsSound DEF OwnerSteps, Publishing, Finishing, Restoring
<1> QED
  BY <1>4, <1>5, <1>6, <1>7 DEF ConfirmStopped, Require, StepTo, AfterStop, Recovers, IsRecovery

\* Publication begins with the whole preimage in place.
LEMMA PreimageIsSound ==
    AnalyticsInv /\ CheckPreimage => AnalyticsInv'
<1> SUFFICES ASSUME AnalyticsInv, CheckPreimage PROVE AnalyticsInv'
  OBVIOUS
<1>1. owner # NoOwner /\ owner.pc = "preimage"
  BY DEF CheckPreimage, Require, Runs, NoOwner
<1>2. UNCHANGED <<installVars, live, leftovers, evidence, unit>>
  BY DEF CheckPreimage, Require, OnlyOwner
<1>3. owner \in OwnerType /\ Course(owner) /\ Quiet(owner) /\ Evident(owner) /\ Advanced(owner)
  BY <1>1 DEF AnalyticsInv, Sound
<1>4. CASE owner' = Raised(FALSE)
  BY <1>1, <1>2, <1>4, RaiseIsSound
<1>5. CASE StepTo("publish") /\ TRUE
  <2>a. owner.next = 1 /\ owner.op \in OwnerOperations
    BY <1>1, <1>3 DEF Course, OwnerType
  <2>0. \A i \in Entries(owner.op) : ~(i < owner.next)
    BY <2>a, OperationFacts DEF Entries
  <2>1. ASSUME NEW p, Follows(p, owner, "publish")
        PROVE  Course(p) /\ Quiet(p) /\ Evident(p) /\ Advanced(p)
    <3>1. Course(p)
      BY <1>1, <1>3, <1>5, <2>1 DEF Follows, Course, IsRecovery, Restoring, Publishing,
         Finishing, Stopping, Preparation
    <3>2. Quiet(p)
      BY <1>1, <1>3, <1>5, <2>1 DEF Follows, Quiet, Course, Restoring, Finishing
    <3>3. Evident(p)
      BY <1>1, <1>3, <1>5, <2>1, <2>0 DEF Follows, Evident, Grounded, Course, IsRecovery, Publishing,
         Finishing, Restoring
    <3>4. Advanced(p)
      BY <1>1, <1>3, <1>5, <2>1, <2>0 DEF Follows, Advanced, Course, Finishing
    <3> QED
      BY <3>1, <3>2, <3>3, <3>4
  <2> QED
    BY <1>1, <1>2, <1>5, <2>1, MoveIsSound DEF OwnerSteps, Publishing, Finishing, Restoring
<1> QED
  BY <1>4, <1>5 DEF CheckPreimage, Require, StepTo

\* The units are read again before anything starts.
LEMMA ReloadIsSound ==
    AnalyticsInv /\ ReloadAndVerify => AnalyticsInv'
<1> SUFFICES ASSUME AnalyticsInv, ReloadAndVerify PROVE AnalyticsInv'
  OBVIOUS
<1>1. owner # NoOwner /\ owner.pc = "reload"
  BY DEF ReloadAndVerify, Require, Runs, NoOwner
<1>2. UNCHANGED <<installVars, live, leftovers, evidence, unit>>
  BY DEF ReloadAndVerify, Require, OnlyOwner
<1>3. owner \in OwnerType /\ Course(owner) /\ Quiet(owner) /\ Evident(owner) /\ Advanced(owner)
  BY <1>1 DEF AnalyticsInv, Sound
<1>4. CASE owner' = Raised(FALSE)
  BY <1>1, <1>2, <1>4, RaiseIsSound
<1>5. CASE StepTo("clear") /\ TRUE
  <2>1. ASSUME NEW p, Follows(p, owner, "clear")
        PROVE  Course(p) /\ Quiet(p) /\ Evident(p) /\ Advanced(p)
    <3>1. Course(p)
      BY <1>1, <1>3, <1>5, <2>1 DEF Follows, Course, IsRecovery, Restoring, Publishing,
         Finishing, Stopping, Preparation
    <3>2. Quiet(p)
      BY <1>1, <1>3, <1>5, <2>1 DEF Follows, Quiet, Course, Restoring, Finishing
    <3>3. Evident(p)
      BY <1>1, <1>3, <1>5, <2>1 DEF Follows, Evident, Grounded, Course, IsRecovery, Publishing,
         Finishing, Restoring
    <3>4. Advanced(p)
      BY <1>1, <1>3, <1>5, <2>1 DEF Follows, Advanced, Course, Finishing
    <3> QED
      BY <3>1, <3>2, <3>3, <3>4
  <2> QED
    BY <1>1, <1>2, <1>5, <2>1, MoveIsSound DEF OwnerSteps, Publishing, Finishing, Restoring
<1> QED
  BY <1>4, <1>5 DEF ReloadAndVerify, Require, StepTo

\* Failed counters are cleared while everything is stopped.
LEMMA ClearIsSound ==
    AnalyticsInv /\ ClearFailedCounters => AnalyticsInv'
<1> SUFFICES ASSUME AnalyticsInv, ClearFailedCounters PROVE AnalyticsInv'
  OBVIOUS
<1>1. owner # NoOwner /\ owner.pc = "clear"
  BY DEF ClearFailedCounters, Require, Runs, NoOwner
<1>2. UNCHANGED <<installVars, live, leftovers, evidence, unit>>
  BY DEF ClearFailedCounters, Require, OnlyOwner
<1>3. owner \in OwnerType /\ Course(owner) /\ Quiet(owner) /\ Evident(owner) /\ Advanced(owner)
  BY <1>1 DEF AnalyticsInv, Sound
<1>4. CASE owner' = Raised(FALSE)
  BY <1>1, <1>2, <1>4, RaiseIsSound
<1>5. CASE StepTo("listen") /\ TRUE
  <2>1. ASSUME NEW p, Follows(p, owner, "listen")
        PROVE  Course(p) /\ Quiet(p) /\ Evident(p) /\ Advanced(p)
    <3>1. Course(p)
      BY <1>1, <1>3, <1>5, <2>1 DEF Follows, Course, IsRecovery, Restoring, Publishing,
         Finishing, Stopping, Preparation
    <3>2. Quiet(p)
      BY <1>1, <1>3, <1>5, <2>1 DEF Follows, Quiet, Course, Restoring, Finishing
    <3>3. Evident(p)
      BY <1>1, <1>3, <1>5, <2>1 DEF Follows, Evident, Grounded, Course, IsRecovery, Publishing,
         Finishing, Restoring
    <3>4. Advanced(p)
      BY <1>1, <1>3, <1>5, <2>1 DEF Follows, Advanced, Course, Finishing
    <3> QED
      BY <3>1, <3>2, <3>3, <3>4
  <2> QED
    BY <1>1, <1>2, <1>5, <2>1, MoveIsSound DEF OwnerSteps, Publishing, Finishing, Restoring
<1> QED
  BY <1>4, <1>5 DEF ClearFailedCounters, Require, StepTo

\* The probes end before replay and operation.
LEMMA ProbeIsSound ==
    AnalyticsInv /\ NativeProbe => AnalyticsInv'
<1> SUFFICES ASSUME AnalyticsInv, NativeProbe PROVE AnalyticsInv'
  OBVIOUS
<1>1. owner # NoOwner /\ owner.pc = "probe"
  BY DEF NativeProbe, Require, Runs, NoOwner
<1>2. UNCHANGED <<installVars, live, leftovers, evidence, unit>>
  BY DEF NativeProbe, Require, OnlyOwner
<1>3. owner \in OwnerType /\ Course(owner) /\ Quiet(owner) /\ Evident(owner) /\ Advanced(owner)
  BY <1>1 DEF AnalyticsInv, Sound
<1>4. CASE owner' = Raised(FALSE)
  BY <1>1, <1>2, <1>4, RaiseIsSound
<1>5. CASE StepTo("absent_again") /\ TRUE
  <2>1. ASSUME NEW p, Follows(p, owner, "absent_again")
        PROVE  Course(p) /\ Quiet(p) /\ Evident(p) /\ Advanced(p)
    <3>1. Course(p)
      BY <1>1, <1>3, <1>5, <2>1 DEF Follows, Course, IsRecovery, Restoring, Publishing,
         Finishing, Stopping, Preparation
    <3>2. Quiet(p)
      BY <1>1, <1>3, <1>5, <2>1 DEF Follows, Quiet, Course, Restoring, Finishing
    <3>3. Evident(p)
      BY <1>1, <1>3, <1>5, <2>1 DEF Follows, Evident, Grounded, Course, IsRecovery, Publishing,
         Finishing, Restoring
    <3>4. Advanced(p)
      BY <1>1, <1>3, <1>5, <2>1 DEF Follows, Advanced, Course, Finishing
    <3> QED
      BY <3>1, <3>2, <3>3, <3>4
  <2> QED
    BY <1>1, <1>2, <1>5, <2>1, MoveIsSound DEF OwnerSteps, Publishing, Finishing, Restoring
<1> QED
  BY <1>4, <1>5 DEF NativeProbe, Require, StepTo

\* The slot is looked for again before the broker starts.
LEMMA AbsenceIsSound ==
    AnalyticsInv /\ RequireNoApplicationAgain => AnalyticsInv'
<1> SUFFICES ASSUME AnalyticsInv, RequireNoApplicationAgain PROVE AnalyticsInv'
  OBVIOUS
<1>1. owner # NoOwner /\ owner.pc = "absent_again"
  BY DEF RequireNoApplicationAgain, Require, Runs, NoOwner
<1>2. UNCHANGED <<installVars, live, leftovers, evidence, unit>>
  BY DEF RequireNoApplicationAgain, Require, OnlyOwner
<1>3. owner \in OwnerType /\ Course(owner) /\ Quiet(owner) /\ Evident(owner) /\ Advanced(owner)
  BY <1>1 DEF AnalyticsInv, Sound
<1>4. CASE owner' = Raised(FALSE)
  BY <1>1, <1>2, <1>4, RaiseIsSound
<1>5. CASE StepTo("serve") /\ TRUE
  <2>1. ASSUME NEW p, Follows(p, owner, "serve")
        PROVE  Course(p) /\ Quiet(p) /\ Evident(p) /\ Advanced(p)
    <3>1. Course(p)
      BY <1>1, <1>3, <1>5, <2>1 DEF Follows, Course, IsRecovery, Restoring, Publishing,
         Finishing, Stopping, Preparation
    <3>2. Quiet(p)
      BY <1>1, <1>3, <1>5, <2>1 DEF Follows, Quiet, Course, Restoring, Finishing
    <3>3. Evident(p)
      BY <1>1, <1>3, <1>5, <2>1 DEF Follows, Evident, Grounded, Course, IsRecovery, Publishing,
         Finishing, Restoring
    <3>4. Advanced(p)
      BY <1>1, <1>3, <1>5, <2>1 DEF Follows, Advanced, Course, Finishing
    <3> QED
      BY <3>1, <3>2, <3>3, <3>4
  <2> QED
    BY <1>1, <1>2, <1>5, <2>1, MoveIsSound DEF OwnerSteps, Publishing, Finishing, Restoring
<1> QED
  BY <1>4, <1>5 DEF RequireNoApplicationAgain, Require, StepTo

\* The broker must stay active before the result is published.
LEMMA StabilityIsSound ==
    AnalyticsInv /\ RequireStableBroker => AnalyticsInv'
<1> SUFFICES ASSUME AnalyticsInv, RequireStableBroker PROVE AnalyticsInv'
  OBVIOUS
<1>1. owner # NoOwner /\ owner.pc = "stable"
  BY DEF RequireStableBroker, Require, Runs, NoOwner
<1>2. UNCHANGED <<installVars, live, leftovers, evidence, unit>>
  BY DEF RequireStableBroker, Require, OnlyOwner
<1>3. owner \in OwnerType /\ Course(owner) /\ Quiet(owner) /\ Evident(owner) /\ Advanced(owner)
  BY <1>1 DEF AnalyticsInv, Sound
<1>4. CASE owner' = Raised(FALSE)
  BY <1>1, <1>2, <1>4, RaiseIsSound
<1>5. CASE StepTo("complete") /\ TRUE
  <2>1. ASSUME NEW p, Follows(p, owner, "complete")
        PROVE  Course(p) /\ Quiet(p) /\ Evident(p) /\ Advanced(p)
    <3>1. Course(p)
      BY <1>1, <1>3, <1>5, <2>1 DEF Follows, Course, IsRecovery, Restoring, Publishing,
         Finishing, Stopping, Preparation
    <3>2. Quiet(p)
      BY <1>1, <1>3, <1>5, <2>1 DEF Follows, Quiet, Course, Restoring, Finishing
    <3>3. Evident(p)
      BY <1>1, <1>3, <1>5, <2>1 DEF Follows, Evident, Grounded, Course, IsRecovery, Publishing,
         Finishing, Restoring
    <3>4. Advanced(p)
      BY <1>1, <1>3, <1>5, <2>1 DEF Follows, Advanced, Course, Finishing
    <3> QED
      BY <3>1, <3>2, <3>3, <3>4
  <2> QED
    BY <1>1, <1>2, <1>5, <2>1, MoveIsSound DEF OwnerSteps, Publishing, Finishing, Restoring
<1> QED
  BY <1>4, <1>5 DEF RequireStableBroker, Require, StepTo

\* Nothing is restored under an application.
LEMMA AbsentRestorationIsSound ==
    AnalyticsInv /\ RestoreNeedsNoApplication => AnalyticsInv'
<1> SUFFICES ASSUME AnalyticsInv, RestoreNeedsNoApplication PROVE AnalyticsInv'
  OBVIOUS
<1>1. owner # NoOwner /\ owner.pc = "restore_absent"
  BY DEF RestoreNeedsNoApplication, Require, Runs, NoOwner
<1>2. UNCHANGED <<installVars, live, leftovers, evidence, unit>>
  BY DEF RestoreNeedsNoApplication, Require, OnlyOwner
<1>3. owner \in OwnerType /\ Course(owner) /\ Quiet(owner) /\ Evident(owner) /\ Advanced(owner)
  BY <1>1 DEF AnalyticsInv, Sound
<1>4. CASE owner' = Raised(FALSE)
  BY <1>1, <1>2, <1>4, RaiseIsSound
<1>5. CASE StepTo("restore_known") /\ NoApplication /\ ~IsRecovery(owner)
  <2>1. ASSUME NEW p, Follows(p, owner, "restore_known")
        PROVE  Course(p) /\ Quiet(p) /\ Evident(p) /\ Advanced(p)
    <3>1. Course(p)
      BY <1>1, <1>3, <1>5, <2>1 DEF Follows, Course, IsRecovery, Restoring, Publishing,
         Finishing, Stopping, Preparation
    <3>2. Quiet(p)
      BY <1>1, <1>3, <1>5, <2>1 DEF Follows, Quiet, Course, Restoring, Finishing
    <3>3. Evident(p)
      BY <1>1, <1>3, <1>5, <2>1 DEF Follows, Evident, Grounded, Course, IsRecovery, Publishing,
         Finishing, Restoring
    <3>4. Advanced(p)
      BY <1>1, <1>3, <1>5, <2>1 DEF Follows, Advanced, Course, Finishing
    <3> QED
      BY <3>1, <3>2, <3>3, <3>4
  <2> QED
    BY <1>1, <1>2, <1>5, <2>1, MoveIsSound DEF OwnerSteps, Publishing, Finishing, Restoring
<1>6. CASE StepTo("reinspect") /\ NoApplication /\ IsRecovery(owner) /\ owner.op = "resume"
  <2>1. ASSUME NEW p, Follows(p, owner, "reinspect")
        PROVE  Course(p) /\ Quiet(p) /\ Evident(p) /\ Advanced(p)
    <3>1. Course(p)
      BY <1>1, <1>3, <1>6, <2>1 DEF Follows, Course, IsRecovery, Restoring, Publishing,
         Finishing, Stopping, Preparation
    <3>2. Quiet(p)
      BY <1>1, <1>3, <1>6, <2>1 DEF Follows, Quiet, Course, Restoring, Finishing
    <3>3. Evident(p)
      BY <1>1, <1>3, <1>6, <2>1 DEF Follows, Evident, Grounded, Course, IsRecovery, Publishing,
         Finishing, Restoring
    <3>4. Advanced(p)
      BY <1>1, <1>3, <1>6, <2>1 DEF Follows, Advanced, Course, Finishing
    <3> QED
      BY <3>1, <3>2, <3>3, <3>4
  <2> QED
    BY <1>1, <1>2, <1>6, <2>1, MoveIsSound DEF OwnerSteps, Publishing, Finishing, Restoring
<1>7. CASE StepTo("preserve") /\ NoApplication /\ IsRecovery(owner) /\ owner.op # "resume"
  <2>1. ASSUME NEW p, Follows(p, owner, "preserve")
        PROVE  Course(p) /\ Quiet(p) /\ Evident(p) /\ Advanced(p)
    <3>1. Course(p)
      BY <1>1, <1>3, <1>7, <2>1 DEF Follows, Course, IsRecovery, Restoring, Publishing,
         Finishing, Stopping, Preparation
    <3>2. Quiet(p)
      BY <1>1, <1>3, <1>7, <2>1 DEF Follows, Quiet, Course, Restoring, Finishing
    <3>3. Evident(p)
      BY <1>1, <1>3, <1>7, <2>1 DEF Follows, Evident, Grounded, Course, IsRecovery, Publishing,
         Finishing, Restoring
    <3>4. Advanced(p)
      BY <1>1, <1>3, <1>7, <2>1 DEF Follows, Advanced, Course, Finishing
    <3> QED
      BY <3>1, <3>2, <3>3, <3>4
  <2> QED
    BY <1>1, <1>2, <1>7, <2>1, MoveIsSound DEF OwnerSteps, Publishing, Finishing, Restoring
<1> QED
  BY <1>4, <1>5, <1>6, <1>7 DEF RestoreNeedsNoApplication, Require, StepTo, Recovers, IsRecovery

\* Only files that the operation knows are replaced by their preimage.
LEMMA KnownRestorationIsSound ==
    AnalyticsInv /\ RestoreOnlyKnown => AnalyticsInv'
<1> SUFFICES ASSUME AnalyticsInv, RestoreOnlyKnown PROVE AnalyticsInv'
  OBVIOUS
<1>1. owner # NoOwner /\ owner.pc = "restore_known"
  BY DEF RestoreOnlyKnown, Require, Runs, NoOwner
<1>2. UNCHANGED <<installVars, live, leftovers, evidence, unit>>
  BY DEF RestoreOnlyKnown, Require, OnlyOwner
<1>3. owner \in OwnerType /\ Course(owner) /\ Quiet(owner) /\ Evident(owner) /\ Advanced(owner)
  BY <1>1 DEF AnalyticsInv, Sound
<1>4. CASE owner' = Raised(FALSE)
  BY <1>1, <1>2, <1>4, RaiseIsSound
<1>5. CASE StepTo("restore") /\ TRUE
  <2>1. ASSUME NEW p, Follows(p, owner, "restore")
        PROVE  Course(p) /\ Quiet(p) /\ Evident(p) /\ Advanced(p)
    <3>1. Course(p)
      BY <1>1, <1>3, <1>5, <2>1 DEF Follows, Course, IsRecovery, Restoring, Publishing,
         Finishing, Stopping, Preparation
    <3>2. Quiet(p)
      BY <1>1, <1>3, <1>5, <2>1 DEF Follows, Quiet, Course, Restoring, Finishing
    <3>3. Evident(p)
      BY <1>1, <1>3, <1>5, <2>1 DEF Follows, Evident, Grounded, Course, IsRecovery, Publishing,
         Finishing, Restoring
    <3>4. Advanced(p)
      BY <1>1, <1>3, <1>5, <2>1 DEF Follows, Advanced, Course, Finishing
    <3> QED
      BY <3>1, <3>2, <3>3, <3>4
  <2> QED
    BY <1>1, <1>2, <1>5, <2>1, MoveIsSound DEF OwnerSteps, Publishing, Finishing, Restoring
<1> QED
  BY <1>4, <1>5 DEF RestoreOnlyKnown, Require, StepTo

\* The recovery of a resume qualifies the generation before it restores the configuration.
LEMMA ReinspectionIsSound ==
    AnalyticsInv /\ Reinspect => AnalyticsInv'
<1> SUFFICES ASSUME AnalyticsInv, Reinspect PROVE AnalyticsInv'
  OBVIOUS
<1>1. owner # NoOwner /\ owner.pc = "reinspect"
  BY DEF Reinspect, Require, Runs, NoOwner
<1>2. UNCHANGED <<installVars, live, leftovers, evidence, unit>>
  BY DEF Reinspect, Require, OnlyOwner
<1>3. owner \in OwnerType /\ Course(owner) /\ Quiet(owner) /\ Evident(owner) /\ Advanced(owner)
  BY <1>1 DEF AnalyticsInv, Sound
<1>4. CASE owner' = Raised(FALSE)
  BY <1>1, <1>2, <1>4, RaiseIsSound
<1>5. CASE StepTo("restore_known") /\ Reinspected(owner.op, owner.sha) /\ owner.op = "resume"
  <2>0. Between(owner.op, owner.sha) /\ Own(owner.op)
    BY <1>3, <1>5, OperationFacts DEF Reinspected, Whole, Between, Own, OwnerType
  <2>1. ASSUME NEW p, Follows(p, owner, "restore_known")
        PROVE  Course(p) /\ Quiet(p) /\ Evident(p) /\ Advanced(p)
    <3>1. Course(p)
      BY <1>1, <1>3, <1>5, <2>1 DEF Follows, Course, IsRecovery, Restoring, Publishing,
         Finishing, Stopping, Preparation
    <3>2. Quiet(p)
      BY <1>1, <1>3, <1>5, <2>1 DEF Follows, Quiet, Course, Restoring, Finishing
    <3>3. Evident(p)
      BY <1>1, <1>3, <1>5, <2>1, <2>0 DEF Follows, Evident, Grounded, Course, IsRecovery, Publishing,
         Finishing, Restoring
    <3>4. Advanced(p)
      BY <1>1, <1>3, <1>5, <2>1, <2>0 DEF Follows, Advanced, Course, Finishing
    <3> QED
      BY <3>1, <3>2, <3>3, <3>4
  <2> QED
    BY <1>1, <1>2, <1>5, <2>1, MoveIsSound DEF OwnerSteps, Publishing, Finishing, Restoring
<1>6. CASE StepTo("restore_reload") /\ Reinspected(owner.op, owner.sha) /\ owner.op # "resume"
  <2>1. ASSUME NEW p, Follows(p, owner, "restore_reload")
        PROVE  Course(p) /\ Quiet(p) /\ Evident(p) /\ Advanced(p)
    <3>1. Course(p)
      BY <1>1, <1>3, <1>6, <2>1 DEF Follows, Course, IsRecovery, Restoring, Publishing,
         Finishing, Stopping, Preparation
    <3>2. Quiet(p)
      BY <1>1, <1>3, <1>6, <2>1 DEF Follows, Quiet, Course, Restoring, Finishing
    <3>3. Evident(p)
      BY <1>1, <1>3, <1>6, <2>1 DEF Follows, Evident, Grounded, Course, IsRecovery, Publishing,
         Finishing, Restoring
    <3>4. Advanced(p)
      BY <1>1, <1>3, <1>6, <2>1 DEF Follows, Advanced, Course, Finishing
    <3> QED
      BY <3>1, <3>2, <3>3, <3>4
  <2> QED
    BY <1>1, <1>2, <1>6, <2>1, MoveIsSound DEF OwnerSteps, Publishing, Finishing, Restoring
<1> QED
  BY <1>4, <1>5, <1>6 DEF Reinspect, Require, StepTo

\* The restored plane is reloaded while it is stopped.
LEMMA RestoredReloadIsSound ==
    AnalyticsInv /\ RestoreReload => AnalyticsInv'
<1> SUFFICES ASSUME AnalyticsInv, RestoreReload PROVE AnalyticsInv'
  OBVIOUS
<1>1. owner # NoOwner /\ owner.pc = "restore_reload"
  BY DEF RestoreReload, Require, Runs, NoOwner
<1>2. UNCHANGED <<installVars, live, leftovers, evidence, unit>>
  BY DEF RestoreReload, Require, OnlyOwner
<1>3. owner \in OwnerType /\ Course(owner) /\ Quiet(owner) /\ Evident(owner) /\ Advanced(owner)
  BY <1>1 DEF AnalyticsInv, Sound
<1>4. CASE owner' = Raised(FALSE)
  BY <1>1, <1>2, <1>4, RaiseIsSound
<1>5. CASE StepTo("report") /\ Stopped
  <2>1. ASSUME NEW p, Follows(p, owner, "report")
        PROVE  Course(p) /\ Quiet(p) /\ Evident(p) /\ Advanced(p)
    <3>1. Course(p)
      BY <1>1, <1>3, <1>5, <2>1 DEF Follows, Course, IsRecovery, Restoring, Publishing,
         Finishing, Stopping, Preparation
    <3>2. Quiet(p)
      BY <1>1, <1>3, <1>5, <2>1 DEF Follows, Quiet, Course, Restoring, Finishing
    <3>3. Evident(p)
      BY <1>1, <1>3, <1>5, <2>1 DEF Follows, Evident, Grounded, Course, IsRecovery, Publishing,
         Finishing, Restoring
    <3>4. Advanced(p)
      BY <1>1, <1>3, <1>5, <2>1 DEF Follows, Advanced, Course, Finishing
    <3> QED
      BY <3>1, <3>2, <3>3, <3>4
  <2> QED
    BY <1>1, <1>2, <1>5, <2>1, MoveIsSound DEF OwnerSteps, Publishing, Finishing, Restoring
<1> QED
  BY <1>4, <1>5 DEF RestoreReload, Require, StepTo

-----------------------------------------------------------------------------
(* Steps that change the units or what they serve. *)

\* The plane changes around the same files.
LEMMA PlaneChangeIsSound ==
    ASSUME AnalyticsInv, NEW o, owner' = o, Sound(o), o # NoOwner => Quiet(o)',
           InstallInv', unit' \in [broker : BOOLEAN, listener : BOOLEAN],
           UNCHANGED <<live, leftovers, evidence>>,
           Coherent \/ (Stopped' /\ NoApplication')
    PROVE  AnalyticsInv'
<1>1. live' = live /\ leftovers' = leftovers /\ evidence' = evidence
  OBVIOUS
<1>2. FilesTyped' /\ PlaneTyped'
  BY <1>1 DEF AnalyticsInv, FilesTyped, PlaneTyped
<1>3. Evident(o)' <=> Evident(o)
  BY <1>1 DEF Evident, Kept, SourceLeftovers, OldGeneration, Whole, Between, Own
<1>4. Advanced(o)' <=> Advanced(o)
  BY <1>1 DEF Advanced, IsAfter, NewGeneration, Whole
<1>5. Sound(owner)'
  BY <1>3, <1>4 DEF Sound
<1>6. Mixture'
  <2>1. Coherent' <=> Coherent
    BY <1>1 DEF Coherent, Whole
  <2>2. \A op \in OwnerOperations, w \in Workflows : Mixed(op, w)' <=> Mixed(op, w)
    BY <1>1 DEF Mixed, Between, Kept, ManualReview, Own, SourceLeftovers
  <2> QED
    BY <2>1, <2>2 DEF AnalyticsInv, Mixture
<1> QED
  BY <1>2, <1>5, <1>6 DEF AnalyticsInv

\* A unit that is asked to stop is stopped or as before.
LEMMA StopUnitIsSound ==
    AnalyticsInv /\ (StopBroker \/ StopListener) => AnalyticsInv'
<1> SUFFICES ASSUME AnalyticsInv, StopBroker \/ StopListener PROVE AnalyticsInv'
  OBVIOUS
<1>1. PICK u \in {"broker", "listener"}, q \in {"stop_listener", "stop_executor"} :
         /\ owner.pc \in {"stop_broker", "stop_listener"}
         /\ StepTo(q)
         /\ unit' = [unit EXCEPT ![u] = FALSE] \/ UNCHANGED unit
         /\ UNCHANGED <<installVars, live, leftovers, evidence>>
  BY DEF StopBroker, StopListener, StopUnit, Runs
<1>2. owner \in OwnerType /\ Course(owner) /\ Evident(owner)
  BY <1>1 DEF AnalyticsInv, Sound, NoOwner
<1>3. PICK o \in OwnerType : o = owner
  BY <1>2
<1>4. PICK p : p = [o EXCEPT !.pc = q]
  OBVIOUS
<1>5. Follows(p, o, q)
  BY <1>4, Moved DEF OwnerSteps, Stopping
<1>6. Course(p)
  BY <1>1, <1>2, <1>3, <1>5 DEF Follows, Course, IsRecovery, Restoring, Publishing,
     Finishing, Stopping, Preparation
<1>7. Quiet(p) /\ Advanced(p) /\ Quiet(p)'
  BY <1>5 DEF Follows, Quiet, Advanced, Restoring, Finishing
<1>8. Evident(p)
  BY <1>1, <1>2, <1>3, <1>5 DEF Follows, Evident, Grounded, Course, IsRecovery
<1>9. Sound(p) /\ owner' = p
  BY <1>1, <1>3, <1>4, <1>5, <1>6, <1>7, <1>8 DEF Sound, Follows, StepTo
<1>10. slot' = slot /\ row' = row /\ serving' = serving /\ answered' = answered
       /\ lapses' = lapses
  BY <1>1 DEF installVars
<1>11. InstallInv'
  BY <1>10 DEF AnalyticsInv, InstallInv, InstallTyped, ServedOnce, RunsAccepted, Accepted
<1>12. unit \in [broker : BOOLEAN, listener : BOOLEAN]
  BY DEF AnalyticsInv, PlaneTyped
<1>13. unit' \in [broker : BOOLEAN, listener : BOOLEAN] /\ (Stopped => Stopped')
  BY <1>1, <1>10, <1>12 DEF Stopped, ExecutorIdle
<1>14. Coherent \/ (Stopped' /\ NoApplication')
  BY <1>10, <1>13 DEF AnalyticsInv, Mixture, NoApplication
<1> QED
  BY <1>1, <1>7, <1>9, <1>11, <1>13, <1>14, PlaneChangeIsSound

\* The executor is idle, killed, or as before.
LEMMA StopExecutorIsSound ==
    AnalyticsInv /\ StopExecutor => AnalyticsInv'
<1> SUFFICES ASSUME AnalyticsInv, StopExecutor PROVE AnalyticsInv'
  OBVIOUS
<1>1. owner.pc = "stop_executor" /\ StepTo("confirm")
      /\ UNCHANGED <<live, leftovers, evidence, unit>>
      /\ (KillExecutor \/ UNCHANGED installVars)
  BY DEF StopExecutor, Runs
<1>2. owner \in OwnerType /\ Course(owner) /\ Evident(owner)
  BY <1>1 DEF AnalyticsInv, Sound, NoOwner
<1>3. PICK o \in OwnerType : o = owner
  BY <1>2
<1>4. PICK p : p = [o EXCEPT !.pc = "confirm"]
  OBVIOUS
<1>5. Follows(p, o, "confirm")
  BY <1>4, Moved DEF OwnerSteps
<1>6. Course(p)
  BY <1>1, <1>2, <1>3, <1>5 DEF Follows, Course, IsRecovery, Restoring, Publishing,
     Finishing, Stopping, Preparation
<1>7. Quiet(p) /\ Advanced(p) /\ Quiet(p)'
  BY <1>5 DEF Follows, Quiet, Advanced, Restoring, Finishing
<1>8. Evident(p)
  BY <1>1, <1>2, <1>3, <1>5 DEF Follows, Evident, Grounded, Course, IsRecovery
<1>9. Sound(p) /\ owner' = p
  BY <1>1, <1>3, <1>4, <1>5, <1>6, <1>7, <1>8 DEF Sound, Follows, StepTo
<1>10. slot' = slot /\ (serving = Resting => serving' = Resting)
  BY <1>1 DEF installVars, KillExecutor
<1>11. InstallInv'
  <2>1. CASE KillExecutor
    BY <2>1, KillExecutorIsSound DEF AnalyticsInv
  <2>2. CASE UNCHANGED installVars
    BY <2>2 DEF installVars, AnalyticsInv, InstallInv, InstallTyped, ServedOnce, RunsAccepted,
       Accepted
  <2> QED
    BY <1>1, <2>1, <2>2
<1>12. unit' \in [broker : BOOLEAN, listener : BOOLEAN]
  BY <1>1 DEF AnalyticsInv, PlaneTyped
<1>13. Coherent \/ (Stopped' /\ NoApplication')
  BY <1>1, <1>10 DEF AnalyticsInv, Mixture, NoApplication, Stopped, ExecutorIdle
<1> QED
  BY <1>1, <1>7, <1>9, <1>11, <1>12, <1>13, PlaneChangeIsSound

\* What an exception leads to says nothing of the plane.
LEMMA RaisedIsNotQuiet ==
    ASSUME Sound(owner), owner # NoOwner, ~owner.failing, NEW c \in BOOLEAN
    PROVE  Raised(c) = NoOwner \/ Raised(c).pc = "stop_broker"
BY DEF Sound, Raised, OwnerType

\* Listener and broker start over the files of one generation.
LEMMA StartUnitIsSound ==
    AnalyticsInv /\ (StartListener \/ StartBroker) => AnalyticsInv'
<1> SUFFICES ASSUME AnalyticsInv, StartListener \/ StartBroker PROVE AnalyticsInv'
  OBVIOUS
<1>1. PICK u \in {"broker", "listener"}, q \in {"probe", "stable"} :
         /\ owner.pc \in {"listen", "serve"}
         /\ unit' = [unit EXCEPT ![u] = TRUE]
         /\ StepTo(q) \/ owner' = Raised(FALSE)
         /\ UNCHANGED <<installVars, live, leftovers, evidence>>
  BY DEF StartListener, StartBroker, StartUnit, Runs
<1>2. owner # NoOwner /\ owner \in OwnerType /\ Course(owner) /\ Evident(owner) /\ Advanced(owner)
      /\ Sound(owner)
  BY <1>1 DEF AnalyticsInv, Sound, NoOwner
<1>3. PICK o \in OwnerType : o = owner
  BY <1>2
<1>4. Coherent
  <2>1. PICK op \in OwnerOperations, w \in Workflows : op = o.op /\ w = o.sha
    BY DEF OwnerType
  <2>2. ~IsRecovery(o)
    BY <1>1, <1>2, <1>3 DEF Course, Publishing, Finishing
  <2>3. NewGeneration(op, w) /\ Kept(op, w) /\ evidence[op].sha = w
    BY <1>1, <1>2, <1>3, <2>1, <2>2 DEF Evident, Advanced, Finishing
  <2> QED
    BY <2>3, NewIsCoherent DEF Kept
<1>5. slot' = slot /\ row' = row /\ serving' = serving /\ answered' = answered
       /\ lapses' = lapses
  BY <1>1 DEF installVars
<1>6. InstallInv'
  BY <1>5 DEF AnalyticsInv, InstallInv, InstallTyped, ServedOnce, RunsAccepted, Accepted
<1>7. unit' \in [broker : BOOLEAN, listener : BOOLEAN]
  BY <1>1 DEF AnalyticsInv, PlaneTyped
<1>8. \E p : owner' = p /\ Sound(p) /\ (p # NoOwner => Quiet(p)')
  <2>1. CASE owner' = Raised(FALSE)
    <3>1. PICK p : p = Raised(FALSE)
      OBVIOUS
    <3>2. Sound(p) /\ (p = NoOwner \/ p.pc = "stop_broker")
      BY <1>1, <1>2, <3>1, RaisedIsSound, RaisedIsNotQuiet DEF Course, Stopping, Restoring
    <3> QED
      BY <2>1, <3>1, <3>2 DEF Quiet, Restoring
  <2>2. CASE StepTo(q)
    <3>1. PICK p : p = [o EXCEPT !.pc = q]
      OBVIOUS
    <3>2. Follows(p, o, q)
      BY <3>1, Moved DEF OwnerSteps, Publishing, Finishing
    <3>3. Course(p)
      BY <1>1, <1>2, <1>3, <3>2 DEF Follows, Course, IsRecovery, Restoring, Publishing,
         Finishing, Stopping, Preparation
    <3>4. Quiet(p) /\ Quiet(p)'
      BY <3>2 DEF Follows, Quiet, Restoring
    <3>5. Evident(p)
      BY <1>1, <1>2, <1>3, <3>2 DEF Follows, Evident, Grounded, Course, IsRecovery
    <3>6. Advanced(p)
      BY <1>1, <1>2, <1>3, <3>2 DEF Follows, Advanced, Finishing
    <3> QED
      BY <1>3, <2>2, <3>1, <3>2, <3>3, <3>4, <3>5, <3>6 DEF Sound, Follows, StepTo
  <2> QED
    BY <1>1, <2>1, <2>2
<1> QED
  BY <1>1, <1>4, <1>6, <1>7, <1>8, PlaneChangeIsSound

\* The broker may end at any time.
LEMMA BrokerEndsIsSound ==
    AnalyticsInv /\ BrokerEnds => AnalyticsInv'
<1> SUFFICES ASSUME AnalyticsInv, BrokerEnds PROVE AnalyticsInv'
  OBVIOUS
<1>1. unit' = [unit EXCEPT !.broker = FALSE] /\ UNCHANGED <<live, leftovers, evidence, owner>>
      /\ slot' = slot /\ row' = row /\ serving' = serving /\ answered' = answered
      /\ lapses' = lapses
  BY DEF BrokerEnds, installVars
<1>2. InstallInv'
  BY <1>1 DEF AnalyticsInv, InstallInv, InstallTyped, ServedOnce, RunsAccepted, Accepted
<1>3. unit \in [broker : BOOLEAN, listener : BOOLEAN]
  BY DEF AnalyticsInv, PlaneTyped
<1>4. unit' \in [broker : BOOLEAN, listener : BOOLEAN] /\ (Stopped => Stopped')
      /\ (NoApplication <=> NoApplication')
  BY <1>1, <1>3 DEF Stopped, ExecutorIdle, NoApplication
<1>5. PICK o : o = owner
  OBVIOUS
<1>6. Sound(o) /\ (o # NoOwner => Quiet(o)')
  BY <1>4, <1>5 DEF AnalyticsInv, Sound, Quiet
<1>7. Coherent \/ (Stopped' /\ NoApplication')
  BY <1>4 DEF AnalyticsInv, Mixture
<1> QED
  BY <1>1, <1>2, <1>4, <1>5, <1>6, <1>7, PlaneChangeIsSound

\* A stopped plane serves nobody, so that requests meet coherent files only.
LEMMA ServeIsSound ==
    AnalyticsInv /\ Serve => AnalyticsInv'
<1> SUFFICES ASSUME AnalyticsInv, Serve PROVE AnalyticsInv'
  OBVIOUS
<1>1. InstallInv' /\ UNCHANGED <<live, leftovers, evidence, unit, owner>>
  BY ExecutorStepIsSound, KillExecutorIsSound, ForwardIsSound DEF Serve, AnalyticsInv, resumeVars
<1>2. ~Stopped
  BY DEF Serve, Stopped, ExecutorIdle, KillExecutor, ExecutorStep, ExecutorPreflight,
     BeginExecution, HostPreflight, Pull, VerifyLocalDigest, Up, VerifyPrivateContainer,
     PrivateReady, FinishExecution, StopFirstSlot, Check, InspectContainer, At, Resting
<1>3. PICK o : o = owner
  OBVIOUS
<1>4. Sound(o) /\ (o # NoOwner => Quiet(o)')
  BY <1>2, <1>3 DEF AnalyticsInv, Sound, Quiet, Restoring
<1>5. unit' \in [broker : BOOLEAN, listener : BOOLEAN]
  BY <1>1 DEF AnalyticsInv, PlaneTyped
<1>6. Coherent
  BY <1>2 DEF AnalyticsInv, Mixture
<1> QED
  BY <1>1, <1>3, <1>4, <1>5, <1>6, PlaneChangeIsSound

-----------------------------------------------------------------------------
(* The beginning and the end of an operation, its evidence and temporaries. *)

\* An operation starts with nothing known about the host.
LEMMA StartIsSound ==
    ASSUME AnalyticsInv, NEW op \in OwnerOperations, NEW mode \in Modes, NEW w \in Workflows,
           Start(op, mode, w)
    PROVE  AnalyticsInv'
<1>1. PICK q \in {"inspect", "qualify"} : q = IF mode = "forward" THEN "inspect" ELSE "qualify"
  OBVIOUS
<1>2. PICK o : o = [op |-> op, mode |-> mode, sha |-> w, next |-> 1, failing |-> FALSE,
                    changed |-> FALSE, control |-> FALSE, errors |-> FALSE, pc |-> q]
  OBVIOUS
<1>3. owner' = o /\ w \notin {0, From(op)}
      /\ UNCHANGED <<installVars, live, leftovers, evidence, unit>>
  BY <1>1, <1>2 DEF Start, OnlyOwner
<1>4. o \in OwnerType
  BY <1>2 DEF OwnerType, OwnerSteps, Preparation
<1>5. /\ o.op = op /\ o.mode = mode /\ o.sha = w /\ o.next = 1 /\ ~o.failing
      /\ ~o.changed /\ ~o.errors /\ o.pc = q
  BY <1>2
<1>6. Course(o)
  BY <1>1, <1>3, <1>5 DEF Course, IsRecovery, Restoring, Publishing, Finishing, Stopping,
     Preparation, Modes
<1>7. Quiet(o) /\ Advanced(o)
  BY <1>5 DEF Quiet, Advanced, Restoring, Finishing
<1>8. Evident(o)
  BY <1>1, <1>5 DEF Evident, Grounded, IsRecovery, Modes
<1>9. Sound(o)
  BY <1>4, <1>6, <1>7, <1>8 DEF Sound
<1> QED
  BY <1>3, <1>9, OnlyOwnerIsSound

\* With no application in the slot the operation may change files.
LEMMA RequireNoApplicationIsSound ==
    AnalyticsInv /\ RequireNoApplication => AnalyticsInv'
<1> SUFFICES ASSUME AnalyticsInv, RequireNoApplication PROVE AnalyticsInv'
  OBVIOUS
<1>1. owner # NoOwner /\ owner.pc = "absent"
      /\ UNCHANGED <<installVars, live, leftovers, evidence, unit>>
  BY DEF RequireNoApplication, Runs, OnlyOwner, NoOwner
<1>2. CASE ~NoApplication
  BY <1>1, <1>2, RaiseIsSound DEF RequireNoApplication
<1>3. CASE NoApplication
  <2>1. PICK o \in OwnerType : o = owner
    BY <1>1 DEF AnalyticsInv, Sound
  <2>2. Course(o) /\ Quiet(o) /\ Evident(o)
    BY <1>1, <2>1 DEF AnalyticsInv, Sound
  <2>3. PICK p1 : p1 = [o EXCEPT !.pc = "preimage"]
    OBVIOUS
  <2>4. Follows(p1, o, "preimage")
    BY <2>3, Moved DEF OwnerSteps, Publishing
  <2>5. PICK p : p = [p1 EXCEPT !.changed = TRUE]
    OBVIOUS
  <2>6. p \in OwnerType
    BY <2>4, <2>5 DEF OwnerType, Follows
  <2>7. /\ p.pc = "preimage" /\ p.op = o.op /\ p.mode = o.mode /\ p.sha = o.sha
        /\ p.next = o.next /\ p.failing = o.failing /\ p.errors = o.errors /\ p.changed
    BY <2>4, <2>5 DEF OwnerType, Follows
  <2>8. owner' = p
    BY <1>3, <2>1, <2>3, <2>4, <2>5 DEF RequireNoApplication, Follows, OwnerType
  <2>9. Course(p)
    BY <1>1, <2>1, <2>2, <2>7 DEF Course, IsRecovery, Restoring, Publishing, Finishing,
       Stopping, Preparation
  <2>10. Quiet(p) /\ Advanced(p)
    BY <1>1, <1>3, <2>1, <2>2, <2>7 DEF Quiet, Advanced, Restoring, Finishing
  <2>11. Between(p.op, p.sha)
    <3>1. PICK op \in OwnerOperations, w \in Workflows : op = p.op /\ w = p.sha
      BY <2>6 DEF OwnerType
    <3>2. OldGeneration(op)
      BY <1>1, <2>1, <2>2, <2>7, <3>1 DEF Course, Evident
    <3> QED
      BY <3>1, <3>2, OldIsBetween
  <2>12. Evident(p)
    BY <1>1, <2>1, <2>2, <2>7, <2>11 DEF Evident, Course, Own, IsRecovery
  <2>13. Sound(p)
    BY <2>6, <2>9, <2>10, <2>12 DEF Sound
  <2> QED
    BY <1>1, <2>8, <2>13, OnlyOwnerIsSound
<1> QED
  BY <1>2, <1>3

\* An operation that ends, or raises, with the same files and plane.
LEMMA EndIsSound ==
    ASSUME AnalyticsInv, owner' = NoOwner,
           UNCHANGED <<installVars, live, leftovers, evidence, unit>>
    PROVE  AnalyticsInv'
<1>1. PICK o : o = NoOwner
  OBVIOUS
<1>2. Sound(o)
  BY <1>1 DEF Sound
<1> QED
  BY <1>1, <1>2, OnlyOwnerIsSound

\* The result and the report end an operation; a failure may strike before.
LEMMA EndsAreSound ==
    AnalyticsInv /\ (Complete \/ Report \/ OwnerFails) => AnalyticsInv'
<1> SUFFICES ASSUME AnalyticsInv, Complete \/ Report \/ OwnerFails PROVE AnalyticsInv'
  OBVIOUS
<1>1. UNCHANGED <<installVars, live, leftovers, evidence, unit>>
  BY DEF Complete, Report, OwnerFails
<1>2. owner # NoOwner
  <2>1. CASE OwnerFails
    BY <2>1 DEF OwnerFails
  <2>2. CASE Complete \/ Report
    <3>1. owner.pc \in {"complete", "report"}
      BY <2>2 DEF Complete, Report, Runs
    <3> QED
      BY <3>1 DEF NoOwner
  <2> QED
    BY <2>1, <2>2
<1>3. owner' = NoOwner \/ \E c \in BOOLEAN : owner' = Raised(c)
  BY DEF Complete, Report, OwnerFails
<1> QED
  BY <1>1, <1>2, <1>3, EndIsSound, RaiseIsSound

\* The evidence of an operation is only made while the old generation is whole.
LEMMA EvidenceIsSound ==
    AnalyticsInv /\ (MakePrivateDirectory \/ RetainEvidence) => AnalyticsInv'
<1> SUFFICES ASSUME AnalyticsInv, MakePrivateDirectory \/ RetainEvidence PROVE AnalyticsInv'
  OBVIOUS
<1>1. owner # NoOwner /\ owner.pc \in {"directory", "retain"}
      /\ UNCHANGED <<installVars, live, leftovers, unit>>
  BY DEF MakePrivateDirectory, RetainEvidence, Runs, NoOwner
<1>2. CASE owner' = NoOwner /\ UNCHANGED evidence
  BY <1>1, <1>2, EndIsSound
<1>3. CASE \E a \in {"partial", "complete"}, q \in {"retain", "stop_broker"}, s \in Nat :
               /\ evidence' = [evidence EXCEPT ![owner.op] = [at |-> a, sha |-> s]]
               /\ StepTo(q)
               /\ q = "stop_broker" => a = "complete"
               /\ a = "complete" => s = owner.sha
               /\ a = "partial" => evidence[owner.op].at = "none"
  <2>1. PICK a \in {"partial", "complete"}, q \in {"retain", "stop_broker"}, s \in Nat :
               /\ evidence' = [evidence EXCEPT ![owner.op] = [at |-> a, sha |-> s]]
               /\ StepTo(q)
               /\ q = "stop_broker" => a = "complete"
               /\ a = "complete" => s = owner.sha
               /\ a = "partial" => evidence[owner.op].at = "none"
    BY <1>3
  <2>2. PICK o \in OwnerType : o = owner
    BY <1>1 DEF AnalyticsInv, Sound
  <2>3. Course(o) /\ Evident(o)
    BY <1>1, <2>2 DEF AnalyticsInv, Sound
  <2>4. PICK p : p = [o EXCEPT !.pc = q]
    OBVIOUS
  <2>5. Follows(p, o, q) /\ owner' = p
    BY <2>1, <2>2, <2>4, Moved DEF OwnerSteps, Preparation, Stopping, StepTo
  <2>6. PICK op \in OwnerOperations : op = o.op
    BY DEF OwnerType
  <2>7. PICK e : e = [at |-> a, sha |-> s]
    OBVIOUS
  <2>8. e \in [at : {"none", "partial", "complete"}, sha : Nat] /\ e.at = a /\ e.sha = s
    BY <2>7
  <2>9. evidence \in [OwnerOperations -> [at : {"none", "partial", "complete"}, sha : Nat]]
    BY DEF AnalyticsInv, PlaneTyped
  <2>10. /\ evidence' \in [OwnerOperations -> [at : {"none", "partial", "complete"}, sha : Nat]]
         /\ evidence'[op] = e
         /\ \A x \in OwnerOperations : x # op => evidence'[x] = evidence[x]
    BY <2>1, <2>2, <2>6, <2>7, <2>8, <2>9
  <2>11. slot' = slot /\ row' = row /\ serving' = serving /\ answered' = answered
         /\ lapses' = lapses /\ live' = live /\ leftovers' = leftovers /\ unit' = unit
    BY <1>1 DEF installVars
  <2>12. InstallInv'
    BY <2>11 DEF AnalyticsInv, InstallInv, InstallTyped, ServedOnce, RunsAccepted, Accepted
  <2>13. FilesTyped' /\ PlaneTyped'
    BY <2>10, <2>11 DEF AnalyticsInv, FilesTyped, PlaneTyped
  <2>14. OldGeneration(op) /\ SourceLeftovers = {} /\ ~IsRecovery(o) /\ ~o.changed
    BY <1>1, <2>2, <2>3, <2>6 DEF Evident, Course
  <2>15. Mixture'
    <3>1. ASSUME Coherent PROVE Coherent'
      <4>1. CASE Whole(0) /\ live.config = 0
        BY <2>11, <4>1 DEF Coherent, Whole
      <4>2. ASSUME NEW x \in OwnerOperations, Whole(To(x)), evidence[x].at = "complete",
                   live.config = evidence[x].sha
            PROVE  Coherent'
        <5>1. CASE x # op
          BY <2>10, <2>11, <4>2, <5>1 DEF Coherent, Whole
        <5>2. CASE x = op
          <6>1. Whole(From(op)) /\ Whole(To(op)) /\ live.config = From(op)
            BY <2>14, <4>2, <5>2 DEF OldGeneration
          <6>2. From(op) = 0
            BY <6>1, OldIsNotNew
          <6> QED
            BY <4>1, <6>1, <6>2
        <5> QED
          BY <5>1, <5>2
      <4> QED
        BY <3>1, <4>1, <4>2 DEF Coherent
    <3>2. ASSUME ~Coherent
          PROVE  /\ Stopped' /\ NoApplication'
                 /\ \E x \in OwnerOperations, w \in Workflows : Mixed(x, w)'
      <4>1. Stopped' /\ NoApplication'
        BY <2>11, <3>2 DEF AnalyticsInv, Mixture, Stopped, ExecutorIdle, NoApplication
      <4>2. PICK x \in OwnerOperations, w \in Workflows : Mixed(x, w)
        BY <3>2 DEF AnalyticsInv, Mixture
      <4>3. CASE x # op
        BY <2>10, <2>11, <4>1, <4>2, <4>3 DEF Mixed, Between, Kept, ManualReview, Own,
           SourceLeftovers
      <4>4. CASE x = op
        <5>1. a = "complete" /\ s = o.sha
          BY <2>1, <2>2, <2>6, <4>2, <4>4 DEF Mixed, Kept
        <5>2. PICK v \in Workflows : v = o.sha
          BY DEF OwnerType
        <5>3. Between(op, v) /\ Own(op)
          BY <2>14, OldIsBetween DEF Own
        <5>4. Mixed(op, v)'
          BY <2>8, <2>10, <2>11, <5>1, <5>2, <5>3 DEF Mixed, Between, Kept, Own, SourceLeftovers
        <5> QED
          BY <4>1, <5>4
      <4> QED
        BY <4>3, <4>4, <4>1
    <3> QED
      BY <3>1, <3>2 DEF Mixture
  <2>16. Course(p)
    BY <1>1, <2>2, <2>3, <2>5 DEF Follows, Course, IsRecovery, Restoring, Publishing,
       Finishing, Stopping, Preparation
  <2>17. Quiet(p)' /\ Advanced(p)'
    BY <2>5 DEF Follows, Quiet, Advanced, Restoring, Finishing
  <2>18. Evident(p)'
    <3>1. OldGeneration(op)' /\ SourceLeftovers' = {}
      BY <2>11, <2>14 DEF OldGeneration, Whole, SourceLeftovers
    <3>2. q = "stop_broker" => e.at = "complete" /\ e.sha = p.sha
      BY <2>1, <2>2, <2>5, <2>8 DEF Follows
    <3>3. q = "stop_broker" => Kept(op, p.sha)' /\ evidence'[op].sha = p.sha
      BY <2>10, <3>2 DEF Kept
    <3> QED
      BY <2>5, <2>6, <2>14, <3>1, <3>3 DEF Follows, Evident, Grounded, IsRecovery
  <2> QED
    BY <2>5, <2>12, <2>13, <2>15, <2>16, <2>17, <2>18 DEF AnalyticsInv, Sound, Follows
<1>4. CASE MakePrivateDirectory
  BY <1>2, <1>3, <1>4 DEF MakePrivateDirectory
<1>5. CASE RetainEvidence
  <2>1. owner.sha \in Nat
    BY <1>1 DEF AnalyticsInv, Sound, OwnerType, Workflows
  <2> QED
    BY <1>3, <1>5, <2>1 DEF RetainEvidence
<1> QED
  BY <1>4, <1>5

\* Interrupted writes of the repair's own sources are moved away.
LEMMA PreserveIsSound ==
    AnalyticsInv /\ PreserveTemporaries => AnalyticsInv'
<1> SUFFICES ASSUME AnalyticsInv, PreserveTemporaries PROVE AnalyticsInv'
  OBVIOUS
<1>1. owner # NoOwner /\ owner.pc = "preserve" /\ StepTo("restore_known")
      /\ leftovers' = leftovers \ SourceLeftovers
  BY DEF PreserveTemporaries, Runs, NoOwner
<1>2. slot' = slot /\ row' = row /\ serving' = serving /\ answered' = answered
      /\ lapses' = lapses /\ live' = live /\ evidence' = evidence /\ unit' = unit
  BY DEF PreserveTemporaries, installVars
<1>3. PICK o \in OwnerType : o = owner
  BY <1>1 DEF AnalyticsInv, Sound
<1>4. Course(o) /\ Quiet(o) /\ Evident(o)
  BY <1>1, <1>3 DEF AnalyticsInv, Sound
<1>5. PICK p : p = [o EXCEPT !.pc = "restore_known"]
  OBVIOUS
<1>6. Follows(p, o, "restore_known") /\ owner' = p
  BY <1>1, <1>3, <1>5, Moved DEF OwnerSteps, Restoring, StepTo
<1>7. PICK op \in OwnerOperations, w \in Workflows : op = o.op /\ w = o.sha
  BY DEF OwnerType
<1>8. Between(op, w) /\ Kept(op, w) /\ IsRecovery(o) /\ op # "resume"
  BY <1>1, <1>3, <1>4, <1>7 DEF Evident, Grounded, Course
<1>9. Between(op, w)' /\ Kept(op, w)'
  BY <1>2, <1>8 DEF Between, Kept
<1>10. SourceLeftovers' = {}
  BY <1>1 DEF SourceLeftovers
<1>11. Own(op)'
  BY <1>10 DEF Own
<1>12. InstallInv'
  BY <1>2 DEF AnalyticsInv, InstallInv, InstallTyped, ServedOnce, RunsAccepted, Accepted
<1>13. FilesTyped' /\ PlaneTyped'
  BY <1>1, <1>2 DEF AnalyticsInv, FilesTyped, PlaneTyped
<1>14. Stopped' /\ NoApplication'
  BY <1>1, <1>2, <1>3, <1>4 DEF Quiet, Restoring, Stopped, ExecutorIdle, NoApplication
<1>15. Mixture'
  BY <1>9, <1>11, <1>14 DEF Mixture, Mixed
<1>16. Course(p)
  BY <1>1, <1>3, <1>4, <1>6 DEF Follows, Course, IsRecovery, Restoring, Publishing,
     Finishing, Stopping, Preparation
<1>17. Quiet(p)' /\ Advanced(p)'
  BY <1>6, <1>14 DEF Follows, Quiet, Advanced, Restoring, Finishing
<1>18. Evident(p)'
  BY <1>6, <1>7, <1>8, <1>9, <1>11 DEF Follows, Evident, IsRecovery
<1> QED
  BY <1>6, <1>12, <1>13, <1>15, <1>16, <1>17, <1>18 DEF AnalyticsInv, Sound, Follows

\* A temporary is named by its target.
LEMMA FileFacts ==
    ASSUME NEW kind \in {"config", "source", "asset", "records"}, NEW gen \in Nat,
           NEW index \in Int
    PROVE  /\ File(kind, gen, index) \in FileType
           /\ File(kind, gen, index).kind = kind /\ File(kind, gen, index).gen = gen
<1>1. PICK f : f = [kind |-> kind, gen |-> gen, index |-> index]
  OBVIOUS
<1>2. f \in FileType /\ f.kind = kind /\ f.gen = gen
  BY <1>1 DEF FileType
<1> QED
  BY <1>1, <1>2 DEF File

\* The temporary of a publication that a kill interrupts.
LEMMA InterruptedPath ==
    ASSUME NEW op \in OwnerOperations, NEW i \in Nat, 1 <= i, i <= Last(op)
    PROVE  /\ Path(op, i) \in FileType
           /\ Path(op, i).kind = "source" => Path(op, i).gen = To(op)
<1>0. To(op) \in Nat /\ SourceCount(op) \in Nat /\ i \in Int
  BY OperationFacts
<1>1. CASE i = Last(op)
  <2>1. Path(op, i) = File("config", 0, 0)
    BY <1>1, LastEntry DEF Path
  <2> QED
    BY <2>1, FileFacts
<1>2. CASE i # Last(op) /\ IsSource(op, i)
  <2>1. Path(op, i) = File("source", To(op), i)
    BY <1>2 DEF Path
  <2> QED
    BY <1>0, <2>1, FileFacts
<1>3. CASE i # Last(op) /\ ~IsSource(op, i)
  <2>1. Path(op, i) = File("asset", 0, AssetAt(op, i))
    BY <1>3 DEF Path
  <2>2. AssetAt(op, i) \in Int
    BY <1>0 DEF AssetAt
  <2> QED
    BY <2>1, <2>2, FileFacts
<1> QED
  BY <1>1, <1>2, <1>3

\* A kill leaves files and plane, and perhaps a temporary: of a publication of
\* the operation's own, or one that calls for manual review.
LEMMA KillOwnerIsSound ==
    AnalyticsInv /\ KillOwner => AnalyticsInv'
<1> SUFFICES ASSUME AnalyticsInv, KillOwner PROVE AnalyticsInv'
  OBVIOUS
<1>1. owner # NoOwner /\ owner' = NoOwner
  BY DEF KillOwner
<1>2. slot' = slot /\ row' = row /\ serving' = serving /\ answered' = answered
      /\ lapses' = lapses /\ live' = live /\ evidence' = evidence /\ unit' = unit
  BY DEF KillOwner, installVars
<1>3. PICK o \in OwnerType : o = owner
  BY <1>1 DEF AnalyticsInv, Sound
<1>4. Course(o) /\ Quiet(o) /\ Evident(o)
  BY <1>1, <1>3 DEF AnalyticsInv, Sound
<1>5. PICK op \in OwnerOperations, w \in Workflows : op = o.op /\ w = o.sha
  BY DEF OwnerType
<1>6. PICK left \in {{}, Interruptible, AuditTemporary} : leftovers' = leftovers \cup left
  BY DEF KillOwner
<1>7. InstallInv'
  BY <1>2 DEF AnalyticsInv, InstallInv, InstallTyped, ServedOnce, RunsAccepted, Accepted
<1>8. FilesTyped'
  BY <1>2 DEF AnalyticsInv, FilesTyped
<1>9. Sound(owner)'
  BY <1>1 DEF Sound
<1>10. Stopped' = Stopped /\ NoApplication' = NoApplication /\ (Coherent' <=> Coherent)
  BY <1>2 DEF Stopped, ExecutorIdle, NoApplication, Coherent, Whole
<1>11. \A x \in OwnerOperations, y \in Workflows :
          (Between(x, y)' <=> Between(x, y)) /\ (Kept(x, y)' <=> Kept(x, y))
  BY <1>2 DEF Between, Kept
<1>12. CASE left = {}
  <2>1. leftovers' = leftovers
    BY <1>6, <1>12
  <2>2. PlaneTyped'
    BY <1>2, <2>1 DEF AnalyticsInv, PlaneTyped
  <2>3. ManualReview' = ManualReview /\ \A x \in OwnerOperations : Own(x)' <=> Own(x)
    BY <2>1 DEF ManualReview, Own, SourceLeftovers
  <2>4. Mixture'
    BY <1>10, <1>11, <2>3 DEF AnalyticsInv, Mixture, Mixed
  <2> QED
    BY <1>7, <1>8, <1>9, <2>2, <2>4 DEF AnalyticsInv
<1>13. ASSUME NEW l \in Leftovers, left = {l}, l.suffix = "recovery"
       PROVE  AnalyticsInv'
  <2>1. leftovers' = leftovers \cup {l}
    BY <1>6, <1>13
  <2>2. PlaneTyped'
    BY <1>2, <2>1 DEF AnalyticsInv, PlaneTyped
  <2>3. ManualReview'
    BY <1>13, <2>1 DEF ManualReview
  <2>4. Mixture'
    BY <1>10, <1>11, <2>3 DEF AnalyticsInv, Mixture, Mixed
  <2> QED
    BY <1>7, <1>8, <1>9, <2>2, <2>4 DEF AnalyticsInv
<1>14. ASSUME NEW l \in Leftovers, left = {l}, o.pc = "publish",
              l.path.kind = "source" => l.path.gen = To(op)
       PROVE  AnalyticsInv'
  <2>1. leftovers' = leftovers \cup {l}
    BY <1>6, <1>14
  <2>2. PlaneTyped'
    BY <1>2, <2>1 DEF AnalyticsInv, PlaneTyped
  <2>3. Between(op, w) /\ Kept(op, w) /\ Own(op) /\ Stopped /\ NoApplication
    BY <1>4, <1>5, <1>14 DEF Evident, Grounded, Course, Publishing, Quiet
  <2>4. Own(op)'
    BY <1>14, <2>1, <2>3 DEF Own, SourceLeftovers
  <2>5. Mixture'
    BY <1>10, <1>11, <2>3, <2>4 DEF Mixture, Mixed
  <2> QED
    BY <1>7, <1>8, <1>9, <2>2, <2>5 DEF AnalyticsInv
<1>15. CASE left = AuditTemporary
  <2>1. PICK l : l = [path |-> Records(owner.op), suffix |-> "recovery"]
    OBVIOUS
  <2>2. To(op) \in Nat
    BY OperationFacts
  <2>x. PICK f \in FileType : f = Records(owner.op)
    BY <1>3, <1>5, <2>2, FileFacts DEF Records
  <2>3. l \in Leftovers /\ l.suffix = "recovery"
    BY <2>1, <2>x DEF Leftovers
  <2> QED
    BY <1>12, <1>13, <1>15, <2>1, <2>3 DEF AuditTemporary
<1>16. CASE left = Interruptible /\ left # {}
  <2>1. PICK i \in Nat : i = o.next /\ 1 <= i /\ i <= Last(op)
    BY <1>3, <1>4, <1>5, <1>16, OperationFacts DEF Interruptible, OwnerType, Course
  <2>2. PICK f \in FileType : f = Path(op, i)
    BY <2>1, InterruptedPath
  <2>3. f.kind = "source" => f.gen = To(op)
    BY <2>1, <2>2, InterruptedPath
  <2>4. CASE o.pc = "publish"
    <3>1. PICK l : l = [path |-> f, suffix |-> "normal"]
      OBVIOUS
    <3>2. l \in Leftovers /\ l.path = f
      BY <3>1 DEF Leftovers
    <3>3. left = {l}
      BY <1>3, <1>5, <1>16, <2>1, <2>2, <2>4, <3>1 DEF Interruptible, Runs
    <3> QED
      BY <1>14, <2>3, <2>4, <3>2, <3>3
  <2>5. CASE o.pc = "restore"
    <3>1. PICK l : l = [path |-> f, suffix |-> "recovery"]
      OBVIOUS
    <3>2. l \in Leftovers /\ l.suffix = "recovery"
      BY <3>1 DEF Leftovers
    <3>3. left = {l}
      BY <1>3, <1>5, <1>16, <2>1, <2>2, <2>5, <3>1 DEF Interruptible, Runs
    <3> QED
      BY <1>13, <3>2, <3>3
  <2> QED
    BY <1>3, <1>16, <2>4, <2>5 DEF Interruptible, Runs
<1> QED
  BY <1>6, <1>12, <1>15, <1>16

-----------------------------------------------------------------------------
(* Publication and restoration. *)

\* A publication replaces one file by the new one.
LEMMA PublishedFiles ==
    ASSUME NEW op \in OwnerOperations, NEW w \in Workflows, NEW i \in Nat,
           1 <= i, i <= Last(op), FilesTyped, Between(op, w), live' = Published(op, w, i)
    PROVE  /\ FilesTyped' /\ Between(op, w)' /\ IsAfter(op, w, i)'
           /\ \A j \in Entries(op) : j < i /\ IsAfter(op, w, j) => IsAfter(op, w, j)'
<1>1. live \in LiveType /\ w \in Nat /\ To(op) \in Generations /\ To(op) \in Nat
  BY OperationFacts DEF FilesTyped, Workflows
<1>2. \A j \in Entries(op) : j < i => j # Last(op)
  BY OperationFacts DEF Entries
<1>3. CASE i = Last(op)
  <2>1. live' = [live EXCEPT !.config = w]
    BY <1>3, LastEntry DEF Published
  <2>2. live' \in LiveType /\ live'.source = live.source /\ live'.asset = live.asset
        /\ live'.config = w
    BY <1>1, <2>1 DEF LiveType
  <2>3. FilesTyped' /\ Between(op, w)'
    BY <2>2 DEF FilesTyped, Between
  <2>4. IsAfter(op, w, i)'
    BY <1>3, <2>2, LastEntry DEF IsAfter
  <2>5. ASSUME NEW j \in Entries(op), j < i, IsAfter(op, w, j) PROVE IsAfter(op, w, j)'
    BY <1>2, <2>2, <2>5 DEF IsAfter
  <2> QED
    BY <2>3, <2>4, <2>5
<1>4. CASE i # Last(op) /\ IsSource(op, i)
  <2>0. op # "resume" /\ i \in 1..SourceCount(op) /\ SourceFiles(To(op)) = 1..SourceCount(op)
    BY <1>4, EntryKinds, OperationFacts
  <2>1. live' = [live EXCEPT !.source[To(op)] = @ \cup {i}]
    BY <1>4 DEF Published
  <2>2. PICK s : s = [live.source EXCEPT ![To(op)] = live.source[To(op)] \cup {i}]
    OBVIOUS
  <2>3. live' = [live EXCEPT !.source = s]
    BY <1>1, <2>1, <2>2 DEF LiveType
  <2>4. s \in [Generations -> SUBSET Nat] /\ i \in s[To(op)]
        /\ live.source[To(op)] \subseteq s[To(op)]
        /\ s[To(op)] \subseteq SourceFiles(To(op))
        /\ \A g \in Generations : g # To(op) => s[g] = live.source[g]
    BY <1>1, <2>0, <2>2 DEF LiveType, FilesTyped
  <2>5. live' \in LiveType /\ live'.source = s /\ live'.asset = live.asset
        /\ live'.config = live.config
    BY <1>1, <2>3, <2>4 DEF LiveType
  <2>6. FilesTyped' /\ Between(op, w)'
    BY <2>4, <2>5 DEF FilesTyped, Between
  <2>7. IsAfter(op, w, i)'
    BY <1>4, <2>4, <2>5 DEF IsAfter
  <2>8. ASSUME NEW j \in Entries(op), j < i, IsAfter(op, w, j) PROVE IsAfter(op, w, j)'
    BY <1>2, <2>4, <2>5, <2>8 DEF IsAfter
  <2> QED
    BY <2>6, <2>7, <2>8
<1>5. CASE i # Last(op) /\ ~IsSource(op, i)
  <2>0. op # "resume"
    BY <1>5, EntryKinds
  <2>1. PICK k \in 1..Assets : k = AssetAt(op, i)
    BY <1>5, EntryKinds
  <2>2. live' = [live EXCEPT !.asset[k] = To(op)]
    BY <1>5, <2>1 DEF Published
  <2>3. PICK a : a = [live.asset EXCEPT ![k] = To(op)]
    OBVIOUS
  <2>4. live' = [live EXCEPT !.asset = a]
    BY <1>1, <2>2, <2>3 DEF LiveType
  <2>5. a \in [1..Assets -> Nat] /\ a[k] = To(op)
        /\ \A m \in 1..Assets : m # k => a[m] = live.asset[m]
    BY <1>1, <2>3 DEF LiveType
  <2>6. live' \in LiveType /\ live'.source = live.source /\ live'.asset = a
        /\ live'.config = live.config
    BY <1>1, <2>4, <2>5 DEF LiveType
  <2>7. FilesTyped' /\ Between(op, w)'
    BY <2>5, <2>6 DEF FilesTyped, Between
  <2>8. IsAfter(op, w, i)'
    BY <1>5, <2>1, <2>5, <2>6 DEF IsAfter
  <2>9. ASSUME NEW j \in Entries(op), j < i, IsAfter(op, w, j) PROVE IsAfter(op, w, j)'
    <3>1. CASE IsSource(op, j)
      BY <1>2, <2>6, <2>9, <3>1 DEF IsAfter
    <3>2. CASE ~IsSource(op, j)
      <4>1. j \in Nat /\ 1 <= j /\ j <= Last(op) /\ j # Last(op)
        BY <1>2, <2>9, OperationFacts DEF Entries
      <4>2. PICK m \in 1..Assets : m = AssetAt(op, j)
        BY <3>2, <4>1, EntryKinds
      <4>3. live.asset[m] = To(op)
        BY <2>9, <3>2, <4>1, <4>2 DEF IsAfter
      <4>4. live'.asset[m] = To(op)
        BY <2>5, <2>6, <4>3
      <4> QED
        BY <3>2, <4>1, <4>2, <4>4 DEF IsAfter
    <3> QED
      BY <3>1, <3>2
  <2> QED
    BY <2>7, <2>8, <2>9
<1> QED
  BY <1>3, <1>4, <1>5

\* A restoration replaces one file by its preimage.
LEMMA RestoredFiles ==
    ASSUME NEW op \in OwnerOperations, NEW w \in Workflows, NEW i \in Nat,
           1 <= i, i <= Last(op), FilesTyped, Between(op, w), live' = Restored(op, i)
    PROVE  /\ FilesTyped' /\ Between(op, w)'
           /\ i = Last(op) => live'.config = From(op)
<1>1. live \in LiveType /\ w \in Nat /\ To(op) \in Generations /\ From(op) \in Nat
  BY OperationFacts DEF FilesTyped, Workflows
<1>2. CASE i = Last(op)
  <2>1. live' = [live EXCEPT !.config = From(op)]
    BY <1>2, LastEntry DEF Restored
  <2>2. live' \in LiveType /\ live'.source = live.source /\ live'.asset = live.asset
        /\ live'.config = From(op)
    BY <1>1, <2>1 DEF LiveType
  <2> QED
    BY <2>2 DEF FilesTyped, Between
<1>3. CASE i # Last(op) /\ IsSource(op, i)
  <2>1. live' = [live EXCEPT !.source[To(op)] = @ \ {i}]
    BY <1>3 DEF Restored
  <2>2. PICK s : s = [live.source EXCEPT ![To(op)] = live.source[To(op)] \ {i}]
    OBVIOUS
  <2>3. live' = [live EXCEPT !.source = s]
    BY <1>1, <2>1, <2>2 DEF LiveType
  <2>4. s \in [Generations -> SUBSET Nat] /\ s[To(op)] \subseteq live.source[To(op)]
        /\ \A g \in Generations : g # To(op) => s[g] = live.source[g]
    BY <1>1, <2>2 DEF LiveType
  <2>5. live' \in LiveType /\ live'.source = s /\ live'.asset = live.asset
        /\ live'.config = live.config
    BY <1>1, <2>3, <2>4 DEF LiveType
  <2> QED
    BY <1>1, <1>3, <2>4, <2>5 DEF FilesTyped, Between
<1>4. CASE i # Last(op) /\ ~IsSource(op, i)
  <2>1. PICK k \in 1..Assets : k = AssetAt(op, i)
    BY <1>4, EntryKinds
  <2>2. live' = [live EXCEPT !.asset[k] = From(op)]
    BY <1>4, <2>1 DEF Restored
  <2>3. PICK a : a = [live.asset EXCEPT ![k] = From(op)]
    OBVIOUS
  <2>4. live' = [live EXCEPT !.asset = a]
    BY <1>1, <2>2, <2>3 DEF LiveType
  <2>5. a \in [1..Assets -> Nat] /\ a[k] = From(op)
        /\ \A m \in 1..Assets : m # k => a[m] = live.asset[m]
    BY <1>1, <2>3 DEF LiveType
  <2>6. live' \in LiveType /\ live'.source = live.source /\ live'.asset = a
        /\ live'.config = live.config
    BY <1>1, <2>4, <2>5 DEF LiveType
  <2> QED
    BY <1>4, <2>5, <2>6 DEF FilesTyped, Between
<1> QED
  BY <1>2, <1>3, <1>4

\* An exception keeps the operation, its SHA and what it has changed.
LEMMA RaisedFacts ==
    ASSUME Sound(owner), owner # NoOwner, NEW c \in BOOLEAN, NEW o, o = Raised(c),
           o # NoOwner
    PROVE  /\ o.op = owner.op /\ o.sha = owner.sha /\ o.changed = owner.changed
           /\ o.mode = owner.mode /\ ~Recovers
           /\ o.pc = "stop_broker" \/ (o.pc = "report" /\ o.errors)
<1>1. owner \in OwnerType
  BY DEF Sound
<1>2. ~(owner.pc \in Preparation \/ Recovers)
  BY DEF Raised
<1>3. CASE owner.failing
  BY <1>1, <1>2, <1>3 DEF Raised, OwnerType
<1>4. CASE ~owner.failing
  BY <1>1, <1>2, <1>4 DEF Raised, OwnerType
<1> QED
  BY <1>3, <1>4

\* A file changes in a stopped and empty plane, between the two generations.
LEMMA FileChangeIsSound ==
    ASSUME AnalyticsInv, NEW op \in OwnerOperations, NEW w \in Workflows, NEW o,
           owner' = o, Sound(o)', Stopped, NoApplication, FilesTyped', Between(op, w)',
           Kept(op, w), Own(op), UNCHANGED <<installVars, leftovers, evidence, unit>>
    PROVE  AnalyticsInv'
<1>1. slot' = slot /\ row' = row /\ serving' = serving /\ answered' = answered
      /\ lapses' = lapses /\ leftovers' = leftovers /\ evidence' = evidence /\ unit' = unit
  BY DEF installVars
<1>2. InstallInv'
  BY <1>1 DEF AnalyticsInv, InstallInv, InstallTyped, ServedOnce, RunsAccepted, Accepted
<1>3. PlaneTyped'
  BY <1>1 DEF AnalyticsInv, PlaneTyped
<1>4. Stopped' /\ NoApplication' /\ Kept(op, w)' /\ Own(op)'
  BY <1>1 DEF Stopped, ExecutorIdle, NoApplication, Kept, Own, SourceLeftovers
<1>5. Mixture'
  BY <1>4 DEF Mixture, Mixed
<1> QED
  BY <1>2, <1>3, <1>5 DEF AnalyticsInv, Sound

\* The next entry of an operation.
LEMMA NextEntry ==
    ASSUME NEW o \in OwnerType
    PROVE  \E p \in OwnerType :
              /\ p = [o EXCEPT !.next = @ + 1]
              /\ p.next = o.next + 1 /\ p.pc = o.pc /\ p.op = o.op /\ p.mode = o.mode
              /\ p.sha = o.sha /\ p.failing = o.failing /\ p.changed = o.changed
              /\ p.control = o.control /\ p.errors = o.errors
<1>1. PICK p : p = [o EXCEPT !.next = @ + 1]
  OBVIOUS
<1>2. p \in OwnerType
  BY <1>1 DEF OwnerType
<1>3. /\ p.next = o.next + 1 /\ p.pc = o.pc /\ p.op = o.op /\ p.mode = o.mode
      /\ p.sha = o.sha /\ p.failing = o.failing /\ p.changed = o.changed
      /\ p.control = o.control /\ p.errors = o.errors
  BY <1>1 DEF OwnerType
<1> QED
  BY <1>1, <1>2, <1>3

\* An exception after a file was replaced leaves a sound operation too.
LEMMA RaisedAfterChange ==
    ASSUME AnalyticsInv, owner # NoOwner, owner.changed \/ Recovers,
           NEW op \in OwnerOperations, NEW w \in Workflows, op = owner.op, w = owner.sha,
           Between(op, w)', Own(op), NEW o, o = Raised(FALSE),
           UNCHANGED <<leftovers, evidence>>
    PROVE  Sound(o)'
<1>1. Sound(owner)
  BY DEF AnalyticsInv
<1>2. Sound(o)
  BY <1>1, RaisedIsSound
<1>3. CASE o = NoOwner
  BY <1>3 DEF Sound
<1>4. CASE o # NoOwner
  <2>1. /\ o.op = op /\ o.sha = w /\ o.changed /\ ~IsRecovery(o)
        /\ o.pc = "stop_broker" \/ (o.pc = "report" /\ o.errors)
    BY <1>1, <1>4, RaisedFacts DEF Recovers, IsRecovery
  <2>2. o \in OwnerType /\ Course(o) /\ Evident(o)
    BY <1>2, <1>4 DEF Sound
  <2>3. Quiet(o)' /\ Advanced(o)'
    BY <2>1 DEF Quiet, Advanced, Restoring, Finishing
  <2>4. Kept(op, w)' /\ evidence'[op].sha = w /\ SourceLeftovers' = {} /\ Own(op)'
    BY <2>1, <2>2 DEF Evident, Kept, SourceLeftovers, Own
  <2>5. Evident(o)'
    BY <2>1, <2>4 DEF Evident, IsRecovery
  <2> QED
    BY <2>2, <2>3, <2>5 DEF Sound
<1> QED
  BY <1>3, <1>4

\* Every publication of a forward operation, also one that raises afterwards.
LEMMA PublishIsSound ==
    AnalyticsInv /\ PublishEntry => AnalyticsInv'
<1> SUFFICES ASSUME AnalyticsInv, PublishEntry PROVE AnalyticsInv'
  OBVIOUS
<1>1. owner # NoOwner /\ owner.pc = "publish" /\ UNCHANGED <<installVars, leftovers, evidence, unit>>
  BY DEF PublishEntry, PublishFile, Runs, NoOwner
<1>2. PICK o \in OwnerType : o = owner
  BY <1>1 DEF AnalyticsInv, Sound
<1>3. Course(o) /\ Quiet(o) /\ Evident(o) /\ Advanced(o)
  BY <1>1, <1>2 DEF AnalyticsInv, Sound
<1>4. PICK op \in OwnerOperations, w \in Workflows, i \in Nat : op = o.op /\ w = o.sha /\ i = o.next
  BY DEF OwnerType
<1>5. /\ Between(op, w) /\ Own(op) /\ Kept(op, w) /\ evidence[op].sha = w /\ SourceLeftovers = {}
      /\ o.changed /\ ~IsRecovery(o) /\ ~o.failing /\ ~o.errors /\ 1 <= i
      /\ Stopped /\ NoApplication
  BY <1>1, <1>2, <1>3, <1>4 DEF Evident, Grounded, Course, Publishing, Quiet, Stopping,
     Restoring
<1>6. FilesTyped
  BY DEF AnalyticsInv
<1>7. CASE i > Last(op) /\ StepTo("reload") /\ UNCHANGED live
  <2>1. NewGeneration(op, w)
    <3>1. \A j \in Entries(op) : IsAfter(op, w, j)
      BY <1>1, <1>2, <1>3, <1>4, <1>7, OperationFacts DEF Advanced, Entries
    <3> QED
      BY <1>5, <1>6, <3>1, AllPublished
  <2>2. ASSUME NEW p, Follows(p, owner, "reload")
        PROVE  Course(p) /\ Quiet(p) /\ Evident(p) /\ Advanced(p)
    <3>1. Course(p)
      BY <1>1, <1>2, <1>3, <2>2 DEF Follows, Course, IsRecovery, Restoring, Publishing,
         Finishing, Stopping, Preparation
    <3>2. Quiet(p)
      BY <1>2, <1>5, <2>2 DEF Follows, Quiet, Restoring
    <3>3. Evident(p)
      BY <1>1, <1>2, <1>3, <2>2 DEF Follows, Evident, Grounded, IsRecovery
    <3>4. Advanced(p)
      BY <1>2, <1>4, <2>1, <2>2 DEF Follows, Advanced
    <3> QED
      BY <3>1, <3>2, <3>3, <3>4
  <2> QED
    BY <1>1, <1>7, <2>2, MoveIsSound DEF OwnerSteps, Publishing, Finishing
<1>8. CASE owner' = Raised(FALSE) /\ UNCHANGED live
  BY <1>1, <1>8, RaiseIsSound
<1>9. CASE i <= Last(op) /\ live' = Published(op, w, i)
           /\ (owner' = [owner EXCEPT !.next = @ + 1] \/ owner' = Raised(FALSE))
  <2>1. /\ FilesTyped' /\ Between(op, w)' /\ IsAfter(op, w, i)'
        /\ \A j \in Entries(op) : j < i /\ IsAfter(op, w, j) => IsAfter(op, w, j)'
    BY <1>5, <1>6, <1>9, PublishedFiles
  <2>2. CASE owner' = Raised(FALSE)
    <3>1. PICK p : p = Raised(FALSE)
      OBVIOUS
    <3>2. Sound(p)'
      BY <1>1, <1>2, <1>4, <1>5, <2>1, <3>1, RaisedAfterChange
    <3> QED
      BY <1>1, <1>5, <2>1, <2>2, <3>1, <3>2, FileChangeIsSound
  <2>3. CASE owner' = [owner EXCEPT !.next = @ + 1]
    <3>1. PICK p \in OwnerType :
              /\ p = [o EXCEPT !.next = @ + 1]
              /\ p.next = o.next + 1 /\ p.pc = o.pc /\ p.op = o.op /\ p.mode = o.mode
              /\ p.sha = o.sha /\ p.failing = o.failing /\ p.changed = o.changed
              /\ p.control = o.control /\ p.errors = o.errors
      BY NextEntry
    <3>2. Course(p)
      BY <1>1, <1>2, <1>3, <1>4, <3>1 DEF Course, IsRecovery, Restoring, Publishing,
         Finishing, Stopping, Preparation
    <3>3. Stopped' /\ NoApplication'
      BY <1>1, <1>5 DEF Stopped, ExecutorIdle, NoApplication, installVars
    <3>4. Quiet(p)'
      BY <1>1, <1>2, <3>1, <3>3 DEF Quiet
    <3>5. Kept(op, w)' /\ evidence'[op].sha = w /\ SourceLeftovers' = {} /\ Own(op)'
      BY <1>1, <1>5 DEF Kept, SourceLeftovers, Own
    <3>6. Evident(p)'
      BY <1>2, <1>4, <1>5, <2>1, <3>1, <3>5 DEF Evident, IsRecovery
    <3>7. \A j \in Entries(op) : j < i + 1 => IsAfter(op, w, j)'
      <4>1. ASSUME NEW j \in Entries(op), j < i + 1 PROVE IsAfter(op, w, j)'
        <5>1. j = i \/ j < i
          BY <4>1, OperationFacts DEF Entries
        <5>2. CASE j = i
          BY <2>1, <5>2
        <5>3. CASE j < i
          BY <1>1, <1>2, <1>3, <1>4, <2>1, <5>3 DEF Advanced
        <5> QED
          BY <5>1, <5>2, <5>3
      <4> QED
        BY <4>1
    <3>8. Advanced(p)'
      BY <1>1, <1>2, <1>4, <3>1, <3>7 DEF Advanced, Finishing
    <3>9. Sound(p)' /\ owner' = p
      BY <1>2, <2>3, <3>1, <3>2, <3>4, <3>6, <3>8 DEF Sound
    <3> QED
      BY <1>1, <1>5, <2>1, <3>9, FileChangeIsSound
  <2> QED
    BY <1>9, <2>2, <2>3
<1> QED
  BY <1>2, <1>4, <1>7, <1>8, <1>9 DEF PublishEntry, PublishFile

\* Every restoration, of a failed operation or of a recovery.
LEMMA RestoreIsSound ==
    AnalyticsInv /\ RestoreEntry => AnalyticsInv'
<1> SUFFICES ASSUME AnalyticsInv, RestoreEntry PROVE AnalyticsInv'
  OBVIOUS
<1>1. owner # NoOwner /\ owner.pc = "restore" /\ UNCHANGED <<installVars, leftovers, evidence, unit>>
  BY DEF RestoreEntry, PublishFile, Runs, NoOwner
<1>2. PICK o \in OwnerType : o = owner
  BY <1>1 DEF AnalyticsInv, Sound
<1>3. Course(o) /\ Quiet(o) /\ Evident(o) /\ Advanced(o)
  BY <1>1, <1>2 DEF AnalyticsInv, Sound
<1>4. PICK op \in OwnerOperations, w \in Workflows, i \in Nat : op = o.op /\ w = o.sha /\ i = o.next
  BY DEF OwnerType
<1>5. /\ Between(op, w) /\ Own(op) /\ Kept(op, w) /\ (o.changed \/ IsRecovery(o))
      /\ 1 <= i /\ Stopped /\ NoApplication
  BY <1>1, <1>2, <1>3, <1>4 DEF Evident, Grounded, Course, Quiet, Restoring
<1>6. FilesTyped
  BY DEF AnalyticsInv
<1>7. ASSUME i > Last(op), NEW q \in {"reinspect", "restore_reload"}, StepTo(q),
             q = "reinspect" => IsRecovery(o) /\ op # "resume",
             q = "restore_reload" => ~IsRecovery(o) \/ op = "resume", UNCHANGED live
      PROVE  AnalyticsInv'
  <2>1. op = "resume" => live.config = 0
    BY <1>1, <1>2, <1>3, <1>4, <1>7, OperationFacts DEF Advanced
  <2>2. ASSUME NEW p, Follows(p, owner, q)
        PROVE  Course(p) /\ Quiet(p) /\ Evident(p) /\ Advanced(p)
    <3>1. Course(p)
      BY <1>1, <1>2, <1>3, <1>4, <1>7, <2>2 DEF Follows, Course, IsRecovery, Restoring,
         Publishing, Finishing, Stopping, Preparation
    <3>2. Quiet(p)
      BY <1>2, <1>5, <2>2, <1>7 DEF Follows, Quiet
    <3>3. Evident(p)
      BY <1>1, <1>2, <1>3, <1>7, <2>2 DEF Follows, Evident, Grounded, IsRecovery
    <3>4. Advanced(p)
      BY <1>2, <1>4, <1>7, <2>1, <2>2 DEF Follows, Advanced, Finishing
    <3> QED
      BY <3>1, <3>2, <3>3, <3>4
  <2> QED
    BY <1>1, <1>7, <2>2, MoveIsSound DEF OwnerSteps, Restoring
<1>8. CASE owner' = Raised(FALSE) /\ UNCHANGED live
  BY <1>1, <1>8, RaiseIsSound
<1>9. CASE owner' = Raised(FALSE) /\ i <= Last(op) /\ live' = Restored(op, i)
  <2>1. FilesTyped' /\ Between(op, w)'
    BY <1>5, <1>6, <1>9, RestoredFiles
  <2>2. PICK p : p = Raised(FALSE)
    OBVIOUS
  <2>3. Sound(p)'
    BY <1>1, <1>2, <1>4, <1>5, <2>1, <2>2, RaisedAfterChange DEF Recovers, IsRecovery
  <2> QED
    BY <1>1, <1>5, <1>9, <2>1, <2>2, <2>3, FileChangeIsSound
<1>10. CASE /\ owner' = [owner EXCEPT !.next = @ + 1] /\ i <= Last(op)
            /\ (UNCHANGED live /\ IsBefore(op, i)) \/ live' = Restored(op, i)
  <2>1. FilesTyped' /\ Between(op, w)' /\ (i = Last(op) => live'.config = From(op))
    <3>1. CASE UNCHANGED live /\ IsBefore(op, i)
      <4>1. i = Last(op) => live.config = From(op)
        BY <3>1, LastEntry DEF IsBefore
      <4> QED
        BY <1>5, <1>6, <3>1, <4>1 DEF FilesTyped, Between
    <3>2. CASE live' = Restored(op, i)
      BY <1>5, <1>6, <1>10, <3>2, RestoredFiles
    <3> QED
      BY <1>10, <3>1, <3>2
  <2>2. PICK p \in OwnerType :
              /\ p = [o EXCEPT !.next = @ + 1]
              /\ p.next = o.next + 1 /\ p.pc = o.pc /\ p.op = o.op /\ p.mode = o.mode
              /\ p.sha = o.sha /\ p.failing = o.failing /\ p.changed = o.changed
              /\ p.control = o.control /\ p.errors = o.errors
    BY NextEntry
  <2>3. Course(p)
    BY <1>1, <1>2, <1>3, <1>4, <2>2 DEF Course, IsRecovery, Restoring, Publishing,
       Finishing, Stopping, Preparation
  <2>4. Stopped' /\ NoApplication'
    BY <1>1, <1>5 DEF Stopped, ExecutorIdle, NoApplication, installVars
  <2>5. Quiet(p)'
    BY <1>1, <1>2, <2>2, <2>4 DEF Quiet
  <2>6. Kept(op, w)' /\ Own(op)' /\ SourceLeftovers' = SourceLeftovers
    BY <1>1, <1>5 DEF Kept, SourceLeftovers, Own
  <2>7. ~IsRecovery(p) => SourceLeftovers' = {} /\ evidence'[op].sha = w
    BY <1>1, <1>2, <1>3, <1>4, <2>2, <2>6 DEF Evident, IsRecovery
  <2>8. Evident(p)'
    BY <1>2, <1>4, <1>5, <2>1, <2>2, <2>6, <2>7 DEF Evident, IsRecovery
  <2>9. op = "resume" => live'.config = 0
    BY <1>4, <1>5, <1>10, <2>1, OperationFacts
  <2>10. Advanced(p)'
    BY <1>1, <1>2, <1>4, <2>2, <2>9 DEF Advanced, Finishing
  <2>11. Sound(p)' /\ owner' = p
    BY <1>2, <1>10, <2>2, <2>3, <2>5, <2>8, <2>10 DEF Sound
  <2> QED
    BY <1>1, <1>5, <2>1, <2>11, FileChangeIsSound
<1>11. CASE i > Last(op) /\ UNCHANGED live
            /\ StepTo(IF Recovers /\ owner.op # "resume" THEN "reinspect" ELSE "restore_reload")
  BY <1>2, <1>4, <1>7, <1>11 DEF Recovers, IsRecovery
<1> QED
  BY <1>2, <1>4, <1>8, <1>9, <1>10, <1>11 DEF RestoreEntry, PublishFile

-----------------------------------------------------------------------------
(* The theorems on Analytics. *)

\* Result files are named by operation.
ResultValues == {"none", "ready", "stopped_recovered", "manual_recovery_required"}
PublicTyped == public \in [OwnerOperations -> ResultValues]

\* Before any operation the installed product is generation 0, and stopped.
LEMMA AnalyticsStarts ==
    AnalyticsInit => AnalyticsInv
<1> SUFFICES ASSUME AnalyticsInit PROVE AnalyticsInv
  OBVIOUS
<1>1. InstallInv
  BY DEF AnalyticsInit, InstallInit, InstallInv, InstallTyped, ServedOnce, RunsAccepted, Resting
<1>2. PICK s, a : s = [g \in Generations |-> {}] /\ a = [i \in 1..Assets |-> 0]
  OBVIOUS
<1>3. live = [source |-> s, asset |-> a, config |-> 0]
  BY <1>2 DEF AnalyticsInit
<1>4. s \in [Generations -> SUBSET Nat] /\ a \in [1..Assets -> Nat]
  BY <1>2
<1>5. live \in LiveType /\ live.source = s /\ live.asset = a /\ live.config = 0
  BY <1>3, <1>4 DEF LiveType
<1>6. FilesTyped
  BY <1>2, <1>5 DEF FilesTyped
<1>7. PICK e \in [at : {"none", "partial", "complete"}, sha : Nat] : e = [at |-> "none", sha |-> 0]
  OBVIOUS
<1>8. PlaneTyped
  BY <1>7 DEF AnalyticsInit, PlaneTyped
<1>9. Sound(owner)
  BY DEF AnalyticsInit, Sound
<1>10. Coherent
  <2>1. SourceFiles(0) = {}
    BY DEF SourceFiles
  <2>2. Whole(0)
    BY <1>2, <1>5, <2>1 DEF Whole, Generations
  <2> QED
    BY <1>5, <2>2 DEF Coherent, Generations
<1> QED
  BY <1>1, <1>6, <1>8, <1>9, <1>10 DEF AnalyticsInv, Mixture

\* Every step of the owner, of the plane and of the environment keeps it.
LEMMA AnalyticsContinues ==
    AnalyticsInv /\ [AnalyticsNext]_analyticsVars => AnalyticsInv'
<1> SUFFICES ASSUME AnalyticsInv, [AnalyticsNext]_analyticsVars PROVE AnalyticsInv'
  OBVIOUS
<1>1. CASE UNCHANGED analyticsVars
  <2>1. PICK o : o = owner
    OBVIOUS
  <2>2. UNCHANGED <<installVars, live, leftovers, evidence, unit>> /\ owner' = o
    BY <1>1, <2>1 DEF analyticsVars, resumeVars
  <2>3. Sound(o)
    BY <2>1 DEF AnalyticsInv
  <2> QED
    BY <2>2, <2>3, OnlyOwnerIsSound
<1>2. CASE OwnerStep
  BY <1>2, InspectionIsSound, EvidenceIsSound, QualificationIsSound, StopUnitIsSound,
     StopExecutorIsSound, ConfirmationIsSound, RequireNoApplicationIsSound, PreimageIsSound,
     PublishIsSound, ReloadIsSound, ClearIsSound, StartUnitIsSound, ProbeIsSound,
     AbsenceIsSound, StabilityIsSound, EndsAreSound, AbsentRestorationIsSound,
     PreserveIsSound, KnownRestorationIsSound, RestoreIsSound, ReinspectionIsSound,
     RestoredReloadIsSound DEF OwnerStep
<1>3. CASE \E op \in OwnerOperations, mode \in Modes, w \in Workflows : Start(op, mode, w)
  BY <1>3, StartIsSound
<1>4. CASE OwnerFails \/ KillOwner \/ BrokerEnds \/ Serve
  BY <1>4, EndsAreSound, KillOwnerIsSound, BrokerEndsIsSound, ServeIsSound
<1> QED
  BY <1>1, <1>2, <1>3, <1>4 DEF AnalyticsNext

\* The invariant of the installation and of the owner's operations holds for any
\* requests, assets, stream sources and failures.
THEOREM AnalyticsIsInductive == AnalyticsSpec => []AnalyticsInv
BY AnalyticsStarts, AnalyticsContinues, PTL DEF AnalyticsSpec

\* deploy_analytics: what runs while no request is served was accepted, unless the
\* executor was killed or its stop could not be confirmed.
THEOREM OnlyAcceptedRuns == AnalyticsSpec => []UnacceptedIsStopped
<1>1. AnalyticsInv => UnacceptedIsStopped
  BY DEF AnalyticsInv, InstallInv, RunsAccepted, UnacceptedIsStopped, Undecided, Resting, Accepted
<1> QED
  BY <1>1, AnalyticsIsInductive, PTL

\* resume_analytics and --recover: files of two generations, or of one with the SHA
\* of another, are never served, and a recovery is admitted, unless a restoration
\* was interrupted too.
THEOREM EveryMixtureIsRecoverable == AnalyticsSpec => []MixtureIsRecoverable
<1>1. AnalyticsInv => MixtureIsRecoverable
  <2> SUFFICES ASSUME AnalyticsInv, ~Coherent, ~ManualReview
               PROVE  Stopped /\ \E op \in OwnerOperations, w \in Workflows : RecoverAdmitted(op, w)
    BY DEF AnalyticsInv, Mixture, MixtureIsRecoverable
  <2>1. Stopped /\ NoApplication
    BY DEF AnalyticsInv, Mixture
  <2>2. PICK op \in OwnerOperations, w \in Workflows : Mixed(op, w)
    BY DEF AnalyticsInv, Mixture
  <2>3. \A i \in Entries(op) : Known(op, w, i)
    BY <2>2, BetweenIsKnown DEF Mixed
  <2>4. \A l \in leftovers : l.suffix = "normal"
    BY DEF AnalyticsInv, PlaneTyped, ManualReview, Leftovers
  <2>5. PartialTree(op)
    BY <2>2, <2>4 DEF Mixed, Between, Own, PartialTree, SourceLeftovers
  <2>6. RecoverAdmitted(op, w)
    BY <2>1, <2>2, <2>3, <2>4, <2>5 DEF RecoverAdmitted, Mixed, Kept
  <2> QED
    BY <2>1, <2>6
<1> QED
  BY <1>1, AnalyticsIsInductive, PTL

\* no_application: while an application is installed no file of its generation
\* changes, by a publication or by a restoration.
THEOREM FilesChangeOnlyUnused == AnalyticsSpec => ApplicationKeepsGeneration
<1>1. AnalyticsInv /\ [AnalyticsNext]_analyticsVars => [slot # "none" => live' = live]_<<live, slot>>
  <2> SUFFICES ASSUME AnalyticsInv, AnalyticsNext, live' # live PROVE slot = "none"
    BY DEF analyticsVars, installVars, resumeVars
  <2>1. PublishEntry \/ RestoreEntry
    BY DEF AnalyticsNext, OwnerStep, Start, OwnerFails, KillOwner, BrokerEnds, Serve, resumeVars,
       OnlyOwner, Require, InspectGeneration, MakePrivateDirectory, RetainEvidence, QualifyRecovery,
       StopBroker, StopListener, StopUnit, StopExecutor, ConfirmStopped, RequireNoApplication,
       CheckPreimage, ReloadAndVerify, ClearFailedCounters, StartListener, StartBroker, StartUnit,
       NativeProbe, RequireNoApplicationAgain, RequireStableBroker, Complete,
       RestoreNeedsNoApplication, PreserveTemporaries, RestoreOnlyKnown, Reinspect,
       RestoreReload, Report
  <2>2. owner.pc \in {"publish", "restore"}
    BY <2>1 DEF PublishEntry, RestoreEntry, PublishFile, Runs
  <2>3. Quiet(owner)
    BY <2>2 DEF AnalyticsInv, Sound, NoOwner
  <2> QED
    BY <2>2, <2>3 DEF Quiet, Restoring, NoApplication
<1> QED
  BY <1>1, AnalyticsIsInductive, PTL DEF AnalyticsSpec, ApplicationKeepsGeneration

\* Only the result of the running operation is ever written.
LEMMA ResultsStayTyped ==
    ASSUME AnalyticsInv, PublicTyped, [AnalyticsNext]_analyticsVars
    PROVE  /\ PublicTyped'
           /\ public' = public \/ Complete \/ Report
<1>1. public' = public \/ Complete \/ Report
  BY DEF analyticsVars, resumeVars, AnalyticsNext, OwnerStep, Start, OwnerFails, KillOwner,
     BrokerEnds, Serve, OnlyOwner, Require, InspectGeneration, MakePrivateDirectory,
     RetainEvidence, QualifyRecovery, StopBroker, StopListener, StopUnit, StopExecutor,
     ConfirmStopped, RequireNoApplication, CheckPreimage, PublishEntry, PublishFile,
     ReloadAndVerify, ClearFailedCounters, StartListener, StartBroker, StartUnit, NativeProbe,
     RequireNoApplicationAgain, RequireStableBroker, RestoreNeedsNoApplication,
     PreserveTemporaries, RestoreOnlyKnown, RestoreEntry, Reinspect, RestoreReload
<1>2. PublicTyped'
  <2>1. CASE public' = public
    BY <2>1 DEF PublicTyped
  <2>2. CASE public' # public
    <3>1. Outcome \in ResultValues
      BY DEF Outcome, ResultValues
    <3>2. PICK v \in ResultValues : public' = [public EXCEPT ![owner.op] = v]
      BY <1>1, <2>2, <3>1 DEF Complete, Report, ResultValues
    <3> QED
      BY <3>2 DEF PublicTyped
  <2> QED
    BY <2>1, <2>2
<1> QED
  BY <1>1, <1>2

\* complete: a result file says "ready" only of the new generation with the SHA that
\* the evidence pins, and "stopped_recovered" only of a stopped plane with the old one.
THEOREM ResultsAreTrue == AnalyticsSpec => ResultIsTrue
<1>1. AnalyticsInit => PublicTyped
  BY DEF AnalyticsInit, PublicTyped, ResultValues
<1>2. ASSUME AnalyticsInv, PublicTyped, [AnalyticsNext]_analyticsVars
      PROVE  [\A op \in OwnerOperations : public'[op] # public[op] => TrueResult(op)]_public
  <2> SUFFICES ASSUME NEW op \in OwnerOperations, public'[op] # public[op] PROVE TrueResult(op)
    OBVIOUS
  <2>1. public \in [OwnerOperations -> ResultValues]
    BY <1>2 DEF PublicTyped
  <2>2. public' # public
    OBVIOUS
  <2>3. Complete \/ Report
    BY <1>2, <2>2, ResultsStayTyped
  <2>4. PICK v : public' = [public EXCEPT ![owner.op] = v]
    BY <2>2, <2>3 DEF Complete, Report
  <2>5. op = owner.op /\ public'[op] = v
    BY <2>1, <2>4
  <2>6. CASE Complete
    <3>1. owner.pc = "complete" /\ public' = [public EXCEPT ![owner.op] = "ready"]
      BY <2>2, <2>6 DEF Complete, Runs
    <3>x. Course(owner) /\ Evident(owner) /\ Advanced(owner)
      BY <1>2, <3>1 DEF AnalyticsInv, Sound, NoOwner
    <3>y. ~IsRecovery(owner)
      BY <3>1, <3>x DEF Course, Publishing, Finishing
    <3>z. NewGeneration(owner.op, owner.sha) /\ evidence[owner.op].sha = owner.sha
      BY <3>1, <3>x, <3>y DEF Evident, Advanced, Finishing
    <3>2. public'[op] = "ready"
      BY <2>1, <2>5, <3>1
    <3> QED
      BY <2>5, <3>2, <3>z DEF TrueResult, NewGeneration
  <2>7. CASE Report
    <3>1. owner.pc = "report" /\ public' = [public EXCEPT ![owner.op] = Outcome]
      BY <2>2, <2>7 DEF Report, Runs
    <3>2. public'[op] = Outcome
      BY <2>1, <2>5, <3>1
    <3>3. owner \in OwnerType /\ Course(owner) /\ Quiet(owner) /\ Evident(owner) /\ Advanced(owner)
      BY <1>2, <3>1 DEF AnalyticsInv, Sound, NoOwner
    <3>4. CASE Outcome # "stopped_recovered"
      BY <3>2, <3>4 DEF TrueResult, Outcome
    <3>5. CASE Outcome = "stopped_recovered"
      <4>1. ~owner.errors /\ (op = "resume" \/ OldGeneration(op))
        BY <2>5, <3>5 DEF Outcome
      <4>2. Stopped
        BY <3>1, <3>3, <4>1 DEF Quiet
      <4>3. CASE op = "resume"
        <5>1. live.config = 0
          BY <2>5, <3>1, <3>3, <4>1, <4>3 DEF Advanced
        <5>2. OldGeneration(op) \/ Between(op, owner.sha)
          BY <2>5, <3>1, <3>3 DEF Evident, Grounded, IsRecovery
        <5>3. live.source[0] = {} /\ SourceFiles(0) = {}
          BY <1>2 DEF AnalyticsInv, FilesTyped, SourceFiles, Generations
        <5>4. ASSUME Between(op, owner.sha) PROVE OldGeneration(op)
          <6>1. From(op) = 0 /\ To(op) = 0 /\ 0 \in Generations
            BY <4>3 DEF From, To, Generations
          <6>2. \A h \in Generations \ {0} : live.source[h] = {} /\ ~(h <= 0)
            BY <5>4, <6>1 DEF Between, Generations
          <6>3. \A i \in 1..Assets : live.asset[i] = 0
            BY <5>4, <6>1 DEF Between
          <6>4. \A h \in Generations : live.source[h] = IF h <= 0 THEN SourceFiles(h) ELSE {}
            <7> TAKE h \in Generations
            <7>1. CASE h = 0
              BY <5>3, <7>1
            <7>2. CASE h # 0
              BY <6>2, <7>2
            <7> QED
              BY <7>1, <7>2
          <6>5. Whole(0)
            BY <6>3, <6>4 DEF Whole
          <6> QED
            BY <5>1, <6>1, <6>5 DEF OldGeneration
        <5> QED
          BY <3>2, <3>5, <4>2, <5>2, <5>4 DEF TrueResult
      <4>4. CASE OldGeneration(op)
        BY <3>2, <3>5, <4>2, <4>4 DEF TrueResult
      <4> QED
        BY <4>1, <4>3, <4>4
    <3> QED
      BY <3>4, <3>5
  <2> QED
    BY <2>3, <2>6, <2>7
<1>3. AnalyticsInv /\ PublicTyped /\ [AnalyticsNext]_analyticsVars => PublicTyped'
  BY ResultsStayTyped
<1> QED
  BY <1>1, <1>2, <1>3, AnalyticsIsInductive, PTL DEF AnalyticsSpec, ResultIsTrue
=============================================================================
