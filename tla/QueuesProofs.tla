------------------------------ MODULE QueuesProofs ------------------------------
(***************************************************************************)
(* Theorems about what MCQueues runs side by side with the organization    *)
(* worker: the checks of Subscriptions, and the probe of the drive,        *)
(* FixtureProbe.  They hold for any number of subscriptions, resources,    *)
(* callers and guests, for the components and for QueuesSpec.              *)
(***************************************************************************)
EXTENDS MCQueues, TLAPS

(***************************************************************************)
(* Subscriptions: what is new is reported once.                            *)
(***************************************************************************)
\* A resource was reported for a subscription as often as it has an observation row.
ReportedIsObserved ==
  /\ observed = [n \in Following!Rows |-> observed[n]]
  /\ reported = [n \in Following!Rows |-> [r \in Releases |-> reported[n][r]]]
  /\ \A n \in Following!Rows, r \in Releases :
       reported[n][r] = IF r \in observed[n] THEN 1 ELSE 0

-----------------------------------------------------------------------------
\* A check inserts the rows of what was new when it looked, unless one of them is
\* there by now; then it raises, and reports nothing.
LEMMA InsertIsReported ==
  ASSUME ReportedIsObserved, NEW c, Following!InsertObservations(c)
  PROVE  ReportedIsObserved'
<1> DEFINE n == check[c].row
           new == check[c].new
<1>1. CASE Following!Refused(n, new)
  BY <1>1 DEF Following!InsertObservations, ReportedIsObserved
<1>2. CASE ~Following!Refused(n, new)
  <2>1. /\ observed' = [observed EXCEPT ![n] = @ \cup new]
        /\ reported' = [reported EXCEPT ![n] =
             [r \in Releases |-> @[r] + IF r \in new THEN 1 ELSE 0]]
    BY <1>2 DEF Following!InsertObservations
  <2>2. \A m \in Following!Rows, r \in Releases :
          reported'[m][r] = IF r \in observed'[m] THEN 1 ELSE 0
    <3> SUFFICES ASSUME NEW m \in Following!Rows, NEW r \in Releases
                 PROVE  reported'[m][r] = IF r \in observed'[m] THEN 1 ELSE 0
      OBVIOUS
    <3>1. CASE m # n
      BY <2>1, <3>1 DEF ReportedIsObserved
    <3>2. CASE m = n
      <4>1. observed'[m] = observed[m] \cup new
        BY <2>1, <3>2 DEF ReportedIsObserved
      <4>2. reported'[m][r] = reported[m][r] + IF r \in new THEN 1 ELSE 0
        BY <2>1, <3>2 DEF ReportedIsObserved
      <4>3. r \in new => r \notin observed[m]
        BY <1>2, <3>2 DEF Following!Refused
      <4> QED BY <4>1, <4>2, <4>3 DEF ReportedIsObserved
    <3> QED BY <3>1, <3>2
  <2>3. /\ observed' = [m \in Following!Rows |-> observed'[m]]
        /\ reported' = [m \in Following!Rows |-> [r \in Releases |-> reported'[m][r]]]
    BY <2>1 DEF ReportedIsObserved
  <2> QED BY <2>2, <2>3 DEF ReportedIsObserved
<1> QED BY <1>1, <1>2

\* No other session touches the observations.
LEMMA ObservationsKeep ==
  ASSUME ReportedIsObserved, [Following!Next]_(Following!subVars)
  PROVE  ReportedIsObserved'
<1>1. ASSUME UNCHANGED <<observed, reported>> PROVE ReportedIsObserved'
  BY <1>1 DEF ReportedIsObserved
<1>2. ASSUME NEW c, Following!CheckStep(c) PROVE ReportedIsObserved'
  BY <1>1, <1>2, InsertIsReported
  DEF Following!CheckStep, Following!SearchFinds, Following!SearchFails,
      Following!RecordFailure, Following!ReadObservations, Following!ReadOutcome,
      Following!WriteOutcome
<1>3. CASE Following!ScheduleStep
  BY <1>1, <1>2, <1>3
  DEF Following!ScheduleStep, Following!ListDue, Following!CheckListed,
      Following!StartCheck, Following!SkipListed
<1>4. ASSUME NEW c, NEW n,
             \/ Following!CreateRead(c) \/ Following!CreateInsert(c, n)
             \/ \E label \in Following!Stopped \cup {"active"} :
                  Following!MutateRead(c, n, label)
             \/ Following!StartCheck(c, n) \/ Following!MutateWrite(c)
      PROVE  ReportedIsObserved'
  BY <1>1, <1>4
  DEF Following!CreateRead, Following!CreateInsert, Following!MutateRead,
      Following!StartCheck, Following!MutateWrite
<1>5. CASE Following!Restart \/ \E n \in Following!Rows : Following!TimePasses(n)
  BY <1>1, <1>5 DEF Following!Restart, Following!TimePasses
<1>6. CASE UNCHANGED Following!subVars
  BY <1>1, <1>6 DEF Following!subVars
<1> QED BY <1>2, <1>3, <1>4, <1>5, <1>6 DEF Following!Next

\* A resource is reported as new by one check of a subscription only, however the
\* checks of the scheduler and of callers overlap (_record_observations): the key of
\* the row makes the second one raise.
THEOREM NewIsNewOnce ==
  Following!Spec => []Following!NewIsReportedOnce
<1>1. Following!Init => ReportedIsObserved
  BY DEF Following!Init, ReportedIsObserved
<1>2. ReportedIsObserved => Following!NewIsReportedOnce
  BY DEF ReportedIsObserved, Following!NewIsReportedOnce
<1> QED BY <1>1, <1>2, ObservationsKeep, PTL DEF Following!Spec

(***************************************************************************)
(* The fixture probe: what it leaves behind, and what it leaves alone.     *)
(***************************************************************************)
Directories == {"root", "source", "quarantine", "artifact"}
InTree == Directories \cup Visitors
TreeNames == {"nothing", "guest", "root", "source", "quarantine", "artifact",
              "source-isolated", "source-quarantined"}

\* A tree: every object is in a directory of the tree or gone, at the places that the
\* probe gives to the directories.
IsTree(where) ==
  /\ where \in [InTree -> [parent : Directories \cup {"base", "nowhere"}, name : TreeNames]]
  /\ where["root"].parent \in {"base", "nowhere"}
  /\ where["source"].parent \in {"root", "quarantine", "nowhere"}
  /\ where["quarantine"].parent \in {"root", "nowhere"}
  /\ where["artifact"].parent \in {"root", "nowhere"}
  /\ \A o \in InTree :
       /\ where[o].parent = "nowhere" => where[o] = Probe!Gone
       /\ o \in Visitors => where[o].parent # "base"
       /\ where[o].parent \in Directories => where[where[o].parent] # Probe!Gone

\* Where a write puts its directory.
Target(k) == [parent |-> Probe!ProbeSteps[k].parent, name |-> Probe!ProbeSteps[k].name]

\* Where the source is in front of a step, unless the user threw it away.
SourceBefore(k) ==
  IF k <= 2 THEN Probe!Gone ELSE IF k <= 5 THEN Target(2) ELSE Target(k - 1)

\* A step has not taken effect, and those behind it have not either.
Awaits(where, k) ==
  /\ \A j \in 1..4 : k <= j => where[Probe!Managed[j]] = Probe!Gone
  /\ where["source"] \in {Probe!Gone, SourceBefore(k)}

Writing == 1..9
Going == report = Probe!Running

ProbeTypes ==
  /\ IsTree(tree)
  /\ unsettled \subseteq 1..10
  /\ position \in [step : 1..10, phase : Probe!Listed \cup {"write"}, dir : 1..4,
                   good : BOOLEAN, code : {"none", "other", "cancelled"}]
  /\ report.code # "limit"
  /\ recycled \in BOOLEAN /\ early \subseteq Visitors /\ pages \in 0..4

\* The place of a run that goes on.
PlacesAreKnown ==
  Going => /\ position.phase \in {"verify", "best_effort"} => position.step \in Writing
           /\ position.phase \in {"find", "scope", "confirm"} => position.step = 10
           /\ recycled <=> position.phase = "confirm"

\* The calls that a run has made follow from its place.
CallsAreCounted ==
  Going =>
    /\ writes = IF position.phase \in {"verify", "best_effort", "confirm"}
                THEN position.step ELSE position.step - 1
    /\ lists = IF position.phase = "scope" THEN 9 + position.dir
               ELSE IF position.phase = "confirm" \/ (position.phase = "write" /\ position.step = 10)
                    THEN 14 ELSE position.step - 1
    /\ reads \in Nat /\ reads <= 4 * lists

\* A write that is still under way is that of the step which the run looks for.
WritesAreSettled ==
  Going =>
    /\ position.phase \in {"write", "find", "scope"} => unsettled = {}
    /\ position.phase = "write" /\ position.step \in Writing => Awaits(tree, position.step)
    /\ position.phase = "verify" =>
         /\ unsettled \subseteq {position.step}
         /\ \/ Awaits(tree, position.step)
            \/ position.step \notin unsettled /\ Awaits(tree, position.step + 1)
    /\ position.phase = "confirm" => unsettled \subseteq {10}

\* The guests of the moment in which the cleanup began are in no directory that it has
\* looked into, and nothing is under way that could take them away.
GuestsAreSpared ==
  /\ \A g \in early : tree[g] # Probe!Gone
  /\ early # {} => unsettled = {} /\ ~recycled
  /\ Going /\ early # {} => position.phase \in {"find", "scope"}
  /\ Going /\ position.phase = "scope" =>
       \A g \in early, i \in 1..4 : i < position.dir => tree[g].parent # Probe!Managed[i]

ProbeInv ==
  /\ ProbeTypes /\ PlacesAreKnown /\ CallsAreCounted /\ WritesAreSettled
  /\ GuestsAreSpared /\ Probe!FixtureIsGone

\* The steps of the run.
LEMMA TheSteps ==
  /\ Probe!ProbeSteps[1] = [op |-> "mkdir", file |-> "root", parent |-> "base", name |-> "root"]
  /\ Probe!ProbeSteps[2] = [op |-> "mkdir", file |-> "source", parent |-> "root", name |-> "source"]
  /\ Probe!ProbeSteps[3] =
       [op |-> "mkdir", file |-> "quarantine", parent |-> "root", name |-> "quarantine"]
  /\ Probe!ProbeSteps[4] =
       [op |-> "mkdir", file |-> "artifact", parent |-> "root", name |-> "artifact"]
  /\ Probe!ProbeSteps[5] =
       [op |-> "rename", file |-> "source", parent |-> "root", name |-> "source-isolated"]
  /\ Probe!ProbeSteps[6] =
       [op |-> "move", file |-> "source", parent |-> "quarantine", name |-> "source-isolated"]
  /\ Probe!ProbeSteps[7] =
       [op |-> "rename", file |-> "source", parent |-> "quarantine", name |-> "source-quarantined"]
  /\ Probe!ProbeSteps[8] =
       [op |-> "move", file |-> "source", parent |-> "root", name |-> "source-quarantined"]
  /\ Probe!ProbeSteps[9] =
       [op |-> "rename", file |-> "source", parent |-> "root", name |-> "source"]
  /\ Probe!ProbeSteps[10] = [op |-> "recycle", file |-> "root", parent |-> "base", name |-> "root"]
  /\ Probe!Recycling = 10 /\ Len(Probe!Managed) = 4
  /\ Probe!Managed[1] = "root" /\ Probe!Managed[2] = "source"
  /\ Probe!Managed[3] = "quarantine" /\ Probe!Managed[4] = "artifact"
BY DEF Probe!ProbeSteps, Probe!Write, Probe!Recycling, Probe!Managed

\* The objects of the tree.
LEMMA TheObjects ==
  /\ Probe!Fixture = Directories /\ Probe!FixtureObjects = InTree
  /\ Probe!Gone = [parent |-> "nowhere", name |-> "nothing"]
  /\ Probe!Gone.parent = "nowhere"
BY DEF Probe!Fixture, Probe!Manifest, Probe!FixtureObjects, Directories, InTree, Probe!Gone

\* Throwing a directory away, with what is inside.
LEMMA ThrownAway ==
  ASSUME NEW where, IsTree(where), NEW d \in Directories
  PROVE  LET next == Probe!Without(where, d) IN
         /\ IsTree(next)
         /\ \A o \in InTree : next[o] \in {where[o], Probe!Gone}
         /\ next[d] = Probe!Gone
         /\ \A o \in InTree : o # d /\ o \notin Probe!Inside(where, d) => next[o] = where[o]
<1> DEFINE next == Probe!Without(where, d)
           first == {o \in InTree : where[o].parent \in {d}}
           second == {o \in InTree : where[o].parent \in first}
           third == {o \in InTree : where[o].parent \in second}
<1>1. Probe!Inside(where, d) = first \cup second \cup third
  BY TheObjects DEF Probe!Inside, Probe!Children
<1>2. next = [x \in InTree |-> IF x = d \/ x \in Probe!Inside(where, d) THEN Probe!Gone ELSE where[x]]
  BY TheObjects DEF Probe!Without
<1> HIDE DEF next
<1>3. /\ d \in InTree
      /\ \A o \in InTree : next[o] \in {where[o], Probe!Gone}
      /\ next[d] = Probe!Gone
      /\ \A o \in InTree : o # d /\ o \notin Probe!Inside(where, d) => next[o] = where[o]
  BY <1>2 DEF InTree
<1>4. next \in [InTree -> [parent : Directories \cup {"base", "nowhere"}, name : TreeNames]]
  BY <1>2, TheObjects DEF IsTree, TreeNames
<1>5. third \cap Directories = {}
  <2> SUFFICES ASSUME NEW p \in third, p \in Directories PROVE FALSE
    OBVIOUS
  <2>1. PICK q \in second : where[p].parent = q
    OBVIOUS
  <2>2. PICK r \in first : where[q].parent = r
    OBVIOUS
  <2>3. /\ "base" \notin InTree /\ "nowhere" \notin InTree
    BY ProbeAssumption DEF InTree, Directories
  <2>4. q \in {"root", "quarantine"}
    BY <2>1, <2>3 DEF IsTree, Directories
  <2>5. r = "root"
    BY <2>2, <2>3, <2>4 DEF IsTree
  <2>6. where["root"].parent = d
    BY <2>5
  <2> QED BY <1>3, <2>3, <2>6 DEF IsTree
<1>6. ASSUME NEW o \in InTree, next[o].parent \in Directories
      PROVE  next[next[o].parent] # Probe!Gone
  <2>1. next[o] = where[o] /\ next[o] # Probe!Gone
    BY <1>3, <1>6, TheObjects DEF Directories
  <2> DEFINE p == where[o].parent
  <2>2. p \in Directories /\ p \in InTree /\ where[p] # Probe!Gone
    BY <1>6, <2>1 DEF IsTree, InTree
  <2>3. o \notin first \cup second \cup third /\ o # d
    BY <1>1, <1>2, <2>1
  <2>4. p # d /\ p \notin first /\ p \notin second
    BY <2>3
  <2>5. next[p] = where[p]
    BY <1>1, <1>3, <1>5, <2>2, <2>4
  <2> QED BY <2>1, <2>2, <2>5
<1>7. IsTree(next)
  <2>1. {"root", "source", "quarantine", "artifact"} \subseteq InTree
    BY DEF InTree, Directories
  <2> QED BY <1>3, <1>4, <1>6, <2>1, TheObjects DEF IsTree
<1> QED BY <1>3, <1>7 DEF next

\* Putting a directory where it may be.
LEMMA PutDirectory ==
  ASSUME NEW where, IsTree(where), NEW file \in Directories,
         NEW place \in [parent : Directories \cup {"base"}, name : TreeNames],
         place.parent = "base" <=> file = "root",
         file = "source" => place.parent \in {"root", "quarantine"},
         file \in {"quarantine", "artifact"} => place.parent = "root",
         place.parent \in Directories => where[place.parent] # Probe!Gone,
         NEW next \in [InTree -> [parent : Directories \cup {"base", "nowhere"},
                                 name : TreeNames]],
         next[file] = place, \A o \in InTree : o # file => next[o] = where[o]
  PROVE  IsTree(next)
<1>1. file \in InTree /\ file \notin Visitors /\ Directories \subseteq InTree
  BY ProbeAssumption DEF InTree, Directories
<1>2. next[file] = place /\ \A o \in InTree : o # file => next[o] = where[o]
  OBVIOUS
<1>3. place # Probe!Gone /\ place.parent # "nowhere"
  BY TheObjects DEF Directories
<1>4. next \in [InTree -> [parent : Directories \cup {"base", "nowhere"}, name : TreeNames]]
  OBVIOUS
<1>5. /\ next["root"].parent \in {"base", "nowhere"}
      /\ next["source"].parent \in {"root", "quarantine", "nowhere"}
      /\ next["quarantine"].parent \in {"root", "nowhere"}
      /\ next["artifact"].parent \in {"root", "nowhere"}
  BY <1>1, <1>2 DEF IsTree, Directories
<1>6. ASSUME NEW o \in InTree
      PROVE  /\ next[o].parent = "nowhere" => next[o] = Probe!Gone
             /\ o \in Visitors => next[o].parent # "base"
             /\ next[o].parent \in Directories => next[next[o].parent] # Probe!Gone
  <2>1. next[o].parent = "nowhere" => next[o] = Probe!Gone
    BY <1>2, <1>3 DEF IsTree
  <2>2. o \in Visitors => next[o].parent # "base"
    BY <1>1, <1>2 DEF IsTree
  <2>3. next[o].parent \in Directories => where[next[o].parent] # Probe!Gone
    BY <1>2 DEF IsTree
  <2>4. \A d \in Directories : where[d] # Probe!Gone => next[d] # Probe!Gone
    BY <1>1, <1>2, <1>3
  <2> QED BY <2>1, <2>2, <2>3, <2>4
<1>7. IsTree(next)
  BY <1>4, <1>5, <1>6 DEF IsTree
<1> QED BY <1>7

\* What a write of the run does to the tree.
LEMMA WriteKeepsTree ==
  ASSUME NEW where, IsTree(where), NEW k \in Writing
  PROVE  LET next == Probe!Effect(where, Probe!ProbeSteps[k])
             file == Probe!ProbeSteps[k].file
         IN  /\ IsTree(next)
             /\ \A o \in InTree : o # file => next[o] = where[o]
             /\ \/ next = where
                \/ k \in 1..4 /\ next[file] = Target(k)
                \/ k \in {5, 7, 9} /\ where[file] # Probe!Gone /\ next[file] =
                     [parent |-> where[file].parent, name |-> Probe!ProbeSteps[k].name]
                \/ k \in {6, 8} /\ where[file] # Probe!Gone /\ next[file] =
                     [parent |-> Probe!ProbeSteps[k].parent, name |-> where[file].name]
<1> DEFINE step == Probe!ProbeSteps[k]
           file == step.file
           next == Probe!Effect(where, step)
           place == IF k \in 1..4 THEN Target(k)
                    ELSE IF k \in {5, 7, 9} THEN [parent |-> where[file].parent, name |-> step.name]
                    ELSE [parent |-> step.parent, name |-> where[file].name]
<1>s. /\ k \in 1..4 => step.op = "mkdir"
      /\ k \in {5, 7, 9} => step.op = "rename" /\ file = "source"
      /\ k \in {6, 8} => step.op = "move" /\ file = "source" /\ step.parent \in {"root", "quarantine"}
      /\ file \in Directories /\ file \in InTree /\ step.name \in TreeNames
      /\ step.parent \in Directories \cup {"base"}
      /\ step.parent = "base" <=> file = "root"
      /\ file = "source" => step.parent \in {"root", "quarantine"}
      /\ file \in {"quarantine", "artifact"} => step.parent = "root"
      /\ k \in 1..4 \/ k \in {5, 7, 9} \/ k \in {6, 8}
  BY TheSteps DEF Writing, Directories, TreeNames, InTree
<1>w. /\ where[file] \in [parent : Directories \cup {"base", "nowhere"}, name : TreeNames]
      /\ Directories \subseteq InTree
      /\ "base" \notin InTree /\ "nowhere" \notin Directories /\ "base" \notin Directories
  BY <1>s, ProbeAssumption DEF IsTree, InTree, Directories
<1>1. CASE next = where
  BY <1>1
<1>2. CASE next # where
  <2>1. /\ next = [where EXCEPT ![file] = place]
        /\ k \notin 1..4 => where[file] # Probe!Gone
        /\ k \notin {5, 7, 9} => step.parent = "base" \/ where[step.parent] # Probe!Gone
    <3>1. CASE k \in 1..4
      BY <1>2, <1>s, <3>1 DEF Probe!Effect, Probe!Exists, Target
    <3>2. CASE k \in {5, 7, 9}
      <4>1. next = [where EXCEPT ![file].name = step.name] /\ where[file] # Probe!Gone
        BY <1>2, <1>s, <3>2 DEF Probe!Effect, Probe!Exists
      <4>2. [where[file] EXCEPT !.name = step.name]
              = [parent |-> where[file].parent, name |-> step.name]
        BY <1>w
      <4>3. next = [where EXCEPT ![file] = [parent |-> where[file].parent, name |-> step.name]]
        BY <4>1, <4>2
      <4>4. place = [parent |-> where[file].parent, name |-> step.name]
        BY <3>2
      <4> HIDE DEF place, next
      <4> QED BY <3>2, <4>1, <4>3, <4>4
    <3>3. CASE k \in {6, 8}
      <4>1. /\ next = [where EXCEPT ![file].parent = step.parent] /\ where[file] # Probe!Gone
            /\ where[step.parent] # Probe!Gone
        BY <1>2, <1>s, <3>3 DEF Probe!Effect, Probe!Exists
      <4>2. [where[file] EXCEPT !.parent = step.parent]
              = [parent |-> step.parent, name |-> where[file].name]
        BY <1>w
      <4>3. next = [where EXCEPT ![file] = [parent |-> step.parent, name |-> where[file].name]]
        BY <4>1, <4>2
      <4>4. place = [parent |-> step.parent, name |-> where[file].name]
        BY <3>3
      <4> HIDE DEF place, next
      <4> QED BY <3>3, <4>1, <4>3, <4>4
    <3> QED BY <1>s, <3>1, <3>2, <3>3
  <2>2. /\ place \in [parent : Directories \cup {"base"}, name : TreeNames]
        /\ place.parent = "base" <=> file = "root"
        /\ file = "source" => place.parent \in {"root", "quarantine"}
        /\ file \in {"quarantine", "artifact"} => place.parent = "root"
        /\ place.parent \in Directories => where[place.parent] # Probe!Gone
    <3>1. CASE k \in 1..4
      BY <1>s, <1>w, <2>1, <3>1 DEF Target
    <3>2. CASE k \in {5, 7, 9}
      <4>1. where["source"].parent \in {"root", "quarantine"} /\ where["source"].parent \in Directories
        BY <1>s, <2>1, <3>2 DEF IsTree, Directories
      <4>2. where[where["source"].parent] # Probe!Gone
        BY <1>w, <4>1 DEF IsTree, Directories
      <4> QED BY <1>s, <1>w, <2>1, <3>2, <4>1, <4>2
    <3>3. CASE k \in {6, 8}
      BY <1>s, <1>w, <2>1, <3>3
    <3> QED BY <1>s, <3>1, <3>2, <3>3
  <2> HIDE DEF next, place
  <2>3. IsTree(next) /\ next[file] = place /\ \A o \in InTree : o # file => next[o] = where[o]
    <3>1. file \in Directories /\ file \in InTree
      BY <1>s
    <3>2. next[file] = place /\ \A o \in InTree : o # file => next[o] = where[o]
      BY <2>1, <3>1 DEF IsTree
    <3>3. next \in [InTree -> [parent : Directories \cup {"base", "nowhere"},
                              name : TreeNames]]
      BY <2>1, <2>2, <3>1 DEF IsTree
    <3> HIDE DEF file
    <3> QED BY <2>2, <3>1, <3>2, <3>3, PutDirectory
  <2> QED BY <1>s, <2>1, <2>3 DEF next, place
<1> QED BY <1>1, <1>2

\* What a write makes of a tree that awaits it.
LEMMA WriteAdvances ==
  ASSUME NEW where, IsTree(where), NEW k \in Writing, Awaits(where, k)
  PROVE  LET next == Probe!Effect(where, Probe!ProbeSteps[k])
         IN  Awaits(next, k) \/ Awaits(next, k + 1)
<1> DEFINE next == Probe!Effect(where, Probe!ProbeSteps[k])
           file == Probe!ProbeSteps[k].file
<1>1. CASE next = where
  BY <1>1
<1>2. CASE next # where
  <2>1. \A o \in InTree : o # file => next[o] = where[o]
    BY WriteKeepsTree
  <2>2. /\ k \in 1..4 => next[file] = Target(k)
        /\ k \in {5, 7, 9} => where[file] # Probe!Gone /\ next[file] =
                     [parent |-> where[file].parent, name |-> Probe!ProbeSteps[k].name]
        /\ k \in {6, 8} => where[file] # Probe!Gone /\ next[file] =
                     [parent |-> Probe!ProbeSteps[k].parent, name |-> where[file].name]
    BY <1>2, WriteKeepsTree
  <2> HIDE DEF next
  <2>3. Directories \subseteq InTree /\ "source" \in Directories
    BY DEF InTree, Directories
  <2>4. CASE k \in 1..4
    <3>1. file = Probe!Managed[k]
      BY <2>4, TheSteps
    <3>2. \A j \in 1..4 : k + 1 <= j => next[Probe!Managed[j]] = Probe!Gone
      BY <2>1, <2>3, <2>4, <3>1, TheSteps DEF Awaits, Directories
    <3>3. next["source"] \in {Probe!Gone, SourceBefore(k + 1)}
      BY <2>1, <2>2, <2>3, <2>4, <3>1, TheSteps DEF Awaits, Directories, SourceBefore
    <3>4. Awaits(next, k + 1)
      BY <3>2, <3>3 DEF Awaits
    <3> QED BY <3>4 DEF next
  <2>5. CASE k \in 5..9
    <3>1. file = "source" /\ where["source"] = SourceBefore(k)
      BY <2>2, <2>5, TheSteps DEF Awaits, Writing
    <3>2. next["source"] = Target(k)
      BY <2>2, <2>5, <3>1, TheSteps DEF SourceBefore, Target, Writing
    <3>3. SourceBefore(k + 1) = Target(k)
      BY <2>5 DEF SourceBefore
    <3>4. Awaits(next, k + 1)
      BY <2>5, <3>2, <3>3 DEF Awaits
    <3> QED BY <3>4 DEF next
  <2> QED BY <2>4, <2>5 DEF Writing
<1> QED BY <1>1, <1>2

\* What the run looks for is not there before it was written.
LEMMA NotThereYet ==
  ASSUME NEW where, NEW k \in Writing, Awaits(where, k)
  PROVE  where[Probe!ProbeSteps[k].file] # Target(k)
<1>1. CASE k \in 1..4
  <2>1. Probe!ProbeSteps[k].file = Probe!Managed[k]
    BY <1>1, TheSteps
  <2>2. where[Probe!Managed[k]] = Probe!Gone
    BY <1>1 DEF Awaits
  <2> QED BY <1>1, <2>1, <2>2, TheSteps, TheObjects DEF Target
<1>2. CASE k \in 5..9
  <2>1. Target(k) # Probe!Gone /\ Target(k) # SourceBefore(k)
    BY <1>2, TheSteps, TheObjects DEF Target, SourceBefore
  <2> QED BY <1>2, <2>1, TheSteps DEF Awaits
<1> QED BY <1>1, <1>2 DEF Writing

\* Every write of the run keeps the tree one; only the recycling takes anything away.
LEMMA EffectKeepsTree ==
  ASSUME NEW where, IsTree(where), NEW k \in 1..10
  PROVE  LET next == Probe!Effect(where, Probe!ProbeSteps[k]) IN
         /\ IsTree(next)
         /\ k = 10 => \A o \in InTree : next[o] \in {where[o], Probe!Gone}
<1>1. CASE k = 10
  <2>1. /\ Probe!Effect(where, Probe!ProbeSteps[k]) = Probe!Without(where, "root")
        /\ "root" \in Directories
    BY <1>1, TheSteps DEF Probe!Effect, Directories
  <2> QED BY <1>1, <2>1, ThrownAway
<1>2. CASE k \in Writing
  <2>1. IsTree(Probe!Effect(where, Probe!ProbeSteps[k]))
    BY <1>2, WriteKeepsTree
  <2>2. k # 10
    BY <1>2 DEF Writing
  <2> QED BY <2>1, <2>2
<1> QED BY <1>1, <1>2 DEF Writing

\* What is thrown away is awaited as before.
LEMMA LossKeepsAwaiting ==
  ASSUME NEW where, NEW next, NEW k \in 1..10, Awaits(where, k),
         \A o \in InTree : next[o] \in {where[o], Probe!Gone}
  PROVE  Awaits(next, k)
<1>1. "source" \in InTree /\ \A j \in 1..4 : Probe!Managed[j] \in InTree
  BY TheSteps DEF InTree, Directories
<1> QED BY <1>1 DEF Awaits

\* The start.
LEMMA ProbeBegins ==
  ASSUME Probe!Init PROVE ProbeInv
<1>1. /\ tree = [o \in InTree |-> Probe!Gone] /\ unsettled = {} /\ early = {}
      /\ position = [step |-> 1, phase |-> "write", dir |-> 1, good |-> TRUE, code |-> "none"]
      /\ writes = 0 /\ lists = 0 /\ reads = 0 /\ pages \in 0..4 /\ recycled = FALSE
      /\ report = Probe!Running
  BY TheObjects, ProbeAssumption DEF Probe!Init, Probe!At
<1>2. {"root", "source", "quarantine", "artifact"} \subseteq InTree
  BY DEF InTree, Directories
<1>3. IsTree(tree)
  BY <1>1, <1>2, TheObjects DEF IsTree, Directories, TreeNames
<1>4. Awaits(tree, 1)
  BY <1>1, <1>2, TheSteps DEF Awaits, SourceBefore
<1>5. ProbeTypes
  <2>1. position \in [step : 1..10, phase : Probe!Listed \cup {"write"}, dir : 1..4,
                      good : BOOLEAN, code : {"none", "other", "cancelled"}]
    BY <1>1
  <2>2. report.code # "limit"
    BY <1>1 DEF Probe!Running
  <2> QED BY <1>1, <1>3, <2>1, <2>2 DEF ProbeTypes
<1>6. PlacesAreKnown /\ CallsAreCounted /\ WritesAreSettled /\ GuestsAreSpared
  BY <1>1, <1>4 DEF PlacesAreKnown, CallsAreCounted, WritesAreSettled, GuestsAreSpared
<1>7. Probe!FixtureIsGone
  BY <1>1 DEF Probe!FixtureIsGone, Probe!Running
<1> QED BY <1>5, <1>6, <1>7 DEF ProbeInv

\* No limit on calls is reached while the run goes on.
LEMMA CallsSuffice ==
  ASSUME ProbeInv, Going
  PROVE  /\ position.phase = "write" => Probe!MayWrite
         /\ position.phase # "write" => Probe!MayList
<1>1. /\ position.step \in 1..10 /\ position.dir \in 1..4 /\ reads \in Nat /\ reads <= 4 * lists
      /\ position.phase \in Probe!Listed \cup {"write"}
      /\ writes = IF position.phase \in {"verify", "best_effort", "confirm"}
                  THEN position.step ELSE position.step - 1
      /\ lists = IF position.phase = "scope" THEN 9 + position.dir
                 ELSE IF position.phase = "confirm" \/ (position.phase = "write" /\ position.step = 10)
                      THEN 14 ELSE position.step - 1
      /\ position.phase \in {"verify", "best_effort"} => position.step \in Writing
  BY DEF ProbeInv, ProbeTypes, CallsAreCounted, PlacesAreKnown
<1>2. /\ writes \in 0..10 /\ lists \in 0..14
      /\ position.phase = "write" => writes \in 0..9
  BY <1>1 DEF Writing
<1>3. reads + 4 <= 60
  BY <1>1, <1>2
<1>4. /\ Probe!MaxReadCalls = 60 /\ Probe!MaxTotalCalls = 70 /\ Probe!MaxWriteCalls = 10
      /\ Probe!MaxListCalls = 15 /\ Probe!MaxListPageCalls = 4
  BY DEF Probe!MaxReadCalls, Probe!MaxTotalCalls, Probe!MaxWriteCalls, Probe!MaxListCalls,
         Probe!MaxListPageCalls
<1> QED BY <1>1, <1>2, <1>3, <1>4 DEF Probe!MayWrite, Probe!MayList

\* The run ends without success.
LEMMA HaltKeeps ==
  ASSUME ProbeInv, NEW code \in {"none", "other", "cancelled"}, Probe!Halt(code, recycled'),
         IsTree(tree'), unsettled' \subseteq 1..10, UNCHANGED pages, recycled' \in BOOLEAN,
         position' = position, early' \subseteq Visitors,
         \A g \in early' : tree'[g] # Probe!Gone,
         early' # {} => unsettled' = {} /\ ~recycled'
  PROVE  ProbeInv'
<1>1. /\ report'.status = "uncertain" /\ report'.code = code
      /\ report'.cleanup = IF recycled' THEN "uncertain" ELSE "not_attempted_uncertain"
      /\ ~Going'
  BY DEF Probe!Halt, Going, Probe!Running
<1>2. ProbeTypes'
  BY <1>1 DEF ProbeInv, ProbeTypes
<1>3. PlacesAreKnown' /\ CallsAreCounted' /\ WritesAreSettled' /\ GuestsAreSpared'
  BY <1>1 DEF PlacesAreKnown, CallsAreCounted, WritesAreSettled, GuestsAreSpared
<1>4. Probe!FixtureIsGone'
  BY <1>1 DEF Probe!FixtureIsGone
<1> QED BY <1>2, <1>3, <1>4 DEF ProbeInv

\* The run goes on.
LEMMA RunKeeps ==
  ASSUME ProbeInv, Going, UNCHANGED <<report, pages>>,
         IsTree(tree'), unsettled' \subseteq 1..10, recycled' \in BOOLEAN,
         early' \subseteq Visitors,
         position' \in [step : 1..10, phase : Probe!Listed \cup {"write"}, dir : 1..4,
                        good : BOOLEAN, code : {"none", "other", "cancelled"}],
         PlacesAreKnown', CallsAreCounted', WritesAreSettled', GuestsAreSpared'
  PROVE  ProbeInv'
<1>1. ProbeTypes'
  BY DEF ProbeInv, ProbeTypes
<1>2. Probe!FixtureIsGone'
  BY DEF Probe!FixtureIsGone, Going, Probe!Running
<1> QED BY <1>1, <1>2 DEF ProbeInv

\* The tree and the writes under way after a write of the step, or its failure.
LEMMA Settled ==
  ASSUME ProbeInv, Going, position.phase = "write",
         NEW when \in {"now", "late", "never"}, Probe!Settle(when)
  PROVE  /\ IsTree(tree') /\ unsettled' \subseteq {position.step} /\ early = {}
         /\ position.step \in Writing =>
              \/ Awaits(tree', position.step)
              \/ position.step \notin unsettled' /\ Awaits(tree', position.step + 1)
<1> DEFINE k == position.step
<1>1. /\ IsTree(tree) /\ k \in 1..10 /\ unsettled = {} /\ early = {}
      /\ k \in Writing => Awaits(tree, k)
  BY DEF ProbeInv, ProbeTypes, WritesAreSettled, GuestsAreSpared
<1>2. CASE tree' = tree /\ unsettled' \subseteq {k}
  BY <1>1, <1>2
<1>3. CASE tree' = Probe!Effect(tree, Probe!ProbeSteps[k]) /\ unsettled' = {}
  <2>1. IsTree(tree')
    <3>1. CASE k = 10
      BY <1>1, <1>3, <3>1, EffectKeepsTree
    <3>2. CASE k \in Writing
      BY <1>1, <1>3, <3>2, EffectKeepsTree
    <3> QED BY <1>1, <3>1, <3>2 DEF Writing
  <2>2. k \in Writing => Awaits(tree', k) \/ Awaits(tree', k + 1)
    BY <1>1, <1>3, WriteAdvances
  <2> QED BY <1>1, <1>3, <2>1, <2>2
<1>4. \/ tree' = tree /\ unsettled' \subseteq {k}
      \/ tree' = Probe!Effect(tree, Probe!ProbeSteps[k]) /\ unsettled' = {}
  BY <1>1 DEF Probe!Settle, Probe!Step
<1> QED BY <1>2, <1>3, <1>4

\* A write that is refused.
LEMMA RefusalKeeps ==
  ASSUME ProbeInv, Probe!WriteRefused PROVE ProbeInv'
<1>1. /\ Going /\ position.phase = "write" /\ Probe!MayWrite
  BY CallsSuffice DEF Probe!WriteRefused, Probe!Is, Going
<1>2. /\ Probe!Halt("other", recycled')
      /\ UNCHANGED <<tree, unsettled, position, pages, recycled, early>>
  BY <1>1 DEF Probe!WriteRefused, Probe!Halt
<1>3. /\ early' = {} /\ IsTree(tree') /\ unsettled' \subseteq 1..10 /\ recycled' \in BOOLEAN
  BY <1>1, <1>2 DEF ProbeInv, ProbeTypes, GuestsAreSpared
<1> QED BY <1>2, <1>3, HaltKeeps

\* A write that fails.
LEMMA FailureKeeps ==
  ASSUME ProbeInv, Probe!WriteFails PROVE ProbeInv'
<1>1. /\ Going /\ position.phase = "write" /\ recycled' = (position.step = 10)
      /\ writes' = writes + 1 /\ UNCHANGED <<lists, reads, pages, early>>
  BY TheSteps DEF Probe!WriteFails, Probe!Is, Going
<1>2. PICK when \in {"now", "late", "never"} : Probe!Settle(when)
  BY DEF Probe!WriteFails
<1>3. /\ IsTree(tree') /\ unsettled' \subseteq {position.step} /\ early' = {}
  BY <1>1, <1>2, Settled
<1>4. /\ unsettled' \subseteq 1..10 /\ recycled' \in BOOLEAN /\ position.step \in 1..10
      /\ position \in [step : 1..10, phase : Probe!Listed \cup {"write"}, dir : 1..4,
                       good : BOOLEAN, code : {"none", "other", "cancelled"}]
  BY <1>1, <1>3 DEF ProbeInv, ProbeTypes
<1>5. PICK code \in {"other", "cancelled"} :
        \/ /\ Probe!Step.op \in {"rename", "move"}
           /\ position' = [position EXCEPT !.phase = "best_effort", !.code = code]
           /\ UNCHANGED report
        \/ Probe!Halt(code, recycled') /\ UNCHANGED position
  BY DEF Probe!WriteFails, Probe!Codes
<1>6. CASE Probe!Halt(code, recycled') /\ UNCHANGED position
  BY <1>1, <1>3, <1>4, <1>6, HaltKeeps
<1>7. CASE /\ Probe!Step.op \in {"rename", "move"}
           /\ position' = [position EXCEPT !.phase = "best_effort", !.code = code]
           /\ UNCHANGED report
  <2>1. position.step \in Writing
    BY <1>4, <1>7, TheSteps DEF Probe!Step, Writing
  <2>2. /\ position' \in [step : 1..10, phase : Probe!Listed \cup {"write"}, dir : 1..4,
                          good : BOOLEAN, code : {"none", "other", "cancelled"}]
        /\ position'.phase = "best_effort" /\ position'.step = position.step
    BY <1>4, <1>7 DEF Probe!Listed
  <2>4. position.step # 10
    BY <2>1 DEF Writing
  <2>5. ~recycled'
    BY <1>1, <2>4
  <2>6. PlacesAreKnown'
    BY <2>1, <2>2, <2>5 DEF PlacesAreKnown
  <2>7. WritesAreSettled' /\ GuestsAreSpared'
    BY <1>3, <2>2 DEF WritesAreSettled, GuestsAreSpared
  <2>3. PlacesAreKnown' /\ WritesAreSettled' /\ GuestsAreSpared'
    BY <2>6, <2>7
  <2>8. CallsAreCounted'
    BY <1>1, <1>4, <2>1, <2>2 DEF ProbeInv, CallsAreCounted, Writing
  <2> QED BY <1>1, <1>3, <1>4, <1>7, <2>2, <2>3, <2>8, RunKeeps
<1> QED BY <1>5, <1>6, <1>7

\* A write that is answered.
LEMMA AnswerKeeps ==
  ASSUME ProbeInv, Probe!WriteAnswered PROVE ProbeInv'
<1>1. /\ Going /\ position.phase = "write" /\ recycled' = (position.step = 10)
      /\ writes' = writes + 1 /\ UNCHANGED <<lists, reads, pages, early>>
  BY TheSteps DEF Probe!WriteAnswered, Probe!Is, Going
<1>2. PICK when \in {"now", "late", "never"} : Probe!Settle(when)
  BY DEF Probe!WriteAnswered
<1>3. /\ IsTree(tree') /\ unsettled' \subseteq {position.step} /\ early' = {}
      /\ position.step \in Writing =>
              \/ Awaits(tree', position.step)
              \/ position.step \notin unsettled' /\ Awaits(tree', position.step + 1)
  BY <1>1, <1>2, Settled
<1>4. /\ unsettled' \subseteq 1..10 /\ recycled' \in BOOLEAN /\ position.step \in 1..10
      /\ position \in [step : 1..10, phase : Probe!Listed \cup {"write"}, dir : 1..4,
                       good : BOOLEAN, code : {"none", "other", "cancelled"}]
  BY <1>1, <1>3 DEF ProbeInv, ProbeTypes
<1>5. PICK good \in BOOLEAN :
        \/ Probe!Halt("other", recycled') /\ UNCHANGED position
        \/ /\ position' = [position EXCEPT !.good = good,
                             !.phase = IF Probe!Step.op = "recycle" THEN "confirm" ELSE "verify"]
           /\ UNCHANGED report
  BY DEF Probe!WriteAnswered
<1>6. CASE Probe!Halt("other", recycled') /\ UNCHANGED position
  BY <1>1, <1>3, <1>4, <1>6, HaltKeeps
<1>7. CASE /\ position' = [position EXCEPT !.good = good,
                             !.phase = IF Probe!Step.op = "recycle" THEN "confirm" ELSE "verify"]
           /\ UNCHANGED report
  <2>1. /\ position' \in [step : 1..10, phase : Probe!Listed \cup {"write"}, dir : 1..4,
                          good : BOOLEAN, code : {"none", "other", "cancelled"}]
        /\ position'.phase = IF Probe!Step.op = "recycle" THEN "confirm" ELSE "verify"
        /\ position'.step = position.step
    BY <1>4, <1>7 DEF Probe!Listed
  <2>2. position'.phase = IF position.step = 10 THEN "confirm" ELSE "verify"
    BY <1>4, <2>1, TheSteps DEF Probe!Step
  <2>9. recycled' <=> position'.phase = "confirm"
    BY <1>1, <2>2
  <2>10. /\ position'.phase = "verify" => position'.step \in Writing
         /\ position'.phase = "confirm" => position'.step = 10
         /\ position'.phase \notin {"best_effort", "find", "scope"}
    BY <1>4, <2>1, <2>2 DEF Writing
  <2>6. PlacesAreKnown'
    BY <2>9, <2>10 DEF PlacesAreKnown
  <2>7. position'.phase # "scope"
    BY <2>2
  <2>8. GuestsAreSpared'
    BY <1>3, <2>7 DEF GuestsAreSpared
  <2>3. PlacesAreKnown' /\ GuestsAreSpared'
    BY <2>6, <2>8
  <2>4. CallsAreCounted'
    BY <1>1, <1>4, <2>1, <2>2 DEF ProbeInv, CallsAreCounted, Writing
  <2>5. WritesAreSettled'
    BY <1>3, <1>4, <2>1, <2>2 DEF WritesAreSettled, Writing
  <2> QED BY <1>1, <1>3, <1>4, <1>7, <2>1, <2>3, <2>4, <2>5, RunKeeps
<1> QED BY <1>5, <1>6, <1>7

\* A listing that is not whole ends the run.
LEMMA ListFailsKeeps ==
  ASSUME ProbeInv, Probe!ListFails PROVE ProbeInv'
<1>1. /\ Going /\ position.phase \in Probe!Listed /\ position.phase # "write"
      /\ UNCHANGED <<tree, unsettled, position, writes, pages, recycled, early>>
  BY DEF Probe!ListFails, Going, Probe!Listed
<1>2. Probe!MayList
  BY <1>1, CallsSuffice
<1>3. PICK code \in {"other", "cancelled"} : Probe!Halt(Probe!HaltedCode(code), recycled)
  BY <1>2 DEF Probe!ListFails, Probe!Codes
<1>4. /\ Probe!HaltedCode(code) \in {"none", "other", "cancelled"}
      /\ Probe!Halt(Probe!HaltedCode(code), recycled')
  BY <1>1, <1>3 DEF Probe!HaltedCode, ProbeInv, ProbeTypes, Probe!Halt
<1>5. /\ IsTree(tree') /\ unsettled' \subseteq 1..10 /\ recycled' \in BOOLEAN
      /\ early' \subseteq Visitors /\ \A g \in early' : tree'[g] # Probe!Gone
      /\ early' # {} => unsettled' = {} /\ ~recycled'
  BY <1>1 DEF ProbeInv, ProbeTypes, GuestsAreSpared
<1> QED BY <1>1, <1>4, <1>5, HaltKeeps

\* A listing of the run is followed by its next step, or by its end.
LEMMA ListedOnce ==
  ASSUME ProbeInv, NEW next, Probe!Lists(next), position.phase # "write"
  PROVE  /\ Going /\ lists' = lists + 1 /\ reads' \in Nat
         /\ reads' <= reads + 4 /\ UNCHANGED <<tree, unsettled, writes, pages, recycled>>
         /\ \/ next # position /\ position' = next /\ UNCHANGED report
            \/ /\ next = position /\ UNCHANGED position
               /\ Probe!Halt(Probe!HaltedCode("other"), recycled')
               /\ Probe!HaltedCode("other") \in {"none", "other", "cancelled"}
<1>1. /\ Going /\ lists' = lists + 1 /\ reads' = reads + pages
      /\ UNCHANGED <<tree, unsettled, writes, pages, recycled>>
      /\ \/ next # position /\ position' = next /\ UNCHANGED report
         \/ /\ next = position /\ UNCHANGED position
            /\ Probe!Halt(Probe!HaltedCode("other"), recycled)
  BY DEF Probe!Lists, Going
<1>2. reads' \in Nat /\ reads' <= reads + 4
  BY <1>1 DEF ProbeInv, ProbeTypes, CallsAreCounted
<1>3. /\ Probe!HaltedCode("other") \in {"none", "other", "cancelled"}
      /\ Probe!Halt(Probe!HaltedCode("other"), recycled)
            => Probe!Halt(Probe!HaltedCode("other"), recycled')
  BY <1>1 DEF Probe!HaltedCode, ProbeInv, ProbeTypes, Probe!Halt
<1> QED BY <1>1, <1>2, <1>3

\* A listing that ends the run.
LEMMA ListedEnds ==
  ASSUME ProbeInv, position.phase # "write", Probe!Lists(position), UNCHANGED early
  PROVE  ProbeInv'
<1>1. /\ Going /\ UNCHANGED <<tree, unsettled, writes, pages, recycled, position, early>>
      /\ Probe!Halt(Probe!HaltedCode("other"), recycled')
      /\ Probe!HaltedCode("other") \in {"none", "other", "cancelled"}
  BY ListedOnce
<1>2. /\ IsTree(tree') /\ unsettled' \subseteq 1..10 /\ recycled' \in BOOLEAN
      /\ early' \subseteq Visitors /\ \A g \in early' : tree'[g] # Probe!Gone
      /\ early' # {} => unsettled' = {} /\ ~recycled'
  BY <1>1 DEF ProbeInv, ProbeTypes, GuestsAreSpared
<1> QED BY <1>1, <1>2, HaltKeeps

\* What is found where it should lie is there.
LEMMA FoundIsThere ==
  ASSUME NEW file, NEW dir, NEW name, IsTree(tree), Probe!Lies(file, dir, name)
  PROVE  file \in InTree /\ tree[file] = [parent |-> dir, name |-> name]
<1>1. PICK o \in {x \in InTree : tree[x].parent \in {dir}} : <<file, name>> = <<o, tree[o].name>>
  BY TheObjects DEF Probe!Lies, Probe!Listing, Probe!Children
<1>2. file = o /\ name = tree[o].name /\ o \in InTree /\ tree[o].parent = dir
  BY <1>1
<1>3. tree[o] \in [parent : Directories \cup {"base", "nowhere"}, name : TreeNames]
  BY <1>2 DEF IsTree
<1> QED BY <1>2, <1>3

\* The lookup after a write: a write that is found has settled.
LEMMA VerifyKeeps ==
  ASSUME ProbeInv, Probe!Verify PROVE ProbeInv'
<1> DEFINE k == position.step
<1>1. /\ Going /\ position.phase = "verify" /\ k \in Writing /\ ~recycled
      /\ recycled \in BOOLEAN /\ IsTree(tree) /\ unsettled \subseteq {k}
      /\ Awaits(tree, k) \/ (k \notin unsettled /\ Awaits(tree, k + 1))
      /\ early = {} /\ writes = k /\ lists = k - 1 /\ reads \in Nat /\ reads <= 4 * lists
  BY DEF Probe!Verify, Probe!Is, Going, ProbeInv, ProbeTypes, PlacesAreKnown,
         CallsAreCounted, WritesAreSettled, GuestsAreSpared
<1> DEFINE found == Probe!Lies(Probe!Step.file, Probe!Step.parent, Probe!Step.name)
                      /\ position.good
<1>2. CASE ~found
  <2>1. Probe!Lists(position) /\ (early' = IF position'.phase = "find"
                THEN {g \in Visitors : tree[g] # Probe!Gone} ELSE early)
    BY <1>2 DEF Probe!Verify
  <2>2. UNCHANGED early
    BY <1>1, <2>1, ListedOnce
  <2> QED BY <1>1, <2>1, <2>2, ListedEnds
<1>3. CASE found
  <2> DEFINE phase == IF k + 1 = 10 THEN "find" ELSE "write"
             next == Probe!At(k + 1, phase)
  <2>1. /\ next = [step |-> k + 1, phase |-> phase, dir |-> 1, good |-> TRUE, code |-> "none"]
        /\ next # position /\ Probe!Following = next
    BY <1>1, TheSteps DEF Probe!At, Probe!Following
  <2>2. /\ Probe!Lists(next)
        /\ early' = IF position'.phase = "find"
                    THEN {g \in Visitors : tree[g] # Probe!Gone} ELSE early
    BY <1>3, <2>1 DEF Probe!Verify
  <2>3. /\ lists' = lists + 1 /\ reads' \in Nat /\ reads' <= reads + 4 /\ position' = next
        /\ UNCHANGED <<tree, unsettled, writes, pages, recycled, report>>
    <3> HIDE DEF next
    <3> QED BY <1>1, <2>1, <2>2, ListedOnce
  <2>4. /\ position'.step = k + 1 /\ position'.phase = phase
        /\ position' \in [step : 1..10, phase : Probe!Listed \cup {"write"}, dir : 1..4,
                       good : BOOLEAN, code : {"none", "other", "cancelled"}]
    <3>1. k + 1 \in 1..10 /\ phase \in Probe!Listed \cup {"write"}
      BY <1>1 DEF Probe!Listed, Writing
    <3> HIDE DEF phase
    <3>2. position' = [step |-> k + 1, phase |-> phase, dir |-> 1, good |-> TRUE, code |-> "none"]
      BY <2>1, <2>3
    <3> QED BY <3>1, <3>2
  <2>5. tree[Probe!ProbeSteps[k].file] = Target(k)
    <3>1. Probe!Lies(Probe!ProbeSteps[k].file, Probe!ProbeSteps[k].parent, Probe!ProbeSteps[k].name)
      BY <1>3 DEF Probe!Step
    <3> QED BY <1>1, <3>1, FoundIsThere DEF Target
  <2>6. unsettled = {} /\ Awaits(tree, k + 1)
    <3>1. ~Awaits(tree, k)
      BY <1>1, <2>5, NotThereYet
    <3> QED BY <1>1, <3>1
  <2>7. early' \subseteq Visitors /\ (\A g \in early' : tree'[g] # Probe!Gone)
        /\ (early' # {} => phase = "find")
    BY <1>1, <2>2, <2>3, <2>4
  <2>8. PlacesAreKnown'
    BY <1>1, <2>3, <2>4 DEF PlacesAreKnown, Writing
  <2>9. CallsAreCounted'
    BY <1>1, <2>3, <2>4 DEF CallsAreCounted, Writing
  <2>10. WritesAreSettled'
    BY <2>3, <2>4, <2>6 DEF WritesAreSettled
  <2>11. GuestsAreSpared'
    BY <1>1, <2>3, <2>4, <2>6, <2>7 DEF GuestsAreSpared
  <2>12. IsTree(tree') /\ unsettled' \subseteq 1..10 /\ recycled' \in BOOLEAN
    BY <1>1, <2>3, <2>6
  <2> QED BY <1>1, <2>3, <2>4, <2>7, <2>8, <2>9, <2>10, <2>11, <2>12, RunKeeps
<1> QED BY <1>2, <1>3

\* The lookup after a failed rename or move ends the run.
LEMMA BestEffortKeeps ==
  ASSUME ProbeInv, Probe!BestEffort PROVE ProbeInv'
<1>1. position.phase # "write" /\ Probe!Lists(position) /\ UNCHANGED early
  BY DEF Probe!BestEffort, Probe!Is
<1> QED BY <1>1, ListedEnds

\* The cleanup finds the root.
LEMMA FindKeeps ==
  ASSUME ProbeInv, Probe!Find PROVE ProbeInv'
<1>1. /\ Going /\ position.phase = "find" /\ position.phase # "write"
      /\ position.step = 10 /\ ~recycled
      /\ recycled \in BOOLEAN /\ IsTree(tree) /\ unsettled = {} /\ UNCHANGED early /\ early \subseteq Visitors
      /\ \A g \in early : tree[g] # Probe!Gone
      /\ writes = 9 /\ lists = 9 /\ reads \in Nat /\ reads <= 4 * lists
  BY DEF Probe!Find, Probe!Is, Going, ProbeInv, ProbeTypes, PlacesAreKnown,
         CallsAreCounted, WritesAreSettled, GuestsAreSpared
<1>2. CASE ~Probe!Lies("root", "base", "root")
  <2>1. Probe!Lists(position)
    BY <1>2 DEF Probe!Find
  <2> QED BY <1>1, <2>1, ListedEnds
<1>3. CASE Probe!Lies("root", "base", "root")
  <2> DEFINE next == Probe!At(10, "scope")
  <2>1. /\ next = [step |-> 10, phase |-> "scope", dir |-> 1, good |-> TRUE, code |-> "none"]
        /\ next # position
    BY <1>1 DEF Probe!At
  <2>2. Probe!Lists(next)
    BY <1>3, TheSteps DEF Probe!Find
  <2>3. /\ lists' = lists + 1 /\ reads' \in Nat /\ reads' <= reads + 4 /\ position' = next
        /\ UNCHANGED <<tree, unsettled, writes, pages, recycled, report>>
    <3> HIDE DEF next
    <3> QED BY <1>1, <2>1, <2>2, ListedOnce
  <2>4. /\ position'.step = 10 /\ position'.phase = "scope" /\ position'.dir = 1
        /\ position' \in [step : 1..10, phase : Probe!Listed \cup {"write"}, dir : 1..4,
                       good : BOOLEAN, code : {"none", "other", "cancelled"}]
    <3>1. "scope" \in Probe!Listed \cup {"write"}
      BY DEF Probe!Listed
    <3>2. position' = [step |-> 10, phase |-> "scope", dir |-> 1, good |-> TRUE, code |-> "none"]
      BY <2>1, <2>3
    <3> QED BY <3>1, <3>2
  <2>5. PlacesAreKnown'
    BY <1>1, <2>3, <2>4 DEF PlacesAreKnown
  <2>6. CallsAreCounted'
    BY <1>1, <2>3, <2>4 DEF CallsAreCounted
  <2>7. WritesAreSettled' 
    BY <1>1, <2>3, <2>4 DEF WritesAreSettled
  <2>8. GuestsAreSpared'
    BY <1>1, <2>3, <2>4 DEF GuestsAreSpared
  <2>9. IsTree(tree') /\ unsettled' \subseteq 1..10 /\ recycled' \in BOOLEAN
        /\ early' \subseteq Visitors
    BY <1>1, <2>3
  <2> QED BY <1>1, <2>3, <2>4, <2>5, <2>6, <2>7, <2>8, <2>9, RunKeeps
<1> QED BY <1>2, <1>3

\* A directory that holds what the manifest says holds no guest.
LEMMA NoGuestInside ==
  ASSUME NEW dir \in Directories, Probe!ScopeHolds(dir), NEW g \in Visitors
  PROVE  tree[g].parent # dir
<1> SUFFICES ASSUME tree[g].parent = dir PROVE FALSE
  OBVIOUS
<1>1. <<g, tree[g].name>> \in Probe!Listing(dir)
  BY TheObjects DEF Probe!Listing, Probe!Children, InTree
<1>2. <<g, tree[g].name>> \in Probe!Expected(dir)
  BY <1>1 DEF Probe!ScopeHolds
<1>3. g \in Probe!Fixture
  BY <1>2 DEF Probe!Expected
<1> QED BY <1>3, TheObjects, ProbeAssumption DEF Directories

\* The cleanup looks into one directory after the other; the last leaves no guest of its
\* start.
LEMMA ScopeKeeps ==
  ASSUME ProbeInv, Probe!Scope PROVE ProbeInv'
<1> DEFINE i == position.dir
           dir == Probe!Managed[i]
<1>1. /\ Going /\ position.phase = "scope" /\ position.phase # "write"
      /\ position.step = 10 /\ i \in 1..4 /\ ~recycled
      /\ recycled \in BOOLEAN /\ IsTree(tree) /\ unsettled = {} /\ UNCHANGED early
      /\ early \subseteq Visitors /\ \A g \in early : tree[g] # Probe!Gone
      /\ \A g \in early, j \in 1..4 : j < i => tree[g].parent # Probe!Managed[j]
      /\ writes = 9 /\ lists = 9 + i /\ reads \in Nat /\ reads <= 4 * lists
      /\ position \in [step : 1..10, phase : Probe!Listed \cup {"write"}, dir : 1..4,
                       good : BOOLEAN, code : {"none", "other", "cancelled"}]
  BY DEF Probe!Scope, Probe!Is, Going, ProbeInv, ProbeTypes, PlacesAreKnown,
         CallsAreCounted, WritesAreSettled, GuestsAreSpared
<1>2. CASE ~Probe!ScopeHolds(dir)
  <2>1. Probe!Lists(position)
    BY <1>2 DEF Probe!Scope
  <2> QED BY <1>1, <2>1, ListedEnds
<1>3. CASE Probe!ScopeHolds(dir)
  <2> DEFINE next == IF i < 4 THEN [position EXCEPT !.dir = i + 1] ELSE Probe!At(10, "write")
  <2>1. /\ i < 4 => next.phase = "scope" /\ next.step = 10 /\ next.dir = i + 1
        /\ i = 4 => next.phase = "write" /\ next.step = 10
        /\ next \in [step : 1..10, phase : Probe!Listed \cup {"write"}, dir : 1..4,
                     good : BOOLEAN, code : {"none", "other", "cancelled"}]
    <3>1. CASE i < 4
      BY <1>1, <3>1
    <3>2. CASE i = 4
      <4>1. next = [step |-> 10, phase |-> "write", dir |-> 1, good |-> TRUE, code |-> "none"]
        BY <3>2 DEF Probe!At
      <4> HIDE DEF next
      <4>2. next \in [step : 1..10, phase : Probe!Listed \cup {"write"}, dir : 1..4,
                     good : BOOLEAN, code : {"none", "other", "cancelled"}]
        BY <4>1
      <4> QED BY <3>2, <4>1, <4>2
    <3> QED BY <1>1, <3>1, <3>2
  <2>2. Probe!Lists(next)
    BY <1>3, TheSteps DEF Probe!Scope
  <2> HIDE DEF next
  <2>3. next # position
    BY <1>1, <2>1
  <2>4. /\ lists' = lists + 1 /\ reads' \in Nat /\ reads' <= reads + 4 /\ position' = next
        /\ UNCHANGED <<tree, unsettled, writes, pages, recycled, report>>
    BY <1>1, <2>2, <2>3, ListedOnce
  <2>5. /\ i < 4 => position'.phase = "scope" /\ position'.step = 10 /\ position'.dir = i + 1
        /\ i = 4 => position'.phase = "write" /\ position'.step = 10
        /\ position' \in [step : 1..10, phase : Probe!Listed \cup {"write"}, dir : 1..4,
                     good : BOOLEAN, code : {"none", "other", "cancelled"}]
    BY <2>1, <2>4
  <2>6. i < 4 \/ i = 4
    BY <1>1
  <2>7. \A g \in early, j \in 1..4 : j <= i => tree[g].parent # Probe!Managed[j]
    <3> SUFFICES ASSUME NEW g \in early, NEW j \in 1..4, j <= i
                 PROVE  tree[g].parent # Probe!Managed[j]
      OBVIOUS
    <3>1. CASE j < i
      BY <1>1, <3>1
    <3>2. CASE j = i
      <4>1. dir \in Directories
        BY <1>1, TheSteps DEF Directories
      <4> QED BY <1>1, <1>3, <3>2, <4>1, NoGuestInside
    <3> QED BY <1>1, <3>1, <3>2
  <2>8. i = 4 => early = {}
    <3> SUFFICES ASSUME i = 4, NEW g \in early PROVE FALSE
      OBVIOUS
    <3>1. g \in InTree /\ g \in Visitors /\ tree[g] # Probe!Gone
      BY <1>1 DEF InTree
    <3>2. tree[g].parent \in Directories
      BY <1>1, <3>1 DEF IsTree
    <3>3. tree[g].parent # "root" /\ tree[g].parent # "source"
          /\ tree[g].parent # "quarantine" /\ tree[g].parent # "artifact"
      BY <2>7, TheSteps
    <3> QED BY <3>2, <3>3 DEF Directories
  <2>9. PlacesAreKnown'
    BY <1>1, <2>4, <2>5, <2>6 DEF PlacesAreKnown
  <2>10. CallsAreCounted'
    BY <1>1, <2>4, <2>5, <2>6 DEF CallsAreCounted
  <2>11. WritesAreSettled'
    BY <1>1, <2>4, <2>5, <2>6 DEF WritesAreSettled, Writing
  <2>12. GuestsAreSpared'
    <3>1. \A g \in early' : tree'[g] # Probe!Gone
      BY <1>1, <2>4
    <3>2. early' # {} => unsettled' = {} /\ ~recycled'
      BY <1>1, <2>4
    <3>3. early' # {} => position'.phase \in {"find", "scope"}
      BY <1>1, <2>5, <2>6, <2>8
    <3>4. position'.phase = "scope" =>
            \A g \in early', j \in 1..4 : j < position'.dir => tree'[g].parent # Probe!Managed[j]
      BY <1>1, <2>4, <2>5, <2>6, <2>7
    <3> QED BY <3>1, <3>2, <3>3, <3>4 DEF GuestsAreSpared
  <2>13. IsTree(tree') /\ unsettled' \subseteq 1..10 /\ recycled' \in BOOLEAN
         /\ early' \subseteq Visitors
    BY <1>1, <2>4
  <2> QED BY <1>1, <2>4, <2>5, <2>9, <2>10, <2>11, <2>12, <2>13, RunKeeps
<1> QED BY <1>2, <1>3

\* Without a root there is nothing of the fixture.
LEMMA NoRootNoFixture ==
  ASSUME NEW where, IsTree(where), where["root"].parent # "base"
  PROVE  \A o \in Directories : where[o] = Probe!Gone
<1>1. Directories \subseteq InTree /\ Directories = {"root", "source", "quarantine", "artifact"}
  BY DEF InTree, Directories
<1>2. where["root"] = Probe!Gone
  BY <1>1 DEF IsTree
<1>3. where["quarantine"] = Probe!Gone /\ where["artifact"] = Probe!Gone
  BY <1>1, <1>2 DEF IsTree
<1>4. where["source"] = Probe!Gone
  BY <1>1, <1>2, <1>3 DEF IsTree
<1> QED BY <1>1, <1>2, <1>3, <1>4

\* The lookup after the recycling.
LEMMA ConfirmKeeps ==
  ASSUME ProbeInv, Probe!Confirm PROVE ProbeInv'
<1>1. /\ Going /\ position.phase = "confirm" /\ recycled /\ unsettled \subseteq {10} /\ early = {}
      /\ IsTree(tree) /\ recycled \in BOOLEAN
      /\ UNCHANGED <<tree, unsettled, position, pages, recycled, early>>
  BY DEF Probe!Confirm, Probe!Is, Going, ProbeInv, ProbeTypes, PlacesAreKnown,
         WritesAreSettled, GuestsAreSpared
<1> DEFINE there == \E entry \in Probe!Listing("base") : entry[1] = "root"
<1>2. CASE there
  <2>1. Probe!Halt("other", recycled')
    BY <1>1, <1>2 DEF Probe!Confirm, Probe!Halt
  <2>2. unsettled' \subseteq 1..10 /\ IsTree(tree') /\ early' = {} /\ recycled' \in BOOLEAN
    BY <1>1
  <2> QED BY <1>1, <2>1, <2>2, HaltKeeps
<1>3. CASE ~there
  <2>1. report' = [status |-> "success", cleanup |-> "complete", code |-> "none"]
    BY <1>3 DEF Probe!Confirm
  <2>2. tree["root"].parent # "base"
    <3> SUFFICES ASSUME tree["root"].parent = "base" PROVE FALSE
      OBVIOUS
    <3>1. <<"root", tree["root"].name>> \in Probe!Listing("base")
      BY TheObjects DEF Probe!Listing, Probe!Children, InTree, Directories
    <3> QED BY <1>3, <3>1
  <2>3. \A o \in Directories : tree'[o] = Probe!Gone
    BY <1>1, <2>2, NoRootNoFixture
  <2>4. ~Going' /\ report'.code # "limit"
    BY <2>1 DEF Going, Probe!Running
  <2>5. ProbeTypes'
    BY <1>1, <2>4 DEF ProbeInv, ProbeTypes
  <2>6. Probe!FixtureIsGone'
    BY <1>1, <2>1, <2>3, TheObjects, TheSteps DEF Probe!FixtureIsGone
  <2>7. PlacesAreKnown' /\ CallsAreCounted' /\ WritesAreSettled' /\ GuestsAreSpared'
    BY <1>1, <2>4 DEF PlacesAreKnown, CallsAreCounted, WritesAreSettled, GuestsAreSpared
  <2> QED BY <2>5, <2>6, <2>7 DEF ProbeInv
<1> QED BY <1>2, <1>3

\* What happens in the drive keeps the places and the calls of the run.
LEMMA DriveKeepsPlaces ==
  ASSUME ProbeInv, UNCHANGED <<position, writes, lists, reads, recycled, report>>
  PROVE  PlacesAreKnown' /\ CallsAreCounted'
BY DEF ProbeInv, PlacesAreKnown, CallsAreCounted, Going

\* A write takes effect after its answer.
LEMMA LandKeeps ==
  ASSUME ProbeInv, Probe!Land PROVE ProbeInv'
<1>1. PICK k \in unsettled : /\ tree' = Probe!Effect(tree, Probe!ProbeSteps[k])
                             /\ unsettled' = unsettled \ {k}
  BY DEF Probe!Land
<1>2. /\ UNCHANGED <<position, writes, lists, reads, recycled, report, pages, early>>
      /\ k \in 1..10 /\ unsettled' \subseteq 1..10 /\ early = {} /\ early' = {} /\ IsTree(tree)
  BY <1>1 DEF Probe!Land, ProbeInv, ProbeTypes, GuestsAreSpared
<1>3. IsTree(tree') /\ (k = 10 => \A o \in InTree : tree'[o] \in {tree[o], Probe!Gone})
  BY <1>1, <1>2, EffectKeepsTree
<1>4. ProbeTypes'
  BY <1>2, <1>3 DEF ProbeInv, ProbeTypes
<1>5. PlacesAreKnown' /\ CallsAreCounted'
  BY <1>2, DriveKeepsPlaces
<1>6. WritesAreSettled'
  <2> SUFFICES ASSUME Going' PROVE WritesAreSettled'
    BY DEF WritesAreSettled
  <2>1. Going /\ position' = position
    BY <1>2 DEF Going
  <2>2. position.phase \notin {"write", "find", "scope"}
    BY <1>1, <2>1 DEF ProbeInv, WritesAreSettled
  <2>3. position.phase = "verify" =>
         /\ unsettled' \subseteq {position.step}
         /\ \/ Awaits(tree', position.step)
            \/ position.step \notin unsettled' /\ Awaits(tree', position.step + 1)
    <3> SUFFICES ASSUME position.phase = "verify"
                 PROVE  /\ unsettled' = {}
                        /\ Awaits(tree', position.step) \/ Awaits(tree', position.step + 1)
      OBVIOUS
    <3>1. k = position.step /\ unsettled' = {} /\ Awaits(tree, k) /\ k \in Writing
      BY <1>1, <2>1 DEF ProbeInv, WritesAreSettled, PlacesAreKnown
    <3>2. Awaits(tree', k) \/ Awaits(tree', k + 1)
      BY <1>1, <1>2, <3>1, WriteAdvances
    <3> QED BY <3>1, <3>2
  <2>4. position.phase = "confirm" => unsettled' \subseteq {10}
    BY <1>1, <2>1 DEF ProbeInv, WritesAreSettled
  <2> QED BY <2>1, <2>2, <2>3, <2>4 DEF WritesAreSettled
<1>7. GuestsAreSpared'
  <2>1. Going' => position.phase # "scope"
    BY <1>1, <1>2 DEF ProbeInv, WritesAreSettled, Going
  <2> QED BY <1>2, <2>1 DEF GuestsAreSpared
<1>8. Probe!FixtureIsGone'
  <2>1. report.status = "success" =>
          (\A o \in Directories : tree[o] = Probe!Gone) /\ unsettled \subseteq {10}
    BY TheObjects, TheSteps DEF ProbeInv, Probe!FixtureIsGone
  <2>2. report.status = "success" =>
          (\A o \in Directories : tree'[o] = Probe!Gone) /\ unsettled' \subseteq {10}
    BY <1>1, <1>3, <2>1 DEF InTree
  <2> QED BY <1>2, <2>2, TheObjects, TheSteps DEF ProbeInv, Probe!FixtureIsGone
<1> QED BY <1>4, <1>5, <1>6, <1>7, <1>8 DEF ProbeInv

\* What happens in the drive, other than a late write.
LEMMA DriveKeeps ==
  ASSUME ProbeInv, IsTree(tree'),
         UNCHANGED <<unsettled, position, writes, lists, reads, pages, recycled, early, report>>,
         \A o \in Directories : tree'[o] \in {tree[o], Probe!Gone},
         \A g \in early : tree'[g] = tree[g]
  PROVE  ProbeInv'
<1>1. \A k \in 1..10 : Awaits(tree, k) => Awaits(tree', k)
  <2>1. "source" \in Directories /\ \A j \in 1..4 : Probe!Managed[j] \in Directories
    BY TheSteps DEF Directories
  <2> QED BY <2>1 DEF Awaits
<1>2. ProbeTypes'
  BY DEF ProbeInv, ProbeTypes
<1>3. PlacesAreKnown' /\ CallsAreCounted'
  BY DriveKeepsPlaces
<1>4. WritesAreSettled'
  <2>1. position.step \in 1..10
        /\ (Going /\ position.phase = "verify" => position.step + 1 \in 1..10)
    BY DEF ProbeInv, ProbeTypes, PlacesAreKnown, Writing
  <2>2. Going' => Going /\ WritesAreSettled
    BY DEF Going, ProbeInv
  <2> QED BY <1>1, <2>1, <2>2 DEF WritesAreSettled, Writing
<1>5. GuestsAreSpared'
  BY DEF ProbeInv, GuestsAreSpared, Going
<1>6. Probe!FixtureIsGone'
  <2>1. report.status = "success" => \A o \in Directories : tree'[o] = Probe!Gone
    BY TheObjects DEF ProbeInv, Probe!FixtureIsGone
  <2> QED BY <2>1, TheObjects DEF ProbeInv, Probe!FixtureIsGone
<1> QED BY <1>2, <1>3, <1>4, <1>5, <1>6 DEF ProbeInv

\* The user puts something into the tree.
LEMMA PutGuestKeeps ==
  ASSUME ProbeInv, Probe!PutGuest PROVE ProbeInv'
<1>1. PICK g \in Visitors, dir \in Directories :
        /\ tree[g] = Probe!Gone /\ tree[dir] # Probe!Gone
        /\ tree' = [tree EXCEPT ![g] = [parent |-> dir, name |-> "guest"]]
  BY TheObjects DEF Probe!PutGuest
<1>2. /\ UNCHANGED <<unsettled, position, writes, lists, reads, pages, recycled, early, report>>
      /\ IsTree(tree) /\ \A v \in early : tree[v] # Probe!Gone
      /\ early \subseteq InTree
  BY DEF Probe!PutGuest, ProbeInv, ProbeTypes, GuestsAreSpared, InTree
<1>3. /\ g \in InTree /\ g \notin Directories /\ Directories \subseteq InTree
      /\ Directories = {"root", "source", "quarantine", "artifact"} /\ dir # "nowhere" /\ dir # "base"
  BY ProbeAssumption DEF InTree, Directories
<1> DEFINE place == [parent |-> dir, name |-> "guest"]
<1>4. /\ tree' \in [InTree -> [parent : Directories \cup {"base", "nowhere"}, name : TreeNames]]
      /\ tree'[g] = place /\ \A o \in InTree : o # g => tree'[o] = tree[o]
  <2>1. place \in [parent : Directories \cup {"base", "nowhere"}, name : TreeNames]
    BY DEF TreeNames
  <2>2. tree \in [InTree -> [parent : Directories \cup {"base", "nowhere"}, name : TreeNames]]
    BY <1>2 DEF IsTree
  <2> HIDE DEF place
  <2>3. tree' = [tree EXCEPT ![g] = place]
    BY <1>1 DEF place
  <2> QED BY <1>3, <2>1, <2>2, <2>3
<1>5. place.parent = dir /\ place # Probe!Gone
  BY <1>3, TheObjects
<1> HIDE DEF place
<1>6. \A d \in Directories : tree'[d] = tree[d]
  BY <1>3, <1>4
<1>7. ASSUME NEW o \in InTree
      PROVE  /\ tree'[o].parent = "nowhere" => tree'[o] = Probe!Gone
             /\ o \in Visitors => tree'[o].parent # "base"
             /\ tree'[o].parent \in Directories => tree'[tree'[o].parent] # Probe!Gone
  <2>1. CASE o = g
    BY <1>1, <1>3, <1>4, <1>5, <1>6, <2>1
  <2>2. CASE o # g
    <3>1. tree'[o] = tree[o]
      BY <1>4, <2>2
    <3> QED BY <1>2, <1>6, <3>1 DEF IsTree
  <2> QED BY <2>1, <2>2
<1>8. IsTree(tree')
  BY <1>2, <1>3, <1>4, <1>6, <1>7 DEF IsTree
<1>9. \A v \in early : tree'[v] = tree[v]
  BY <1>1, <1>2, <1>4
<1> QED BY <1>2, <1>6, <1>8, <1>9, DriveKeeps

\* The user throws a directory without guests away.
LEMMA ThrowAwayKeeps ==
  ASSUME ProbeInv, Probe!ThrowAway PROVE ProbeInv'
<1>1. PICK d \in Directories : /\ Probe!Inside(tree, d) \cap Visitors = {}
                               /\ tree' = Probe!Without(tree, d)
  BY TheObjects DEF Probe!ThrowAway
<1>2. /\ UNCHANGED <<unsettled, position, writes, lists, reads, pages, recycled, early, report>>
      /\ IsTree(tree) /\ early \subseteq Visitors
  BY DEF Probe!ThrowAway, ProbeInv, ProbeTypes
<1>3. /\ IsTree(tree')
      /\ \A o \in InTree : tree'[o] \in {tree[o], Probe!Gone}
      /\ \A o \in InTree : o # d /\ o \notin Probe!Inside(tree, d) => tree'[o] = tree[o]
  BY <1>1, <1>2, ThrownAway
<1>4. \A o \in Directories : tree'[o] \in {tree[o], Probe!Gone}
  BY <1>3 DEF InTree
<1>5. \A g \in early : tree'[g] = tree[g]
  BY <1>1, <1>2, <1>3, ProbeAssumption DEF InTree, Directories
<1> QED BY <1>2, <1>3, <1>4, <1>5, DriveKeeps

\* Every step of the probe and of its user keeps the invariant.
LEMMA ProbeKeeps ==
  ASSUME ProbeInv, [Probe!Next]_Probe!probeVars PROVE ProbeInv'
<1>1. CASE Probe!ProbeStep
  BY <1>1, RefusalKeeps, FailureKeeps, AnswerKeeps, ListFailsKeeps, VerifyKeeps,
     BestEffortKeeps, FindKeeps, ScopeKeeps, ConfirmKeeps DEF Probe!ProbeStep
<1>2. CASE Probe!Land \/ Probe!PutGuest \/ Probe!ThrowAway
  BY <1>2, LandKeeps, PutGuestKeeps, ThrowAwayKeeps
<1>3. CASE UNCHANGED Probe!probeVars
  BY <1>3 DEF Probe!probeVars, ProbeInv, ProbeTypes, PlacesAreKnown, CallsAreCounted,
              WritesAreSettled, GuestsAreSpared, Going, Probe!FixtureIsGone
<1> QED BY <1>1, <1>2, <1>3 DEF Probe!Next

\* The fixture probe (P115C03FixtureProbe.run): a run that reports success has left no
\* directory behind and nothing under way that could make one, one that reports its
\* cleanup as not attempted has recycled nothing, what the user put into the tree before
\* the cleanup began is never thrown away by the probe, and the limits on calls end no run,
\* for every set of guests and whatever the writes do.
THEOREM ProbeStaysTidy ==
  Probe!Spec => []Probe!ProbeIsTidy
<1>1. ProbeInv => Probe!ProbeIsTidy
  BY DEF ProbeInv, ProbeTypes, GuestsAreSpared, Probe!ProbeIsTidy, Probe!GuestsSurvive,
         Probe!LimitsSuffice
<1> QED BY <1>1, ProbeBegins, ProbeKeeps, PTL DEF Probe!Spec

-----------------------------------------------------------------------------
(***************************************************************************)
(* The two of them among the queues.                                       *)
(***************************************************************************)
\* A step of the whole is a step of one part, which the others sit out.
LEMMA OneQueueMoves ==
  ASSUME [QueuesNext]_queueVars
  PROVE  [Following!Next]_(Following!subVars) /\ [Probe!Next]_(Probe!probeVars)
<1>1. CASE UNCHANGED queueVars
  BY <1>1 DEF queueVars, subVars, probeVars, Following!subVars, Probe!probeVars
<1>2. CASE QueuesNext
  BY <1>2 DEF QueuesNext, Keep, subVars, probeVars, Following!subVars, Probe!probeVars
<1> QED BY <1>1, <1>2

\* Both run by their own specifications; the fairness of the whole is not needed.
THEOREM QueuesRun == QueuesSpec => Following!Spec /\ Probe!Spec
<1>1. QueuesInit => Following!Init /\ Probe!Init
  BY DEF QueuesInit
<1>2. [QueuesNext]_queueVars =>
        [Following!Next]_(Following!subVars) /\ [Probe!Next]_(Probe!probeVars)
  BY OneQueueMoves
<1> QED BY <1>1, <1>2, PTL DEF QueuesSpec, Following!Spec, Probe!Spec

\* Among the queues, too, a resource is reported as new by one check of a subscription
\* only (_record_observations).
THEOREM QueuesReportOnce == QueuesSpec => []NewIsReportedOnce
BY QueuesRun, NewIsNewOnce, PTL DEF NewIsReportedOnce

\* The fixture probe cleans up after itself and nothing else (P115C03FixtureProbe.run).
THEOREM QueuesProbeTidily == QueuesSpec => []ProbeIsTidy
<1>1. Probe!ProbeIsTidy => ProbeIsTidy
  BY DEF ProbeIsTidy
<1> QED BY <1>1, QueuesRun, ProbeStaysTidy, PTL
================================================================================
