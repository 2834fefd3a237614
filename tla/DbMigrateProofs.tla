--------------------------- MODULE DbMigrateProofs ---------------------------
(***************************************************************************)
(* Proofs about DbMigrate for any number of pods, whatever their files,    *)
(* for new and existing databases, wherever pods stop.                     *)
(***************************************************************************)
EXTENDS DbMigrate, TLAPS

(* One pod at a time holds the lock, and then knows what is recorded. *)
LockInv ==
  /\ \A p, q \in Pods : pc[p] \in Holding /\ pc[q] \in Holding => p = q
  /\ \A p \in Pods : pc[p] \in {"marking", "comparing", "applying"} => known[p] = recorded
  /\ \A p \in Pods : pc[p] \in Holding \cup {"waiting", "ready"} => Loads(FilesOf[p])

(* The records have no gap, and account for everything that was executed. *)
RecordsInv ==
  /\ \A r \in recorded : r.version > 0 /\ \A v \in 1..(r.version - 1) : Has(recorded, v)
  /\ \A i \in DOMAIN executed : executed[i] \in recorded
  /\ \A p \in Pods : pc[p] = "marking" => existing

MigrateInv ==
  /\ TypeOK
  /\ LockInv
  /\ RecordsInv
  /\ SchemaInOrder
  /\ OneFilePerVersion
  /\ ReadyHasSchema

LEMMA AppendElements ==
  ASSUME NEW S, NEW s \in Seq(S), NEW e \in S
  PROVE  /\ Append(s, e) \in Seq(S)
         /\ Len(s) \in Nat
         /\ Append(s, e)[Len(s) + 1] = e
         /\ \A i \in 1..Len(s) : Append(s, e)[i] = s[i]
         /\ DOMAIN Append(s, e) = 1..(Len(s) + 1)
         /\ DOMAIN s = 1..Len(s)
OBVIOUS

LEMMA Versions == \A f \in Files : f.version \in Nat
BY DbMigrateAssumption

LEMMA MigrateInit == Init => MigrateInv
<1> SUFFICES ASSUME Init PROVE MigrateInv
  OBVIOUS
<1>1. executed = <<>> /\ DOMAIN executed = {} /\ executed \in Seq(Files \ Failing)
  BY DEF Init
<1> QED BY <1>1
        DEF Init, MigrateInv, TypeOK, LockInv, RecordsInv, SchemaInOrder, OneFilePerVersion,
            ReadyHasSchema, PodStates, Holding

(* A pod that moves and leaves the database alone. *)
LEMMA MoveKeepsInv ==
  ASSUME MigrateInv, NEW p \in Pods, NEW state \in PodStates, Goto(p, state),
         UNCHANGED <<existing, executed, recorded>>,
         \A q \in Pods \ {p} : known'[q] = known[q],
         known' \in [Pods -> SUBSET recorded],
         state \in Holding => \A q \in Pods : pc[q] \in Holding => q = p,
         state \in {"marking", "comparing", "applying"} => known'[p] = recorded,
         state \in Holding \cup {"waiting", "ready"} => Loads(FilesOf[p]),
         state = "marking" => existing,
         state = "applying" => Agrees(FilesOf[p], recorded),
         state = "ready" => FilesOf[p] \subseteq recorded
  PROVE  MigrateInv'
<1>1. pc \in [Pods -> PodStates]
  BY DEF MigrateInv, TypeOK
<1>2. \A q \in Pods : pc'[q] = IF q = p THEN state ELSE pc[q]
  BY <1>1 DEF Goto
<1>3. TypeOK'
  BY <1>1 DEF MigrateInv, TypeOK, Goto
<1>4. LockInv'
  <2>1. \A q, r \in Pods : pc'[q] \in Holding /\ pc'[r] \in Holding => q = r
    BY <1>2 DEF MigrateInv, LockInv
  <2>2. \A q \in Pods : pc'[q] \in {"marking", "comparing", "applying"} => known'[q] = recorded'
    BY <1>2 DEF MigrateInv, LockInv
  <2>3. \A q \in Pods : pc'[q] \in Holding \cup {"waiting", "ready"} => Loads(FilesOf[q])
    BY <1>2 DEF MigrateInv, LockInv
  <2> QED BY <2>1, <2>2, <2>3 DEF LockInv
<1>5. RecordsInv'
  BY <1>2 DEF MigrateInv, RecordsInv
<1>6. SchemaInOrder'
  BY DEF MigrateInv, SchemaInOrder
<1>7. OneFilePerVersion'
  BY <1>2 DEF MigrateInv, OneFilePerVersion
<1>8. ReadyHasSchema'
  BY <1>2 DEF MigrateInv, ReadyHasSchema
<1> QED BY <1>3, <1>4, <1>5, <1>6, <1>7, <1>8 DEF MigrateInv

(* The next file of a pod comes after everything that is recorded, and     *)
(* leaves no gap.                                                          *)
LEMMA NextFile ==
  ASSUME MigrateInv, NEW p \in Pods, NEW f \in Files, Loads(FilesOf[p]),
         IsNext(FilesOf[p], recorded, f)
  PROVE  /\ f \in FilesOf[p] /\ f.version > 0
         /\ \A v \in 1..(f.version - 1) : Has(recorded, v)
         /\ \A r \in recorded : r.version < f.version
<1>1. f \in FilesOf[p] /\ f.version > 0 /\ f.version \in Nat
  BY Versions DEF IsNext, Loads
<1>2. ASSUME NEW v \in 1..(f.version - 1) PROVE Has(recorded, v)
  <2>1. PICK g \in FilesOf[p] : g.version = v
    BY <1>1, <1>2 DEF Loads, Has
  <2>2. g.version < f.version
    BY <1>1, <2>1
  <2> QED BY <2>1, <2>2 DEF IsNext
<1>3. ASSUME NEW r \in recorded PROVE r.version < f.version
  <2>1. r.version \in Nat /\ r.version # f.version
    BY <1>3, Versions DEF MigrateInv, TypeOK, IsNext, Has
  <2>2. CASE r.version > f.version
    <3>1. f.version \in 1..(r.version - 1)
      BY <1>1, <2>1, <2>2
    <3>2. Has(recorded, f.version)
      BY <1>3, <3>1 DEF MigrateInv, RecordsInv
    <3> QED BY <3>2 DEF IsNext
  <2> QED BY <1>1, <2>1, <2>2
<1> QED BY <1>1, <1>2, <1>3

(* Recording the next file, executed or not. *)
LEMMA RecordKeepsInv ==
  ASSUME MigrateInv, NEW p \in Pods, NEW f \in Files, pc[p] \in {"marking", "applying"},
         IsNext(FilesOf[p], known[p], f),
         recorded' = recorded \cup {f},
         known' = [known EXCEPT ![p] = @ \cup {f}],
         pc' = pc,
         existing' = existing,
         \/ executed' = executed /\ existing /\ f.version <= BaselineVersion
         \/ executed' = Append(executed, f) /\ f \notin Failing
  PROVE  MigrateInv'
<1>1. /\ executed \in Seq(Files \ Failing)
      /\ recorded \subseteq Files
      /\ pc \in [Pods -> PodStates]
      /\ known \in [Pods -> SUBSET recorded]
  BY DEF MigrateInv, TypeOK
<1>2. pc[p] \in Holding /\ known[p] = recorded /\ Loads(FilesOf[p])
  BY DEF MigrateInv, LockInv, Holding
<1>3. /\ f \in FilesOf[p] /\ f.version > 0 /\ f.version \in Nat
      /\ \A v \in 1..(f.version - 1) : Has(recorded, v)
      /\ \A r \in recorded : r.version < f.version /\ r.version \in Nat
  BY <1>1, <1>2, NextFile, Versions
<1>4. \A v : Has(recorded, v) => Has(recorded', v)
  BY DEF Has
<1>5. /\ DOMAIN executed \subseteq DOMAIN executed'
      /\ \A i \in DOMAIN executed : executed'[i] = executed[i]
      /\ \A i \in DOMAIN executed' :
           i \notin DOMAIN executed => executed'[i] = f /\ \A j \in DOMAIN executed : j < i
      /\ executed' \in Seq(Files \ Failing)
      /\ \A i, j \in DOMAIN executed' : i \notin DOMAIN executed /\ j \notin DOMAIN executed => i = j
      /\ executed' # executed => \E i \in DOMAIN executed' : executed'[i] = f
  <2>1. CASE executed' = executed
    BY <1>1, <2>1
  <2>2. CASE executed' = Append(executed, f) /\ f \notin Failing
    BY <1>1, <2>2, AppendElements
  <2> QED BY <2>1, <2>2
<1>6. TypeOK'
  <2>1. known' \in [Pods -> SUBSET recorded']
    BY <1>1
  <2> QED BY <1>1, <1>5, <2>1 DEF MigrateInv, TypeOK
<1>7. LockInv'
  <2>1. known'[p] = recorded'
    BY <1>1, <1>2
  <2>2. \A q \in Pods : pc[q] \in {"marking", "comparing", "applying"} => q = p
    BY <1>2 DEF MigrateInv, LockInv, Holding
  <2> QED BY <2>1, <2>2 DEF MigrateInv, LockInv
<1>8. RecordsInv'
  <2>1. \A r \in recorded' : r.version > 0 /\ \A v \in 1..(r.version - 1) : Has(recorded', v)
    BY <1>3, <1>4 DEF MigrateInv, RecordsInv
  <2>2. \A i \in DOMAIN executed' : executed'[i] \in recorded'
    BY <1>5 DEF MigrateInv, RecordsInv
  <2> QED BY <2>1, <2>2 DEF MigrateInv, RecordsInv
<1>9. SchemaInOrder'
  <2>1. \A r \in recorded' : \/ \E i \in DOMAIN executed' : executed'[i] = r
                             \/ existing /\ r.version <= BaselineVersion
    BY <1>5 DEF MigrateInv, SchemaInOrder
  <2>2. \A r \in recorded' : \A v \in 1..(r.version - 1) : Has(recorded', v)
    BY <1>8 DEF RecordsInv
  <2>3. ASSUME NEW i \in DOMAIN executed', NEW j \in DOMAIN executed', i < j
        PROVE  executed'[i].version < executed'[j].version
    <3>0. i \in Nat /\ j \in Nat
      BY <1>5, <2>3
    <3>1. CASE j \in DOMAIN executed
      <4>1. i \in DOMAIN executed
        <5>1. i \notin DOMAIN executed => j < i
          BY <1>5, <2>3, <3>1
        <5> QED BY <2>3, <3>0, <5>1
      <4> QED BY <1>5, <2>3, <3>1, <4>1 DEF MigrateInv, SchemaInOrder
    <3>2. CASE j \notin DOMAIN executed
      <4>1. executed'[j] = f /\ i # j
        BY <1>5, <2>3, <3>0, <3>2
      <4>2. i \in DOMAIN executed
        BY <1>5, <2>3, <3>2, <4>1
      <4>3. executed'[i] \in recorded
        BY <1>5, <4>2 DEF MigrateInv, RecordsInv
      <4> QED BY <1>3, <4>1, <4>3
    <3> QED BY <3>1, <3>2
  <2> QED BY <2>1, <2>2, <2>3 DEF SchemaInOrder
<1>10. OneFilePerVersion'
  <2>1. \A r, s \in recorded' : r.version = s.version => r = s
    BY <1>3 DEF MigrateInv, OneFilePerVersion
  <2>2. ASSUME NEW q \in Pods, pc'[q] = "applying" PROVE Agrees(FilesOf[q], recorded')
    <3>1. q = p
      BY <1>2, <2>2 DEF MigrateInv, LockInv, Holding
    <3>2. Agrees(FilesOf[p], recorded)
      BY <2>2, <3>1 DEF MigrateInv, OneFilePerVersion
    <3> QED BY <1>2, <1>3, <3>1, <3>2 DEF Agrees, Loads
  <2> QED BY <2>1, <2>2 DEF OneFilePerVersion
<1>11. ReadyHasSchema'
  BY DEF MigrateInv, ReadyHasSchema
<1> QED BY <1>6, <1>7, <1>8, <1>9, <1>10, <1>11 DEF MigrateInv

LEMMA ReadRecordedStep ==
  ASSUME MigrateInv, NEW p \in Pods, ReadRecorded(p)
  PROVE  MigrateInv'
<1>1. PICK state \in {"marking", "comparing"} :
        Goto(p, state) /\ (state = "marking" => recorded = {} /\ SentinelExists)
  BY DEF ReadRecorded
<1>2. state = "marking" => existing
  <2> SUFFICES ASSUME recorded = {}, SentinelExists PROVE existing
    BY <1>1
  <2> QED BY DEF SentinelExists, MigrateInv, RecordsInv
<1>3. /\ pc \in [Pods -> PodStates] /\ pc[p] \in Holding
      /\ known \in [Pods -> SUBSET recorded]
      /\ state \in PodStates /\ state \in Holding /\ state # "applying" /\ state # "ready"
  BY DEF MigrateInv, TypeOK, ReadRecorded, Holding, PodStates
<1>4. /\ \A q \in Pods : pc[q] \in Holding => q = p
      /\ Loads(FilesOf[p])
  BY <1>3 DEF MigrateInv, LockInv
<1>5. /\ known' \in [Pods -> SUBSET recorded]
      /\ known'[p] = recorded
      /\ \A q \in Pods \ {p} : known'[q] = known[q]
      /\ UNCHANGED <<existing, executed, recorded>>
  BY <1>3 DEF ReadRecorded
<1> QED BY <1>1, <1>2, <1>3, <1>4, <1>5, MoveKeepsInv

LEMMA MoveSteps ==
  ASSUME MigrateInv, NEW p \in Pods,
         \/ LoadFiles(p) \/ Acquire(p) \/ EndMarking(p) \/ Compare(p) \/ Finish(p)
         \/ Stop(p) \/ Restart(p)
  PROVE  MigrateInv'
<1>0. /\ pc \in [Pods -> PodStates]
      /\ known \in [Pods -> SUBSET recorded]
  BY DEF MigrateInv, TypeOK
<1>1. CASE LoadFiles(p)
  <2>1. PICK state \in {"waiting", "refused"} :
          Goto(p, state) /\ (state = "waiting" => Loads(FilesOf[p]))
    BY <1>1 DEF LoadFiles
  <2> QED BY <1>0, <1>1, <2>1, MoveKeepsInv DEF LoadFiles, PodStates, Holding
<1>2. CASE Acquire(p)
  <2>1. Loads(FilesOf[p]) /\ \A q \in Pods : pc[q] \notin Holding
    BY <1>2 DEF Acquire, LockFree, MigrateInv, LockInv
  <2> QED BY <1>0, <1>2, <2>1, MoveKeepsInv DEF Acquire, PodStates, Holding
<1>3. CASE EndMarking(p)
  <2>1. /\ \A q \in Pods : pc[q] \in Holding => q = p
        /\ known[p] = recorded /\ Loads(FilesOf[p])
    BY <1>3 DEF EndMarking, MigrateInv, LockInv, Holding
  <2> QED BY <1>0, <1>3, <2>1, MoveKeepsInv DEF EndMarking, PodStates, Holding
<1>4. CASE Compare(p)
  <2>1. /\ \A q \in Pods : pc[q] \in Holding => q = p
        /\ known[p] = recorded /\ Loads(FilesOf[p])
    BY <1>4 DEF Compare, MigrateInv, LockInv, Holding
  <2>2. PICK state \in {"applying", "refused"} :
          Goto(p, state) /\ (state = "applying" => Agrees(FilesOf[p], recorded))
    BY <1>4, <2>1 DEF Compare
  <2> QED BY <1>0, <1>4, <2>1, <2>2, MoveKeepsInv DEF Compare, PodStates, Holding
<1>5. CASE Finish(p)
  <2>1. known[p] = recorded /\ Loads(FilesOf[p]) /\ Agrees(FilesOf[p], recorded)
    BY <1>5 DEF Finish, MigrateInv, LockInv, OneFilePerVersion, Holding
  <2>2. FilesOf[p] \subseteq recorded
    BY <1>5, <2>1 DEF Finish, Has, Agrees
  <2> QED BY <1>0, <1>5, <2>1, <2>2, MoveKeepsInv DEF Finish, PodStates, Holding
<1>6. CASE Stop(p)
  BY <1>0, <1>6, MoveKeepsInv DEF Stop, PodStates, Holding
<1>7. CASE Restart(p)
  BY <1>0, <1>7, MoveKeepsInv DEF Restart, PodStates, Holding
<1> QED BY <1>1, <1>2, <1>3, <1>4, <1>5, <1>6, <1>7

LEMMA MarkStep ==
  ASSUME MigrateInv, NEW p \in Pods, MarkBaseline(p)
  PROVE  MigrateInv'
<1>1. PICK f \in Files : /\ Marking(p, f)
                         /\ recorded' = recorded \cup {f}
                         /\ known' = [known EXCEPT ![p] = @ \cup {f}]
  BY DEF MarkBaseline
<1>2. existing
  BY DEF MarkBaseline, MigrateInv, RecordsInv
<1> QED BY <1>1, <1>2, RecordKeepsInv DEF MarkBaseline, Marking

LEMMA ApplyStep ==
  ASSUME MigrateInv, NEW p \in Pods, ApplyNext(p)
  PROVE  MigrateInv'
<1>1. PICK f \in Files :
        /\ IsNext(FilesOf[p], known[p], f)
        /\ \/ Goto(p, "refused") /\ UNCHANGED <<executed, recorded, known>>
           \/ /\ f \notin Failing
              /\ executed' = Append(executed, f)
              /\ recorded' = recorded \cup {f}
              /\ known' = [known EXCEPT ![p] = @ \cup {f}]
              /\ pc' = pc
  BY DEF ApplyNext
<1>2. CASE Goto(p, "refused") /\ UNCHANGED <<executed, recorded, known>>
  <2>1. known \in [Pods -> SUBSET recorded]
    BY DEF MigrateInv, TypeOK
  <2>2. existing' = existing
    BY DEF ApplyNext
  <2> QED BY <1>2, <2>1, <2>2, MoveKeepsInv DEF PodStates, Holding
<1>3. CASE /\ f \notin Failing
           /\ executed' = Append(executed, f)
           /\ recorded' = recorded \cup {f}
           /\ known' = [known EXCEPT ![p] = @ \cup {f}]
           /\ pc' = pc
  BY <1>1, <1>3, RecordKeepsInv DEF ApplyNext
<1> QED BY <1>1, <1>2, <1>3

LEMMA MigrateStep ==
  ASSUME MigrateInv, [Next]_vars
  PROVE  MigrateInv'
<1>1. CASE UNCHANGED vars
  BY <1>1
  DEF vars, MigrateInv, TypeOK, LockInv, RecordsInv, SchemaInOrder, OneFilePerVersion,
      ReadyHasSchema
<1>2. CASE Next
  BY <1>2, ReadRecordedStep, MoveSteps, MarkStep, ApplyStep DEF Next, Step
<1> QED BY <1>1, <1>2

(* Every variable keeps its type. *)
THEOREM TypeCorrect == Spec => []TypeOK
<1>1. MigrateInv => TypeOK
  BY DEF MigrateInv
<1> QED BY MigrateInit, MigrateStep, <1>1, PTL DEF Spec

(* The schema is made by the recorded files, in order and without gaps. *)
THEOREM SchemaOrdered == Spec => []SchemaInOrder
<1>1. MigrateInv => SchemaInOrder
  BY DEF MigrateInv
<1> QED BY MigrateInit, MigrateStep, <1>1, PTL DEF Spec

(* No version is made by two files. *)
THEOREM OneFile == Spec => []OneFilePerVersion
<1>1. MigrateInv => OneFilePerVersion
  BY DEF MigrateInv
<1> QED BY MigrateInit, MigrateStep, <1>1, PTL DEF Spec

(* A pod that is ready has its whole schema. *)
THEOREM ReadySchema == Spec => []ReadyHasSchema
<1>1. MigrateInv => ReadyHasSchema
  BY DEF MigrateInv
<1> QED BY MigrateInit, MigrateStep, <1>1, PTL DEF Spec

(* Pods that start together do not make each other give up. *)
THEOREM RefusalsJustified == Spec => NoNeedlessRefusal
<1>1. ASSUME MigrateInv, [Next]_vars, NEW p \in Pods, pc[p] # "refused", pc'[p] = "refused"
      PROVE  ~Compatible(p)
  <2>1. pc \in [Pods -> PodStates]
    BY <1>1 DEF MigrateInv, TypeOK
  <2>2. PICK q \in Pods : Step(q) \/ Stop(q) \/ Restart(q)
    BY <1>1 DEF Next, vars
  <2>3. CASE LoadFiles(q)
    BY <1>1, <2>1, <2>3 DEF LoadFiles, Goto, Compatible
  <2>4. CASE Compare(q)
    <3>1. known[q] = recorded
      BY <1>1, <2>4 DEF Compare, MigrateInv, LockInv
    <3> QED BY <1>1, <2>1, <2>4, <3>1 DEF Compare, Goto, Compatible
  <2>5. CASE ApplyNext(q)
    <3>1. known[q] = recorded
      BY <1>1, <2>5 DEF ApplyNext, MigrateInv, LockInv
    <3>2. PICK f \in Files : /\ IsNext(FilesOf[q], recorded, f)
                             /\ \/ Goto(q, "refused") /\ (f \in Failing \/ Has(recorded, f.version))
                                \/ pc' = pc
      BY <2>5, <3>1 DEF ApplyNext
    <3>3. f \in FilesOf[q] /\ f \in Failing /\ q = p
      BY <1>1, <2>1, <3>2 DEF IsNext, Goto
    <3> QED BY <3>3 DEF Compatible
  <2>6. CASE \/ Acquire(q) \/ ReadRecorded(q) \/ MarkBaseline(q) \/ EndMarking(q)
             \/ Finish(q) \/ Stop(q) \/ Restart(q)
    BY <1>1, <2>1, <2>6
    DEF Acquire, ReadRecorded, MarkBaseline, EndMarking, Finish, Stop, Restart, Goto
  <2> QED BY <2>2, <2>3, <2>4, <2>5, <2>6 DEF Step
<1>2. ASSUME MigrateInv, [Next]_vars
      PROVE  \A p \in Pods : pc[p] # "refused" /\ pc'[p] = "refused" => ~Compatible(p)
  BY <1>1, <1>2
<1> QED BY MigrateInit, MigrateStep, <1>2, PTL DEF Spec, NoNeedlessRefusal

-----------------------------------------------------------------------------
(* A baseline of one file is recorded before anything is applied. *)
BaselineInv ==
  \A p \in Pods : pc[p] \in {"comparing", "applying"} =>
    \A f \in FilesOf[p] : f.version <= BaselineVersion => Has(recorded, f.version)

(* On an existing database a baseline of one file is never executed. *)
THEOREM BaselineKept ==
  ASSUME BaselineVersion <= 1
  PROVE  Spec => []BaselineNotExecuted
<1> DEFINE Inv == existing => BaselineInv /\ BaselineNotExecuted
<1>1. Init => Inv
  BY DEF Init, BaselineInv, BaselineNotExecuted
<1>2. ASSUME MigrateInv, Inv, [Next]_vars, existing
      PROVE  BaselineInv' /\ BaselineNotExecuted'
  <2>0. /\ pc \in [Pods -> PodStates] /\ recorded \subseteq Files
        /\ executed \in Seq(Files \ Failing) /\ BaselineVersion \in Nat
    BY <1>2, DbMigrateAssumption DEF MigrateInv, TypeOK
  <2>1. recorded \subseteq recorded'
    BY <1>2 DEF Next, vars, Step, LoadFiles, Acquire, ReadRecorded, MarkBaseline, EndMarking,
                Compare, ApplyNext, Finish, Stop, Restart
  <2>2. ASSUME NEW p \in Pods, pc'[p] \in {"comparing", "applying"},
               pc[p] \notin {"comparing", "applying"},
               NEW f \in FilesOf[p], f.version <= BaselineVersion
        PROVE  Has(recorded, f.version)
    <3>1. f \in Files /\ f.version \in Nat
      BY DbMigrateAssumption
    <3>2. ReadRecorded(p) \/ EndMarking(p)
      BY <1>2, <2>0, <2>2 DEF Next, vars, Step, LoadFiles, Acquire, ReadRecorded, MarkBaseline,
         EndMarking, Compare, ApplyNext, Finish, Stop, Restart, Goto
    <3>3. Loads(FilesOf[p])
      BY <1>2, <3>2 DEF ReadRecorded, EndMarking, MigrateInv, LockInv, Holding
    <3>4. f.version = 1 /\ BaselineVersion = 1
      BY <2>0, <2>2, <3>1, <3>3 DEF Loads
    <3>5. CASE recorded # {}
      <4>1. PICK r \in recorded : TRUE
        BY <3>5
      <4>2. r.version \in Nat /\ r.version > 0 /\ \A v \in 1..(r.version - 1) : Has(recorded, v)
        BY <1>2, <2>0, Versions DEF MigrateInv, RecordsInv
      <4>3. r.version = 1 \/ 1 \in 1..(r.version - 1)
        BY <4>2
      <4> QED BY <3>4, <4>2, <4>3 DEF Has
    <3>6. CASE recorded = {}
      <4>1. EndMarking(p)
        <5>1. ~ReadRecorded(p)
          <6>1. SentinelExists /\ BaselineVersion > 0
            BY <1>2, <3>4 DEF SentinelExists
          <6>2. ReadRecorded(p) => Goto(p, "marking")
            BY <3>6, <6>1 DEF ReadRecorded
          <6>3. Goto(p, "marking") => pc'[p] = "marking"
            BY <2>0 DEF Goto
          <6> QED BY <2>2, <6>2, <6>3
        <5> QED BY <3>2, <5>1
      <4>2. known[p] = recorded
        BY <1>2, <4>1 DEF EndMarking, MigrateInv, LockInv
      <4>3. \A g \in FilesOf[p] : ~(g.version < f.version)
        BY <3>3, <3>4, DbMigrateAssumption DEF Loads
      <4>4. Has(recorded, f.version)
        BY <2>2, <3>1, <4>1, <4>2, <4>3 DEF EndMarking, Marking, IsNext
      <4> QED BY <4>4
    <3> QED BY <3>5, <3>6
  <2>3. BaselineInv'
    BY <1>2, <2>1, <2>2 DEF BaselineInv, Has
  <2>4. BaselineNotExecuted'
    <3>0. existing' = existing
      BY <1>2 DEF Next, vars, Step, LoadFiles, Acquire, ReadRecorded, MarkBaseline, EndMarking,
                  Compare, ApplyNext, Finish, Stop, Restart
    <3>1. CASE UNCHANGED executed
      BY <1>2, <3>0, <3>1 DEF BaselineNotExecuted
    <3>2. ASSUME NEW p \in Pods, NEW f \in Files, ApplyNext(p),
                 IsNext(FilesOf[p], known[p], f), executed' = Append(executed, f),
                 f \notin Failing
          PROVE  BaselineNotExecuted'
      <4>1. known[p] = recorded /\ f.version \in Nat
        BY <1>2, <3>2, Versions DEF ApplyNext, MigrateInv, LockInv
      <4>2. f.version > BaselineVersion
        BY <1>2, <2>0, <3>2, <4>1 DEF ApplyNext, BaselineInv, IsNext
      <4> QED BY <1>2, <2>0, <3>2, <4>2, AppendElements DEF BaselineNotExecuted
    <3> QED BY <1>2, <3>1, <3>2 DEF Next, vars, Step, LoadFiles, Acquire, ReadRecorded,
            MarkBaseline, EndMarking, Compare, ApplyNext, Finish, Stop, Restart
  <2> QED BY <2>3, <2>4
<1>3. MigrateInv /\ Inv /\ [Next]_vars => Inv'
  <2>1. [Next]_vars => existing' = existing
    BY DEF Next, vars, Step, LoadFiles, Acquire, ReadRecorded, MarkBaseline, EndMarking,
           Compare, ApplyNext, Finish, Stop, Restart
  <2> QED BY <1>2, <2>1
<1>4. Inv => BaselineNotExecuted
  BY DEF BaselineNotExecuted
<1> QED BY MigrateInit, MigrateStep, <1>1, <1>3, <1>4, PTL DEF Spec
=============================================================================
