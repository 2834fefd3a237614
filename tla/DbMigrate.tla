------------------------------ MODULE DbMigrate ------------------------------
(***************************************************************************)
(* pkg/dbmigrate and pkg/migrate: the pods of one service migrate its      *)
(* schema when they start.  During a rolling update pods have different    *)
(* files; each loads its own, waits for the advisory lock, compares its    *)
(* files with what is recorded and applies the ones that are missing, each *)
(* in a transaction.                                                       *)
(***************************************************************************)
EXTENDS Naturals, Sequences

CONSTANTS
  Pods,
  Files,            \* migration files, records of a version and a body
  FilesOf,          \* the files each pod is built with
  Blank,            \* the body of a file without statements
  Failing,          \* files whose SQL fails
  BaselineVersion,  \* Options.BaselineVersion
  MayStop           \* a pod may stop, or lose its connection, at any time

ASSUME DbMigrateAssumption ==
  /\ \A f \in Files : f.version \in Nat
  /\ FilesOf \in [Pods -> SUBSET Files]
  /\ Failing \subseteq Files
  /\ BaselineVersion \in Nat
  /\ MayStop \in BOOLEAN

VARIABLES
  existing,  \* the database had the tables of the baseline (SentinelTable)
  executed,  \* the files whose SQL is committed, in this order
  recorded,  \* the rows of schema_migrations
  pc,        \* where each pod is
  known      \* the rows a pod has read or written since it has the lock

vars == <<existing, executed, recorded, pc, known>>

Holding   == {"locked", "marking", "comparing", "applying"}
PodStates == Holding \cup {"starting", "waiting", "ready", "refused", "stopped"}
Ended     == {"ready", "refused"}

Init ==
  /\ existing \in BOOLEAN
  /\ executed = <<>>
  /\ recorded = {}
  /\ pc = [p \in Pods |-> "starting"]
  /\ known = [p \in Pods |-> {}]

Goto(p, state) == pc' = [pc EXCEPT ![p] = state]

(* A file or row of this version is among F. *)
Has(F, version) == \E f \in F : f.version = version

(* The first of F that is not among K; Load has put them in order. *)
IsNext(F, K, f) ==
  /\ f \in F
  /\ ~Has(K, f.version)
  /\ \A g \in F : g.version < f.version => Has(K, g.version)

-----------------------------------------------------------------------------
\* Mutant: a gap between the versions is not noticed.
LoadsWithGaps(F) ==
  /\ \A f, g \in F : f.version = g.version => f = g
  /\ \A f \in F : f.version > 0 /\ f.body # Blank

(* Load: the versions are 1, 2, 3, ... and each file has statements. *)
Loads(F) ==
  /\ \A f, g \in F : f.version = g.version => f = g
  /\ \A f \in F :
       /\ f.version > 0
       /\ f.body # Blank
       /\ \A v \in 1..(f.version - 1) : Has(F, v)

LoadFiles(p) ==
  /\ pc[p] = "starting"
  /\ Goto(p, IF Loads(FilesOf[p]) THEN "waiting" ELSE "refused")
  /\ UNCHANGED <<existing, executed, recorded, known>>

\* Mutant: the lock does not exclude anybody.
LockFreeAlways == TRUE

\* Mutant: a pod that gives up does not release the lock.
LockFreeOfRefused == \A p \in Pods : pc[p] \notin Holding \cup {"refused"}

(* pg_advisory_lock: it belongs to a connection and is gone with it. *)
LockFree == \A p \in Pods : pc[p] \notin Holding

Acquire(p) ==
  /\ pc[p] = "waiting"
  /\ LockFree
  /\ Goto(p, "locked")
  /\ UNCHANGED <<existing, executed, recorded, known>>

\* Mutant: the tables from before are not found.
SentinelMissed == \E i \in DOMAIN executed : executed[i].version = 1

(* The tables of the baseline are there: from before, or made by a file. *)
SentinelExists == existing \/ \E i \in DOMAIN executed : executed[i].version = 1

(* recordedChecksums, and whether the baseline is only to be marked. *)
ReadRecorded(p) ==
  /\ pc[p] = "locked"
  /\ known' = [known EXCEPT ![p] = recorded]
  /\ Goto(p, IF recorded = {} /\ BaselineVersion > 0 /\ SentinelExists
             THEN "marking" ELSE "comparing")
  /\ UNCHANGED <<existing, executed, recorded>>

(* The baseline is recorded without being executed, one row at a time. *)
Marking(p, f) == IsNext(FilesOf[p], known[p], f) /\ f.version <= BaselineVersion

MarkBaseline(p) ==
  /\ pc[p] = "marking"
  /\ \E f \in Files :
       /\ Marking(p, f)
       /\ recorded' = recorded \cup {f}
       /\ known' = [known EXCEPT ![p] = @ \cup {f}]
  /\ UNCHANGED <<existing, executed, pc>>

EndMarking(p) ==
  /\ pc[p] = "marking"
  /\ \A f \in Files : ~Marking(p, f)
  /\ Goto(p, "comparing")
  /\ UNCHANGED <<existing, executed, recorded, known>>

\* Mutant: the checksums are not compared.
AgreesAlways(F, K) == TRUE

(* Every file that is recorded is recorded with its checksum. *)
Agrees(F, K) == \A f \in F, k \in K : f.version = k.version => f = k

Compare(p) ==
  /\ pc[p] = "comparing"
  /\ Goto(p, IF Agrees(FilesOf[p], known[p]) THEN "applying" ELSE "refused")
  /\ UNCHANGED <<existing, executed, recorded, known>>

(* One file and its row in one transaction; a row of that version would    *)
(* make it fail.                                                           *)
ApplyNext(p) ==
  /\ pc[p] = "applying"
  /\ \E f \in Files :
       /\ IsNext(FilesOf[p], known[p], f)
       /\ IF f \in Failing \/ Has(recorded, f.version)
          THEN Goto(p, "refused") /\ UNCHANGED <<executed, recorded, known>>
          ELSE /\ executed' = Append(executed, f)
               /\ recorded' = recorded \cup {f}
               /\ known' = [known EXCEPT ![p] = @ \cup {f}]
               /\ UNCHANGED pc
  /\ UNCHANGED existing

Finish(p) ==
  /\ pc[p] = "applying"
  /\ \A f \in FilesOf[p] : Has(known[p], f.version)
  /\ Goto(p, "ready")
  /\ UNCHANGED <<existing, executed, recorded, known>>

(* The pod stops: a transaction that was open is rolled back. *)
Stop(p) ==
  /\ MayStop
  /\ pc[p] \notin {"refused", "stopped"}
  /\ Goto(p, "stopped")
  /\ UNCHANGED <<existing, executed, recorded, known>>

(* Kubernetes starts a pod again that has stopped or given up. *)
Restart(p) ==
  /\ MayStop
  /\ pc[p] \in {"refused", "stopped"}
  /\ Goto(p, "starting")
  /\ known' = [known EXCEPT ![p] = {}]
  /\ UNCHANGED <<existing, executed, recorded>>

Step(p) ==
  \/ LoadFiles(p)
  \/ Acquire(p)
  \/ ReadRecorded(p)
  \/ MarkBaseline(p)
  \/ EndMarking(p)
  \/ Compare(p)
  \/ ApplyNext(p)
  \/ Finish(p)

Next == \E p \in Pods : Step(p) \/ Stop(p) \/ Restart(p)

Spec == Init /\ [][Next]_vars

(* A pod that runs goes on, and PostgreSQL grants the lock to its waiters  *)
(* in turn, however often others take it.                                  *)
FairSpec ==
  /\ Spec
  /\ \A p \in Pods : WF_vars(Step(p)) /\ SF_vars(Acquire(p))

-----------------------------------------------------------------------------
(* Every variable keeps its type. *)
TypeOK ==
  /\ existing \in BOOLEAN
  /\ executed \in Seq(Files \ Failing)
  /\ recorded \subseteq Files
  /\ pc \in [Pods -> PodStates]
  /\ known \in [Pods -> SUBSET recorded]

(* Whichever pods start and stop: the schema is made by the recorded files *)
(* in the order of their versions, none twice and none left out but the    *)
(* baseline of a database that had it.                                     *)
SchemaInOrder ==
  /\ \A r \in recorded :
       \/ \E i \in DOMAIN executed : executed[i] = r
       \/ existing /\ r.version <= BaselineVersion
  /\ \A r \in recorded : \A v \in 1..(r.version - 1) : Has(recorded, v)
  /\ \A i, j \in DOMAIN executed : i < j => executed[i].version < executed[j].version

(* A version is one file: no pod goes on from a schema that was made by    *)
(* another file of the same number.                                        *)
OneFilePerVersion ==
  /\ \A r, s \in recorded : r.version = s.version => r = s
  /\ \A p \in Pods : pc[p] = "applying" => Agrees(FilesOf[p], recorded)

(* A pod that is ready runs on a schema that has all of its files. *)
ReadyHasSchema == \A p \in Pods : pc[p] = "ready" => FilesOf[p] \subseteq recorded

(* Nobody gives up without a reason in its own files or the recorded ones: *)
(* pods that start together do not get in each other's way.                *)
Compatible(p) ==
  /\ Loads(FilesOf[p])
  /\ Agrees(FilesOf[p], recorded)
  /\ FilesOf[p] \cap Failing = {}

NoNeedlessRefusal ==
  [][\A p \in Pods : pc[p] # "refused" /\ pc'[p] = "refused" => ~Compatible(p)]_vars

(* The baseline of a database that has it is never executed. *)
BaselineNotExecuted ==
  existing => \A i \in DOMAIN executed : executed[i].version > BaselineVersion

(* A pod that waits for the lock gets to the end of its migrations, or     *)
(* gives up, unless it stops: nobody keeps the lock.                       *)
PodsEnd == \A p \in Pods : pc[p] = "waiting" ~> pc[p] \in Ended \cup {"stopped"}
=============================================================================
