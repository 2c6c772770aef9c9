---------------------------- MODULE BackupProofs ----------------------------
(***************************************************************************)
(* What the backup's files and exit codes claim is so, for any number of   *)
(* runs, dumps kept and attempts, wherever the two processes die and       *)
(* however their updates of the status file overlap.                       *)
(***************************************************************************)
EXTENDS BackupRun, FiniteSetTheorems, WellFoundedInduction, TLAPS

-----------------------------------------------------------------------------
(* The invariant. *)

\* A document that may stand in the status file: the dump it calls ok was
\* described, and is there or made room for newer ones.
Sound(s) == s.result = "ok" =>
    s.dump \in described /\ (s.dump \in dumps \/ Cardinality(Newer(s.dump)) >= Keep)

\* The service works on the dump of its own run, from the moment that it is
\* published.
ServiceFits(p) ==
    /\ p.pc \in {"dump", "prune", "manifest"} => p.dump = Null
    /\ p.pc \in ServicePc \cup TransferPc => started \in RunId
    /\ p.pc \in (ServicePc \cup TransferPc) \ {"dump"} => started \in dumps
    /\ p.pc \in (ServicePc \cup TransferPc) \ {"dump", "prune", "manifest"} => p.dump = started
    /\ p.pc \in {"status", "write", "clear", "offsite"} \cup TransferPc => started \in described
    /\ p.pc \in ServicePc \ {"offsite"} /\ failure # Null => failure < started
    /\ p.exit \in {0, 20, 21} => started \in dumps \cap described
    /\ p.pc \in ServicePc => ~p.verified /\ p.seen = NoStatus

\* What a process knows of the dumps and may say of the objects r: one that read
\* its object back, or exited with 0, that it left the host.
ProcessFits(j, p, r) ==
    /\ p.pc \in TransferPc \ {"check"} => p.dump \in described
    /\ p.verified \/ p.exit = 0 => p.dump \in RunId /\ r[p.dump] # Null
    /\ p.pc # "idle" => p.exit = Null
    /\ p.pc = "idle" => ~p.verified
    /\ Sound(p.seen)
    /\ j = "service" => ServiceFits(p)

Numbered ==
    /\ dumps \subseteq 1 .. started /\ described \subseteq 1 .. started
    /\ failure # Null => failure <= started

\* The object that the status names is one that the bucket has, or had for its time.
ObjectOffsite == status.object # Null => remote[status.object] # Null

BackupInv ==
    /\ BackupTypeOK /\ Numbered /\ Sound(status) /\ ObjectOffsite /\ RemoteWasDescribed
    /\ \A j \in Job : ProcessFits(j, job[j], remote)

-----------------------------------------------------------------------------
(* The object store: an object that is not there was never stored, or has   *)
(* expired.                                                                 *)

LEMMA OffsiteOnce ==
  ASSUME remote \in Objects, NEW d \in RunId
  PROVE  remote[d] # Null <=> Stored(d) \/ Expired(d)
BY BackupAssumption DEF Objects, Stored, Expired, Job

LEMMA OffsiteDescribed ==
  ASSUME remote \in Objects
  PROVE  RemoteWasDescribed <=> \A d \in RunId : remote[d] # Null => d \in described
BY OffsiteOnce DEF RemoteWasDescribed

LEMMA NextDescribed ==
  ASSUME (remote \in Objects)'
  PROVE  RemoteWasDescribed' <=> \A d \in RunId : remote'[d] # Null => d \in described'
<1>1. \A d \in RunId : remote'[d] # Null <=> remote'[d] \in Job \/ remote'[d] = "expired"
  BY BackupAssumption DEF Objects, Job
<1> QED
  BY <1>1 DEF RemoteWasDescribed, Stored, Expired


-----------------------------------------------------------------------------
(* Retention: what is pruned has Keep newer dumps that are not.             *)

LEMMA RunsAreFinite == RunId \subseteq Nat /\ IsFiniteSet(RunId)
<1>1. IsFiniteSet(1 .. MaxRuns)
  BY FS_Interval, BackupAssumption
<1> QED
  BY <1>1, BackupAssumption DEF RunId

LEMMA NewestExists ==
  ASSUME NEW S \in SUBSET RunId, S # {}
  PROVE  \E m \in S : \A n \in S : n <= m
<1> DEFINE Above(m) == {n \in S : n > m}
           Aboves == {Above(m) : m \in S}
<1>1. S \subseteq Nat /\ IsFiniteSet(S)
  BY RunsAreFinite, FS_Subset
<1>2. Aboves \subseteq FiniteSubsetsOf(S) /\ Aboves # {}
  <2>1. \A m \in S : Above(m) \in SUBSET S /\ IsFiniteSet(Above(m))
    BY <1>1, FS_Subset
  <2> QED
    BY <2>1 DEF FiniteSubsetsOf
<1>3. PICK A \in Aboves : \A B \in Aboves : ~(<<B, A>> \in StrictSubsetOrdering(S))
  BY <1>2, FS_StrictSubsetOrderingWellFounded, WFMin
<1>4. PICK m \in S : A = Above(m)
  OBVIOUS
<1>5. ASSUME NEW n \in S, n > m PROVE FALSE
  <2>1. Above(n) \subseteq A /\ n \in A /\ n \notin Above(n)
    BY <1>1, <1>4, <1>5
  <2>2. Above(n) \in Aboves
    OBVIOUS
  <2> QED
    BY <1>2, <1>3, <2>1, <2>2 DEF StrictSubsetOrdering, FiniteSubsetsOf
<1> QED
  BY <1>1, <1>5

\* Of the dumps newer than d, if there are Keep at all, Keep are not pruned: the
\* newest one that is pruned has Keep newer ones, and none of those is.
LEMMA RetainedStay ==
  ASSUME dumps \subseteq RunId, NEW d \in Nat, Cardinality(Newer(d)) >= Keep
  PROVE  Cardinality(Newer(d) \ Beyond) >= Keep
<1> DEFINE R == Newer(d) \ Beyond
           P == Newer(d) \cap Beyond
<1>1. dumps \subseteq Nat /\ IsFiniteSet(dumps)
  BY RunsAreFinite, FS_Subset
<1>2. IsFiniteSet(R) /\ Cardinality(R) \in Nat
  BY <1>1, FS_Subset, FS_CardinalityType DEF Newer
<1>3. CASE P = {}
  <2>1. R = Newer(d)
    BY <1>3
  <2> QED
    BY <2>1
<1>4. CASE P # {}
  <2>1. P \in SUBSET RunId
    BY DEF Newer
  <2>2. PICK m \in P : \A n \in P : n <= m
    BY <1>4, <2>1, NewestExists
  <2>3. Newer(m) \subseteq R
    <3> SUFFICES ASSUME NEW e \in Newer(m) PROVE e \in R
      OBVIOUS
    <3>1. e \in dumps /\ e > m /\ m > d /\ e \in Nat /\ m \in Nat
      BY <1>1 DEF Newer
    <3>2. e \in Newer(d) /\ ~(e <= m)
      BY <3>1 DEF Newer
    <3> QED
      BY <2>2, <3>2
  <2>4. Cardinality(Newer(m)) <= Cardinality(R) /\ Cardinality(Newer(m)) \in Nat
    BY <1>2, <2>3, FS_Subset, FS_CardinalityType
  <2>5. Cardinality(Newer(m)) >= Keep
    BY DEF Beyond
  <2> QED
    BY <1>2, <2>4, <2>5, BackupAssumption
<1> QED
  BY <1>3, <1>4

\* A document stays sound as long as only what retention gives up goes.
LEMMA SoundStays ==
  ASSUME BackupTypeOK, BackupTypeOK', dumps \ Beyond \subseteq dumps', described \subseteq described'
  PROVE  \A s : Sound(s) => Sound(s)'
<1> SUFFICES ASSUME NEW s, s.result = "ok", s.dump \in described,
                    s.dump \in dumps \/ Cardinality(Newer(s.dump)) >= Keep
             PROVE  s.dump \in dumps' \/ Cardinality(Newer(s.dump))' >= Keep
  BY DEF Sound
<1> DEFINE d == s.dump
<1>1. d \in Nat /\ dumps \subseteq RunId /\ dumps' \subseteq RunId
  BY RunsAreFinite DEF BackupTypeOK
<1>2. CASE d \in dumps'
  BY <1>2
<1>3. CASE d \notin dumps'
  <2>1. Cardinality(Newer(d)) >= Keep
    BY <1>3 DEF Beyond
  <2>2. Cardinality(Newer(d) \ Beyond) >= Keep
    BY <1>1, <2>1, RetainedStay
  <2>3. Newer(d) \ Beyond \subseteq Newer(d)'
    BY DEF Newer
  <2>4. IsFiniteSet(Newer(d)')
    <3>1. Newer(d)' \subseteq RunId
      BY <1>1 DEF Newer
    <3> QED
      BY <3>1, RunsAreFinite, FS_Subset
  <2>5. /\ Cardinality(Newer(d) \ Beyond) <= Cardinality(Newer(d)')
        /\ Cardinality(Newer(d) \ Beyond) \in Nat /\ Cardinality(Newer(d)') \in Nat
    BY <2>3, <2>4, FS_Subset, FS_CardinalityType
  <2> QED
    BY <2>2, <2>5, BackupAssumption
<1> QED
  BY <1>2, <1>3

-----------------------------------------------------------------------------
(* A step of the off-site stage changes no file of the local one; it has to  *)
(* fit the process that takes it, and to keep what is stored.                *)

LEMMA TransferTypes ==
  ASSUME BackupInv, NEW j \in Job
  PROVE  /\ job[j] \in Process /\ ProcessFits(j, job[j], remote)
         /\ Sound(status) /\ status \in Status /\ Sound(job[j].seen)
         /\ dumps \subseteq RunId /\ described \subseteq RunId /\ offsiteFailure \in BOOLEAN
         /\ cipher \in [RunId -> Job \cup {Null}] /\ remote \in Objects
         /\ Null \notin Job /\ Null \notin RunId
         /\ \A d \in RunId : remote[d] # Null => d \in described
BY BackupAssumption, OffsiteDescribed DEF BackupInv, BackupTypeOK, ProcessFits, Job, RunId

LEMMA TransferStep ==
  ASSUME BackupInv, NEW j \in Job, UNCHANGED local,
         job' \in [Job -> Process], \A k \in Job \ {j} : job'[k] = job[k],
         ProcessFits(j, job'[j], remote'),
         offsiteFailure' \in BOOLEAN, cipher' \in [RunId -> Job \cup {Null}],
         remote' \in Objects,
         \A d \in RunId : remote[d] # Null => remote'[d] # Null,
         \A d \in RunId : remote'[d] # Null => d \in described,
         status' \in Status, Sound(status'),
         status'.object # Null => remote'[status'.object] # Null
  PROVE  BackupInv'
<1>1. BackupTypeOK'
  BY DEF BackupInv, BackupTypeOK, local
<1>2. Numbered' /\ ObjectOffsite' /\ RemoteWasDescribed'
  BY NextDescribed DEF BackupInv, Numbered, ObjectOffsite, local, Objects
<1>3. Sound(status)'
  BY DEF Sound, Newer, local
<1>4. ASSUME NEW k \in Job PROVE ProcessFits(k, job'[k], remote')
  BY DEF BackupInv, ProcessFits
<1>5. ASSUME NEW k \in Job PROVE ProcessFits(k, job[k], remote)'
  BY <1>4 DEF ProcessFits, ServiceFits, Sound, Newer, local
<1> QED
  BY <1>1, <1>2, <1>3, <1>5 DEF BackupInv

\* One that writes nothing but its own place.
LEMMA TransferMoves ==
  ASSUME BackupInv, NEW j \in Job, UNCHANGED <<local, status, remote>>,
         offsiteFailure' \in BOOLEAN, cipher' \in [RunId -> Job \cup {Null}],
         job' \in [Job -> Process], \A k \in Job \ {j} : job'[k] = job[k],
         ProcessFits(j, job'[j], remote)
  PROVE  BackupInv'
<1>1. /\ status' \in Status /\ Sound(status') /\ (status'.object # Null => remote'[status'.object] # Null)
      /\ \A d \in RunId : remote'[d] # Null => d \in described
      /\ remote' \in Objects
  BY TransferTypes DEF BackupInv, BackupTypeOK, ObjectOffsite
<1>2. ProcessFits(j, job'[j], remote') /\ UNCHANGED local
  OBVIOUS
<1>3. \A d \in RunId : remote[d] # Null => remote'[d] # Null
  OBVIOUS
<1> QED
  BY <1>1, <1>2, <1>3, TransferStep

\* The process goes on to another place, or ends.
LEMMA GoesOn ==
  ASSUME BackupInv, NEW j \in Job, NEW pc \in {"idle"} \cup ServicePc \cup TransferPc, Goes(j, pc)
  PROVE  /\ job' \in [Job -> Process] /\ \A k \in Job \ {j} : job'[k] = job[k]
         /\ job'[j] \in Process /\ job[j] \in Process
         /\ job'[j].pc = pc /\ job'[j].dump = job[j].dump /\ job'[j].verified = job[j].verified
         /\ job'[j].seen = job[j].seen /\ job'[j].exit = job[j].exit
BY DEF BackupInv, BackupTypeOK, Goes, Process

LEMMA NoProcessIsProcess ==
  /\ NoStatus \in Status /\ NoStatus.result = "none" /\ NoStatus.object = Null
  /\ NoProcess \in Process /\ NoProcess.pc = "idle" /\ NoProcess.exit = Null
  /\ NoProcess.dump = Null /\ NoProcess.verified = FALSE /\ NoProcess.seen = NoStatus
  /\ Null \notin {0, 1, 20, 21}
BY BackupAssumption DEF NoProcess, NoStatus, Process, Status

\* A process that takes the place of another, with a dump, or with a dump and an
\* exit code.
LEMMA NewProcess ==
  ASSUME NEW d \in RunId \cup {Null}, NEW pc \in {"idle"} \cup ServicePc \cup TransferPc,
         NEW exit \in {0, 1, 20, 21, Null}
  PROVE  LET p == [NoProcess EXCEPT !.pc = pc, !.dump = d, !.exit = exit]
         IN  /\ p \in Process /\ p.pc = pc /\ p.dump = d /\ p.exit = exit
             /\ p.verified = FALSE /\ p.seen = NoStatus
BY NoProcessIsProcess DEF NoProcess, Process

LEMMA ExitsAs ==
  ASSUME BackupInv, NEW j \in Job, NEW code \in {0, 1, 20, 21}, Exits(j, code)
  PROVE  /\ job' \in [Job -> Process] /\ \A k \in Job \ {j} : job'[k] = job[k]
         /\ job'[j].pc = "idle" /\ job'[j].verified = FALSE
         /\ job'[j].seen = NoStatus /\ job'[j].exit = code
         /\ job'[j].dump = IF code = 0 THEN job[j].dump ELSE Null
<1> DEFINE d == IF code = 0 THEN job[j].dump ELSE Null
           p == [NoProcess EXCEPT !.dump = d, !.exit = code]
<1>1. job' = [job EXCEPT ![j] = p] /\ job \in [Job -> Process]
  BY DEF Exits, BackupInv, BackupTypeOK
<1>2. d \in RunId \cup {Null}
  BY <1>1 DEF Process
<1>3. /\ p \in Process /\ p.pc = "idle" /\ p.verified = FALSE /\ p.seen = NoStatus
      /\ p.exit = code /\ p.dump = d
  <2> HIDE DEF d
  <2> QED
    BY <1>2, NoProcessIsProcess DEF NoProcess, Process
<1> HIDE DEF p
<1>4. job' \in [Job -> Process] /\ job'[j] = p /\ \A k \in Job \ {j} : job'[k] = job[k]
  BY <1>1, <1>3
<1> QED
  BY <1>3, <1>4

LEMMA NoStatusIsSound == Sound(NoStatus)
BY NoProcessIsProcess DEF Sound

\* What a process is about to send is described, so that an object gets a
\* version only of a dump that is.
LEMMA StoresKeeps ==
  ASSUME BackupInv, NEW d \in described, cipher[d] # Null, Stores(d)
  PROVE  /\ remote' \in Objects
         /\ \A e \in RunId : remote[e] # Null => remote'[e] # Null
         /\ \A e \in RunId : remote'[e] # Null => e \in described
<1>0. "operator" \in Job
  BY DEF Job
<1>1. d \in RunId
  BY <1>0, TransferTypes
<1>2. cipher[d] \in Job
  BY <1>0, <1>1, TransferTypes
<1>3. remote' = [remote EXCEPT ![d] = cipher[d]]
  BY DEF Stores
<1>4. /\ remote' \in Objects /\ remote'[d] = cipher[d]
      /\ \A e \in RunId \ {d} : remote'[e] = remote[e]
  BY <1>0, <1>1, <1>2, <1>3, TransferTypes DEF Objects
<1> QED
  BY <1>0, <1>2, <1>4, TransferTypes

LEMMA HandKeeps ==
  ASSUME BackupInv, NEW j \in Job, NEW d \in RunId, Hand(j, d)
  PROVE  BackupInv'
<1> DEFINE p == [NoProcess EXCEPT !.pc = "check", !.dump = d]
<1>1. /\ UNCHANGED <<local, status, offsiteFailure, cipher, remote>>
      /\ job' = [job EXCEPT ![j] = p] /\ job \in [Job -> Process]
      /\ j = "service" => At(j, "offsite") /\ d = job[j].dump
  BY DEF Hand, BackupInv, BackupTypeOK
<1>2. /\ p \in Process /\ p.pc = "check" /\ p.dump = d /\ p.verified = FALSE
      /\ p.seen = NoStatus /\ p.exit = Null
  BY NoProcessIsProcess DEF NoProcess, Process, TransferPc
<1> HIDE DEF p
<1>3. job' \in [Job -> Process] /\ job'[j] = p /\ \A k \in Job \ {j} : job'[k] = job[k]
  BY <1>1, <1>2
<1>4. ProcessFits(j, p, remote)
  <2>1. j = "service" => ServiceFits(p)
    <3> SUFFICES ASSUME j = "service" PROVE ServiceFits(p)
      OBVIOUS
    <3>1. ServiceFits(job[j]) /\ job[j].pc = "offsite" /\ d = job[j].dump
      BY <1>1, TransferTypes DEF ProcessFits, At
    <3> QED
      BY <1>2, <3>1, NoProcessIsProcess DEF ServiceFits, ServicePc, TransferPc
  <2> QED
    BY <1>2, <2>1, NoProcessIsProcess, NoStatusIsSound DEF ProcessFits, TransferPc
<1> QED
  BY <1>1, <1>3, <1>4, TransferMoves, TransferTypes

LEMMA CheckKeeps ==
  ASSUME BackupInv, NEW j \in Job, Check(j) \/ Encrypt(j)
  PROVE  BackupInv'
<1>1. PICK pc \in {"encrypt", "upload"} : Goes(j, pc)
  BY DEF Check, Encrypt
<1>2. /\ UNCHANGED <<local, status, offsiteFailure, remote>> /\ job[j].pc \in {"check", "encrypt"}
      /\ job[j].dump \in described /\ cipher' \in [RunId -> Job \cup {Null}]
  BY TransferTypes DEF Check, Encrypt, At, ProcessFits, TransferPc
<1>3. ProcessFits(j, job'[j], remote)
  <2>1. /\ job'[j].pc = pc /\ job'[j].dump = job[j].dump /\ job'[j].verified = job[j].verified
        /\ job'[j].seen = job[j].seen /\ job'[j].exit = job[j].exit
    BY <1>1, GoesOn DEF TransferPc
  <2> QED
    BY <1>2, <2>1, TransferTypes, NoProcessIsProcess DEF ProcessFits, ServiceFits, ServicePc, TransferPc
<1> QED
  BY <1>1, <1>2, <1>3, GoesOn, TransferMoves, TransferTypes DEF TransferPc

LEMMA EndKeeps ==
  ASSUME BackupInv, NEW j \in Job,
         AlreadyTransferred(j) \/ Refuse(j) \/ Mark(j) \/ UploaderDies(j)
  PROVE  BackupInv'
<1>1. PICK code \in {0, 1, 20} :
         /\ Exits(j, code) /\ job[j].pc \in TransferPc
         /\ code = 0 => job[j].dump \in RunId /\ remote[job[j].dump] # Null
  BY TransferTypes
     DEF AlreadyTransferred, Refuse, Mark, UploaderDies, At, TransferPc, ProcessFits, BackupInv, ObjectOffsite
<1>2. /\ UNCHANGED <<local, status, remote>> /\ offsiteFailure' \in BOOLEAN
      /\ cipher' \in [RunId -> Job \cup {Null}]
  <2>1. offsiteFailure \in BOOLEAN /\ job[j].verified \in BOOLEAN
    BY TransferTypes DEF Process
  <2> QED
    BY <2>1, TransferTypes DEF AlreadyTransferred, Refuse, Mark, UploaderDies
<1>3. ProcessFits(j, job'[j], remote)
  <2>1. /\ job'[j].pc = "idle" /\ job'[j].verified = FALSE /\ job'[j].seen = NoStatus
        /\ job'[j].exit = code /\ (code = 0 => job'[j].dump = job[j].dump)
    BY <1>1, ExitsAs
  <2>2. j = "service" => ServiceFits(job'[j])
    BY <1>1, <2>1, TransferTypes DEF ProcessFits, ServiceFits, ServicePc, TransferPc
  <2> QED
    BY <1>1, <2>1, <2>2, NoStatusIsSound DEF ProcessFits, TransferPc
<1> QED
  BY <1>1, <1>2, <1>3, ExitsAs, TransferMoves

\* The steps at the object store.
LEMMA UploadKeeps ==
  ASSUME BackupInv, NEW j \in Job, Upload(j) \/ UploadAgain(j) \/ Verify(j) \/ TransferFails(j)
  PROVE  BackupInv'
<1> DEFINE d == job[j].dump
<1>1. /\ UNCHANGED <<local, status, offsiteFailure, cipher>>
      /\ job[j].pc \in {"encrypt", "upload", "verify"} /\ d \in described
  BY TransferTypes
     DEF Upload, UploadAgain, Verify, TransferFails, At, ProcessFits, TransferPc
<1>2. UNCHANGED remote \/ (cipher[d] # Null /\ Stores(d))
  BY DEF Upload, UploadAgain, Verify, TransferFails
<1>3. /\ remote' \in Objects
      /\ \A e \in RunId : remote[e] # Null => remote'[e] # Null
      /\ \A e \in RunId : remote'[e] # Null => e \in described
  BY <1>1, <1>2, StoresKeeps, TransferTypes
<1>4. /\ job' \in [Job -> Process] /\ \A k \in Job \ {j} : job'[k] = job[k]
      /\ job'[j].pc \in {"upload", "verify", "read"} /\ job'[j].dump = d
      /\ job'[j].seen = job[j].seen /\ job'[j].exit = job[j].exit
      /\ job'[j].verified = (job[j].verified \/ Verify(j))
  <2>1. job \in [Job -> Process] /\ job[j].verified \in BOOLEAN /\ job[j].tries \in 0 .. MaxRetries
    BY DEF BackupInv, BackupTypeOK, Process
  <2>2. CASE Upload(j)
    <3>1. job' = [job EXCEPT ![j].pc = "verify", ![j].tries = 0] /\ job[j].pc = "upload"
      BY <2>2 DEF Upload, At
    <3>2. ~Verify(j)
      BY <3>1 DEF Verify, At
    <3>3. 0 \in 0 .. MaxRetries
      BY BackupAssumption
    <3> QED
      BY <2>1, <3>1, <3>2, <3>3 DEF Process, TransferPc
  <2>3. CASE UploadAgain(j)
    <3>1. job' = [job EXCEPT ![j].tries = job[j].tries + 1] /\ job[j].pc = "upload"
      BY <2>1, <2>3 DEF UploadAgain, At
    <3>2. ~Verify(j)
      BY <3>1 DEF Verify, At
    <3>3. job[j].tries + 1 \in 0 .. MaxRetries
      BY <2>1, <2>3, BackupAssumption DEF UploadAgain
    <3> QED
      BY <2>1, <3>1, <3>2, <3>3 DEF Process, TransferPc
  <2>4. CASE Verify(j)
    <3>1. job' = [job EXCEPT ![j].pc = "read", ![j].verified = TRUE]
      BY <2>4 DEF Verify
    <3> QED
      BY <2>1, <2>4, <3>1 DEF Process, TransferPc
  <2>5. CASE TransferFails(j) /\ ~Verify(j)
    <3>1. job' = [job EXCEPT ![j].pc = "read", ![j].tries = 0]
      BY <2>5 DEF TransferFails
    <3>3. 0 \in 0 .. MaxRetries
      BY BackupAssumption
    <3> QED
      BY <2>1, <2>5, <3>1, <3>3 DEF Process, TransferPc
  <2> QED
    BY <2>2, <2>3, <2>4, <2>5
<1>5. ProcessFits(j, job'[j], remote')
  <2>1. job'[j].verified => d \in RunId /\ remote'[d] # Null
    <3>1. CASE job[j].verified
      BY <1>3, <3>1, TransferTypes DEF ProcessFits
    <3>2. CASE Verify(j)
      BY <1>1, <1>3, <3>2, TransferTypes DEF Verify
    <3> QED
      BY <1>4, <3>1, <3>2
  <2>2. j = "service" => ServiceFits(job'[j])
    BY <1>1, <1>4, TransferTypes DEF ProcessFits, ServiceFits, ServicePc, TransferPc
  <2> QED
    BY <1>1, <1>4, <2>1, <2>2, TransferTypes, NoProcessIsProcess DEF ProcessFits, TransferPc
<1>6. status.object # Null => remote'[status.object] # Null
  BY <1>3, TransferTypes DEF BackupInv, ObjectOffsite, Status
<1>7. /\ UNCHANGED local /\ offsiteFailure' \in BOOLEAN /\ cipher' \in [RunId -> Job \cup {Null}]
      /\ status' \in Status /\ Sound(status') /\ (status'.object # Null => remote'[status'.object] # Null)
  BY <1>1, <1>6, TransferTypes
<1> QED
  BY <1>3, <1>4, <1>5, <1>7, TransferStep

LEMMA ReadStatusKeeps ==
  ASSUME BackupInv, NEW j \in Job, ReadStatus(j)
  PROVE  BackupInv'
<1> DEFINE seen == IF status.result = "torn" THEN NoStatus ELSE status
<1>1. seen \in Status /\ Sound(seen)
  BY TransferTypes, NoStatusIsSound, NoProcessIsProcess
<1>2. /\ UNCHANGED <<local, status, offsiteFailure, cipher, remote>> /\ job[j].pc = "read"
      /\ job' = [job EXCEPT ![j].pc = "merge", ![j].seen = seen] /\ job \in [Job -> Process]
  BY DEF ReadStatus, At, BackupInv, BackupTypeOK
<1> HIDE DEF seen
<1>3. /\ job' \in [Job -> Process] /\ \A k \in Job \ {j} : job'[k] = job[k]
      /\ job'[j].pc = "merge" /\ job'[j].dump = job[j].dump /\ job'[j].seen = seen
      /\ job'[j].exit = job[j].exit /\ job'[j].verified = job[j].verified
  BY <1>1, <1>2 DEF Process, TransferPc
<1>4. ProcessFits(j, job'[j], remote)
  BY <1>1, <1>2, <1>3, TransferTypes, NoProcessIsProcess DEF ProcessFits, ServiceFits, ServicePc, TransferPc
<1> QED
  BY <1>2, <1>3, <1>4, TransferMoves, TransferTypes

\* What is merged is what was read, which has stayed sound.
LEMMA MergeStatusKeeps ==
  ASSUME BackupInv, NEW j \in Job, MergeStatus(j)
  PROVE  BackupInv'
<1> DEFINE merged == [job[j].seen EXCEPT
                         !.offsite = IF job[j].verified THEN "ok" ELSE "failed",
                         !.object = IF job[j].verified THEN job[j].dump ELSE Null]
<1>1. /\ UNCHANGED <<local, offsiteFailure, cipher, remote>> /\ job[j].pc = "merge"
      /\ job' = [job EXCEPT ![j].pc = "mark", ![j].seen = NoStatus] /\ job \in [Job -> Process]
      /\ status' = merged \/ status' = status
  BY DEF MergeStatus, At, BackupInv, BackupTypeOK
<1>2. /\ job' \in [Job -> Process] /\ \A k \in Job \ {j} : job'[k] = job[k]
      /\ job'[j].pc = "mark" /\ job'[j].dump = job[j].dump /\ job'[j].seen = NoStatus
      /\ job'[j].exit = job[j].exit /\ job'[j].verified = job[j].verified
  <2>1. PICK p : p = [job[j] EXCEPT !.pc = "mark", !.seen = NoStatus]
    OBVIOUS
  <2>2. job' = [job EXCEPT ![j] = p]
    BY <1>1, <2>1
  <2>3. job[j] \in Process /\ NoStatus \in Status
    BY <1>1, NoProcessIsProcess
  <2>4. /\ p \in Process /\ p.pc = "mark" /\ p.dump = job[j].dump /\ p.seen = NoStatus
        /\ p.exit = job[j].exit /\ p.verified = job[j].verified
    BY <2>1, <2>3 DEF Process, TransferPc
  <2> QED
    BY <1>1, <2>2, <2>4
<1>3. ProcessFits(j, job'[j], remote)
  BY <1>1, <1>2, TransferTypes, NoStatusIsSound, NoProcessIsProcess
     DEF ProcessFits, ServiceFits, ServicePc, TransferPc
<1>4. /\ merged \in Status /\ merged.result = job[j].seen.result /\ merged.dump = job[j].seen.dump
      /\ merged.object = IF job[j].verified THEN job[j].dump ELSE Null
  BY TransferTypes DEF Process, Status
<1>5. Sound(merged) /\ (merged.object # Null => remote[merged.object] # Null)
  BY <1>4, TransferTypes DEF Sound, ProcessFits
<1> HIDE DEF merged
<1>6. /\ status' \in Status /\ Sound(status')
      /\ (status'.object # Null => remote'[status'.object] # Null)
  BY <1>1, <1>4, <1>5, TransferTypes DEF BackupInv, ObjectOffsite
<1>7. /\ UNCHANGED local /\ offsiteFailure' \in BOOLEAN /\ cipher' \in [RunId -> Job \cup {Null}]
      /\ remote' \in Objects
      /\ \A d \in RunId : remote[d] # Null => remote'[d] # Null
      /\ \A d \in RunId : remote'[d] # Null => d \in described
      /\ ProcessFits(j, job'[j], remote')
  BY <1>1, <1>3, TransferTypes
<1> QED
  BY <1>2, <1>6, <1>7, TransferStep

\* An object that expires is one that left the host.
LEMMA ExpireKeeps ==
  ASSUME BackupInv, NEW d \in RunId, Expire(d)
  PROVE  BackupInv'
<1> DEFINE j == "operator"
<1>1. /\ UNCHANGED <<local, status, offsiteFailure, cipher, job>> /\ remote[d] # Null
      /\ remote' = [remote EXCEPT ![d] = "expired"] /\ j \in Job
  BY BackupAssumption DEF Expire, Stored, Job
<1>2. /\ remote' \in Objects
      /\ \A e \in RunId : remote[e] # Null <=> remote'[e] # Null
  BY <1>1, TransferTypes, BackupAssumption DEF Objects
<1>3. ProcessFits(j, job'[j], remote')
  BY <1>1, <1>2, TransferTypes DEF ProcessFits
<1>4. /\ status' \in Status /\ Sound(status')
      /\ (status'.object # Null => remote'[status'.object] # Null)
  BY <1>1, <1>2, TransferTypes DEF BackupInv, ObjectOffsite, Status
<1>5. /\ job' \in [Job -> Process] /\ \A k \in Job \ {j} : job'[k] = job[k]
      /\ \A e \in RunId : remote'[e] # Null => e \in described
  BY <1>1, <1>2, TransferTypes DEF BackupInv, BackupTypeOK
<1> QED
  BY <1>1, <1>2, <1>3, <1>4, <1>5, TransferStep, TransferTypes

LEMMA CrashKeeps ==
  ASSUME BackupInv, NEW j \in Job, Crash(j)
  PROVE  BackupInv'
<1>1. /\ UNCHANGED <<local, status, offsiteFailure, cipher, remote>>
      /\ job' = [job EXCEPT ![j] = NoProcess] /\ job \in [Job -> Process]
  BY DEF Crash, BackupInv, BackupTypeOK
<1>2. job' \in [Job -> Process] /\ job'[j] = NoProcess /\ \A k \in Job \ {j} : job'[k] = job[k]
  BY <1>1, NoProcessIsProcess
<1>3. ProcessFits(j, NoProcess, remote)
  BY NoProcessIsProcess, NoStatusIsSound DEF ProcessFits, ServiceFits, ServicePc, TransferPc
<1> QED
  BY <1>1, <1>2, <1>3, TransferMoves, TransferTypes

-----------------------------------------------------------------------------
(* A step of the local stage leaves alone what is off site and the other    *)
(* process, and gives up only dumps that retention does.                    *)

LEMMA ServiceStep ==
  ASSUME BackupInv, UNCHANGED <<offsiteFailure, cipher, remote>>,
         job' \in [Job -> Process], job'["operator"] = job["operator"],
         started' \in 0 .. MaxRuns, Numbered', dumps' \subseteq RunId, described' \subseteq RunId,
         failure' \in RunId \cup {Null},
         dumps \ Beyond \subseteq dumps', described \subseteq described',
         status' = status \/ (status' \in Status /\ Sound(status)' /\ status'.object = Null),
         job'["service"].verified = FALSE, job'["service"].seen = NoStatus,
         job'["service"].pc \in {"idle"} \cup ServicePc,
         job'["service"].pc # "idle" => job'["service"].exit = Null,
         job'["service"].exit # 0,
         ServiceFits(job["service"])'
  PROVE  BackupInv'
<1>1. BackupTypeOK'
  BY DEF BackupInv, BackupTypeOK
<1>2. \A s : Sound(s) => Sound(s)'
  BY <1>1, SoundStays DEF BackupInv
<1>3. Sound(status)'
  <2>1. CASE status' = status
    <3>1. Sound(status)
      BY DEF BackupInv
    <3> QED
      BY <1>2, <2>1, <3>1 DEF Sound
  <2>2. CASE status' # status
    BY <2>2
  <2> QED
    BY <2>1, <2>2
<1>4. ObjectOffsite' /\ RemoteWasDescribed'
  BY DEF BackupInv, ObjectOffsite, RemoteWasDescribed, Stored, Expired
<1>5. ProcessFits("service", job["service"], remote)'
  BY NoProcessIsProcess DEF ProcessFits, Sound, ServicePc, TransferPc
<1>6. ProcessFits("operator", job["operator"], remote)'
  <2> DEFINE seen == job["operator"].seen
  <2>1. ProcessFits("operator", job["operator"], remote)
    BY DEF BackupInv, Job
  <2>2. Sound(seen)'
    BY <1>2, <2>1 DEF ProcessFits, Sound
  <2> QED
    BY <2>1, <2>2 DEF ProcessFits
<1> QED
  BY <1>1, <1>3, <1>4, <1>5, <1>6 DEF BackupInv, Job

LEMMA ServiceKnows ==
  ASSUME BackupInv
  PROVE  /\ job \in [Job -> Process] /\ "service" \in Job /\ "operator" \in Job
         /\ job["service"] \in Process /\ ServiceFits(job["service"])
         /\ job["service"].pc # "idle" => job["service"].exit = Null
         /\ started \in 0 .. MaxRuns /\ 0 .. MaxRuns \subseteq Nat /\ dumps \subseteq RunId /\ described \subseteq RunId
         /\ failure \in RunId \cup {Null} /\ Null \notin RunId
BY BackupAssumption DEF BackupInv, BackupTypeOK, ProcessFits, Job, RunId

\* The newest dump is the run's own.
LEMMA NewestIsOwn ==
  ASSUME BackupInv, started \in dumps
  PROVE  Newest = started /\ started \notin Beyond
<1>1. started \in Nat /\ dumps \subseteq 1 .. started
  BY ServiceKnows DEF BackupInv, Numbered
<1>2. \A d \in dumps : d \in Nat /\ d <= started
  BY <1>1
<1>3. Newer(started) = {}
  <2>1. \A d \in dumps : ~(d > started)
    BY <1>1, <1>2
  <2> QED
    BY <2>1 DEF Newer
<1>4. \A d \in dumps : Newer(d) = {} => d = started
  BY <1>1, <1>2 DEF Newer
<1>5. Cardinality(Newer(started)) = 0
  BY <1>3, FS_EmptySet
<1> QED
  BY <1>3, <1>4, <1>5, BackupAssumption DEF Newest, Beyond

LEMMA BeginKeeps ==
  ASSUME BackupInv, Begin
  PROVE  BackupInv'
<1>1. /\ UNCHANGED <<dumps, described, failure, status, offsiteFailure, cipher, remote>>
      /\ started < MaxRuns /\ started' = started + 1
  BY DEF Begin
<1>2. started' \in RunId /\ started' \in 0 .. MaxRuns /\ started' > started
  BY <1>1, ServiceKnows, BackupAssumption DEF RunId
<1>3. Numbered'
  <2>1. 1 .. started \subseteq 1 .. started'
    BY <1>1, ServiceKnows
  <2>2. failure # Null => failure \in Nat /\ failure <= started /\ failure < started'
    BY <1>1, ServiceKnows DEF BackupInv, Numbered, RunId
  <2> QED
    BY <1>1, <2>1, <2>2, ServiceKnows DEF BackupInv, Numbered
<1>4. PICK p \in Process :
        /\ job' = [job EXCEPT !["service"] = p]
        /\ p.verified = FALSE /\ p.seen = NoStatus /\ p.dump = Null
        /\ \/ p.pc = "dump" /\ p.exit = Null
           \/ p.pc = "idle" /\ p.exit = 1
  <2> DEFINE p == [NoProcess EXCEPT !.pc = "dump"]
             r == [NoProcess EXCEPT !.exit = 1]
  <2>1. /\ p \in Process /\ p.verified = FALSE /\ p.seen = NoStatus /\ p.dump = Null
        /\ p.pc = "dump" /\ p.exit = Null
    BY NoProcessIsProcess DEF NoProcess, Process, ServicePc
  <2>2. /\ r \in Process /\ r.verified = FALSE /\ r.seen = NoStatus /\ r.dump = Null
        /\ r.pc = "idle" /\ r.exit = 1
    BY NoProcessIsProcess DEF NoProcess, Process
  <2>3. job' = [job EXCEPT !["service"] = p] \/ job' = [job EXCEPT !["service"] = r]
    BY DEF Begin
  <2> HIDE DEF p, r
  <2> QED
    BY <2>1, <2>2, <2>3
<1>5. job' \in [Job -> Process] /\ job'["service"] = p /\ job'["operator"] = job["operator"]
  BY <1>4, ServiceKnows
<1>6. failure' # Null => failure' < started'
  <2>1. failure # Null => failure \in Nat /\ failure <= started
    BY ServiceKnows DEF BackupInv, Numbered, RunId
  <2> QED
    BY <1>1, <2>1, ServiceKnows
<1>7. ServiceFits(job["service"])'
  <2>1. CASE p.pc = "dump" /\ p.exit = Null
    <3>1. p.exit \notin {0, 20, 21}
      BY <2>1, NoProcessIsProcess
    <3> QED
      BY <1>2, <1>4, <1>5, <1>6, <2>1, <3>1 DEF ServiceFits, ServicePc, TransferPc
  <2>2. CASE p.pc = "idle" /\ p.exit = 1
    <3>1. p.exit \notin {0, 20, 21}
      BY <2>2
    <3> QED
      BY <1>5, <2>2, <3>1 DEF ServiceFits, ServicePc, TransferPc
  <2> QED
    BY <1>4, <2>1, <2>2
<1>8. /\ failure' \in RunId \cup {Null} /\ dumps' \subseteq RunId /\ described' \subseteq RunId
      /\ described \subseteq described' /\ dumps \ Beyond \subseteq dumps'
  BY <1>1, ServiceKnows
<1>9. p.exit # 0 /\ p.pc \in {"idle"} \cup ServicePc /\ (p.pc # "idle" => p.exit = Null)
  BY <1>4, NoProcessIsProcess DEF ServicePc
<1> QED
  BY <1>1, <1>2, <1>3, <1>4, <1>5, <1>7, <1>8, <1>9, ServiceStep

\* The ends of a run short of the off-site stage.
LEMMA ServiceEndKeeps ==
  ASSUME BackupInv, DumpFails \/ Degrade \/ OffsiteMissing
  PROVE  BackupInv'
<1> DEFINE p == job["service"]
<1>1. PICK code \in {1, 21} : Exits("service", code) /\ (code = 21 => p.pc = "offsite")
  BY DEF DumpFails, Degrade, OffsiteMissing, At
<1>2. /\ UNCHANGED <<started, described, offsiteFailure, cipher, remote>>
      /\ dumps \ Beyond \subseteq dumps' /\ dumps' \subseteq dumps /\ p.pc \in ServicePc
      /\ failure' \in {failure, started} /\ (p.pc = "offsite" => dumps' = dumps)
  BY DEF DumpFails, Degrade, OffsiteMissing, local, At, ServicePc
<1>3. started \in RunId
  BY <1>2, ServiceKnows DEF ServiceFits
<1>4. Numbered'
  BY <1>2, <1>3, ServiceKnows DEF BackupInv, Numbered, RunId
<1>5. status' = status \/ (status' \in Status /\ Sound(status)' /\ status'.object = Null)
  <2>1. CASE Degrade
    <3> DEFINE s == [NoStatus EXCEPT !.result = "degraded", !.dump = p.dump]
    <3>1. p.dump \in RunId \cup {Null}
      BY ServiceKnows DEF Process
    <3>2. s \in Status /\ s.result = "degraded" /\ s.object = Null
      BY <3>1 DEF NoStatus, Status
    <3>3. status' = s
      BY <2>1 DEF Degrade
    <3> HIDE DEF s
    <3> QED
      BY <3>2, <3>3 DEF Sound
  <2> QED
    BY <2>1 DEF DumpFails, OffsiteMissing
<1>6. /\ job' \in [Job -> Process] /\ job'["operator"] = job["operator"]
      /\ job'["service"].pc = "idle" /\ job'["service"].verified = FALSE
      /\ job'["service"].seen = NoStatus /\ job'["service"].exit = code
  <2>1. "service" \in Job /\ "operator" \in Job \ {"service"} /\ code \in {0, 1, 20, 21}
    BY <1>1 DEF Job
  <2> QED
    BY <1>1, <2>1, ExitsAs
<1>7. ServiceFits(job["service"])'
  <2>1. code = 21 => started' \in dumps' \cap described'
    BY <1>1, <1>2, ServiceKnows DEF ServiceFits, ServicePc
  <2>2. code \in {0, 20, 21} => code = 21
    BY <1>1
  <2> QED
    BY <1>6, <2>1, <2>2 DEF ServiceFits, ServicePc, TransferPc
<1>8. failure' \in RunId \cup {Null} /\ started' \in 0 .. MaxRuns /\ dumps' \subseteq RunId
      /\ described' \subseteq RunId /\ described \subseteq described'
  BY <1>2, <1>3, ServiceKnows
<1>9. code # 0
  BY <1>1
<1> QED
  BY <1>2, <1>4, <1>5, <1>6, <1>7, <1>8, <1>9, ServiceStep

\* From one place of the run to the next.
LEMMA ServiceGoesKeeps ==
  ASSUME BackupInv, Publish \/ Prune \/ TruncateStatus \/ WriteStatus \/ ClearFailure
  PROVE  BackupInv'
<1> DEFINE p == job["service"]
<1>1. /\ UNCHANGED <<started, described, offsiteFailure, cipher, remote>>
      /\ failure' \in {failure, Null} /\ p.pc \in {"dump", "prune", "status", "write", "clear"}
  BY DEF Publish, Prune, TruncateStatus, WriteStatus, ClearFailure, local, At
<1>2. started \in RunId /\ p.verified = FALSE /\ p.seen = NoStatus /\ p.exit = Null
  BY <1>1, ServiceKnows DEF ServiceFits, ServicePc, Process
<1>3. PICK pc \in {"prune", "manifest", "write", "clear", "offsite"} :
        /\ Goes("service", pc)
        /\ pc = "prune" => p.pc = "dump" /\ dumps' = dumps \cup {started}
        /\ pc = "manifest" => p.pc = "prune" /\ dumps' = dumps \ Beyond
        /\ pc = "write" => p.pc = "status" /\ dumps' = dumps
        /\ pc = "clear" => p.pc = "write" /\ dumps' = dumps
        /\ pc = "offsite" => p.pc = "clear" /\ dumps' = dumps
  BY DEF Publish, Prune, TruncateStatus, WriteStatus, ClearFailure, local, At
<1>4. /\ job' \in [Job -> Process] /\ job'["operator"] = job["operator"]
      /\ job'["service"].pc = pc /\ job'["service"].dump = p.dump
      /\ job'["service"].verified = FALSE /\ job'["service"].seen = NoStatus
      /\ job'["service"].exit = Null
  BY <1>2, <1>3, GoesOn, ServiceKnows DEF ServicePc
<1>5. dumps \ Beyond \subseteq dumps' /\ dumps' \subseteq dumps \cup {started}
  BY <1>3
<1>6. Numbered'
  BY <1>1, <1>2, <1>5, ServiceKnows DEF BackupInv, Numbered, RunId
<1>7. ServiceFits(job["service"])'
  <2>1. pc \in {"prune", "manifest", "write", "clear", "offsite"} => started \in dumps'
    BY <1>1, <1>3, NewestIsOwn, ServiceKnows DEF ServiceFits, ServicePc
  <2>2. pc # "offsite" /\ failure' # Null => failure' < started'
    BY <1>1, <1>3, ServiceKnows DEF ServiceFits, ServicePc
  <2> QED
    BY <1>1, <1>2, <1>3, <1>4, <2>1, <2>2, ServiceKnows, NoProcessIsProcess
       DEF ServiceFits, ServicePc, TransferPc
<1>8. status' = status \/ (status' \in Status /\ Sound(status)' /\ status'.object = Null)
  <2>1. CASE TruncateStatus
    <3> DEFINE s == [NoStatus EXCEPT !.result = "torn"]
    <3>1. s \in Status /\ s.result = "torn" /\ s.object = Null
      BY DEF NoStatus, Status
    <3>2. status' = s
      BY <2>1 DEF TruncateStatus
    <3> HIDE DEF s
    <3> QED
      BY <3>1, <3>2 DEF Sound
  <2>2. CASE WriteStatus
    <3>1. status' = [result |-> "ok", dump |-> p.dump, offsite |-> "not_configured", object |-> Null]
      BY <2>2 DEF WriteStatus
    <3>2. p.dump = started /\ started \in dumps /\ started \in described /\ UNCHANGED <<dumps, described>>
      BY <2>2, ServiceKnows DEF WriteStatus, At, local, ServiceFits, ServicePc
    <3> QED
      BY <1>2, <3>1, <3>2 DEF Sound, Status
  <2> QED
    BY <2>1, <2>2 DEF Publish, Prune, TruncateStatus, WriteStatus, ClearFailure
<1>9. failure' \in RunId \cup {Null} /\ started' \in 0 .. MaxRuns /\ dumps' \subseteq RunId
      /\ described' \subseteq RunId /\ described \subseteq described'
  BY <1>1, <1>2, <1>5, ServiceKnows
<1> QED
  BY <1>1, <1>4, <1>5, <1>6, <1>7, <1>8, <1>9, ServiceStep, NoProcessIsProcess DEF ServicePc

\* The manifest is of the run's own dump.
LEMMA DescribeKeeps ==
  ASSUME BackupInv, Describe \/ ManifestFails
  PROVE  BackupInv'
<1> DEFINE p == job["service"]
<1>1. /\ UNCHANGED <<started, dumps, failure, offsiteFailure, cipher, remote>>
      /\ p.pc = "manifest" /\ described' \in {described, described \cup {Newest}}
  BY DEF Describe, ManifestFails, local, At
<1>2. /\ started \in RunId /\ started \in dumps /\ p.verified = FALSE /\ p.seen = NoStatus
      /\ p.exit = Null /\ Newest = started /\ (failure # Null => failure < started)
  BY <1>1, ServiceKnows, NewestIsOwn DEF ServiceFits, ServicePc, Process
<1>3. PICK pc \in {"status", "degrade"} :
        /\ job' = [job EXCEPT !["service"].pc = pc, !["service"].dump = started]
        /\ pc = "status" => described' = described \cup {started}
  BY <1>2 DEF Describe, ManifestFails
<1>4. /\ job' \in [Job -> Process] /\ job'["operator"] = job["operator"]
      /\ job'["service"].pc = pc /\ job'["service"].dump = started
      /\ job'["service"].verified = FALSE /\ job'["service"].seen = NoStatus
      /\ job'["service"].exit = Null
  BY <1>2, <1>3, ServiceKnows DEF Process, ServicePc
<1>5. Numbered'
  BY <1>1, <1>2, ServiceKnows DEF BackupInv, Numbered, RunId
<1>6. ServiceFits(job["service"])'
  BY <1>1, <1>2, <1>3, <1>4, NoProcessIsProcess DEF ServiceFits, ServicePc, TransferPc
<1>7. status' = status \/ (status' \in Status /\ Sound(status)' /\ status'.object = Null)
  <2>1. CASE ManifestFails
    <3> DEFINE s == [NoStatus EXCEPT !.result = "torn"]
    <3>1. s \in Status /\ s.result = "torn" /\ s.object = Null
      BY DEF NoStatus, Status
    <3>2. status' = s
      BY <2>1 DEF ManifestFails
    <3> HIDE DEF s
    <3> QED
      BY <3>1, <3>2 DEF Sound
  <2> QED
    BY <2>1 DEF Describe
<1>8. failure' \in RunId \cup {Null} /\ started' \in 0 .. MaxRuns /\ dumps' \subseteq RunId
      /\ described' \subseteq RunId /\ described \subseteq described' /\ dumps \ Beyond \subseteq dumps'
  BY <1>1, <1>2, ServiceKnows
<1> QED
  BY <1>1, <1>4, <1>5, <1>6, <1>7, <1>8, ServiceStep, NoProcessIsProcess DEF ServicePc

LEMMA StutterKeeps ==
  ASSUME BackupInv, UNCHANGED backupVars
  PROVE  BackupInv'
BY DEF backupVars, local, BackupInv, BackupTypeOK, Numbered, Sound, ObjectOffsite, RemoteWasDescribed,
   Stored, Expired, ProcessFits, ServiceFits, Newer

-----------------------------------------------------------------------------
(* The theorems. *)

\* The processes know what their files say, and the files say what is so.
THEOREM BackupInvariant == BackupSpec => []BackupInv
<1>1. BackupInit => BackupInv
  <2> SUFFICES ASSUME BackupInit PROVE BackupInv
    OBVIOUS
  <2>1. BackupTypeOK
    <3>1. /\ job \in [Job -> Process] /\ cipher \in [RunId -> Job \cup {Null}]
          /\ remote \in Objects /\ status \in Status
      BY NoProcessIsProcess DEF BackupInit, Objects
    <3>2. started \in 0 .. MaxRuns
      BY BackupAssumption DEF BackupInit
    <3> QED
      BY <3>1, <3>2 DEF BackupInit, BackupTypeOK
  <2>2. \A j \in Job : ProcessFits(j, NoProcess, remote)
    BY NoProcessIsProcess, NoStatusIsSound DEF ProcessFits, ServiceFits, ServicePc, TransferPc
  <2>3. Numbered /\ Sound(status) /\ ObjectOffsite /\ RemoteWasDescribed
    BY <2>1, NoStatusIsSound, NoProcessIsProcess, OffsiteDescribed
       DEF BackupInit, BackupTypeOK, Numbered, ObjectOffsite
  <2> QED
    BY <2>1, <2>2, <2>3 DEF BackupInv, BackupInit
<1>2. BackupInv /\ [BackupNext]_backupVars => BackupInv'
  BY HandKeeps, CheckKeeps, EndKeeps, UploadKeeps, ReadStatusKeeps, MergeStatusKeeps, CrashKeeps,
     ExpireKeeps, BeginKeeps, ServiceEndKeeps, ServiceGoesKeeps, DescribeKeeps, StutterKeeps
     DEF BackupNext, Service, Transfer
<1> QED
  BY <1>1, <1>2, PTL DEF BackupSpec

\* Files, markers and processes keep their shapes.
THEOREM BackupTypeCorrect == BackupSpec => []BackupTypeOK
<1>1. BackupInv => BackupTypeOK
  BY DEF BackupInv
<1> QED
  BY <1>1, BackupInvariant, PTL

\* Whatever died and whichever update of the status file was overwritten, the
\* dump that it calls ok was described, and the object it names is stored, unless
\* its time in the bucket is up.
THEOREM StatusIsTruthful == BackupSpec => []StatusTruthful
<1>1. BackupInv => StatusTruthful
  <2> SUFFICES ASSUME BackupInv PROVE StatusTruthful
    OBVIOUS
  <2>1. status.result = "ok" => status.dump \in described
    BY DEF BackupInv, Sound
  <2>2. status.object # Null => Stored(status.object) \/ Expired(status.object)
    BY TransferTypes, OffsiteOnce DEF BackupInv, ObjectOffsite, Status, Job
  <2> QED
    BY <2>1, <2>2 DEF StatusTruthful
<1> QED
  BY <1>1, BackupInvariant, PTL

\* Exit status 0 stands for a copy that left the host, and 20 and 21 for a dump and a
\* manifest on it.
THEOREM ExitStatusIsTruthful == BackupSpec => []ExitStatusTruthful
<1>1. BackupInv => ExitStatusTruthful
  <2> SUFFICES ASSUME BackupInv PROVE ExitStatusTruthful
    OBVIOUS
  <2>1. ASSUME NEW j \in Job, job[j].exit = 0 PROVE Stored(job[j].dump) \/ Expired(job[j].dump)
    BY <2>1, TransferTypes, OffsiteOnce DEF ProcessFits
  <2>2. job["service"].exit \in {0, 20, 21} => started \in dumps \cap described
    BY DEF BackupInv, ProcessFits, ServiceFits, Job
  <2> QED
    BY <2>1, <2>2 DEF ExitStatusTruthful
<1> QED
  BY <1>1, BackupInvariant, PTL

\* No dump leaves the host before its checks have passed.
THEOREM OnlyDescribedLeave == BackupSpec => []RemoteWasDescribed
<1>1. BackupInv => RemoteWasDescribed
  BY DEF BackupInv
<1> QED
  BY <1>1, BackupInvariant, PTL

\* Retention keeps, of the runs that succeeded, the Keep newest, for any Keep.
THEOREM RetentionIsSafe == BackupSpec => []RetentionKeepsNewest
<1>1. BackupInv => RetentionKeepsNewest
  <2> SUFFICES ASSUME BackupInv PROVE RetentionKeepsNewest
    OBVIOUS
  <2>1. status.result = "ok" => status.dump \in dumps \/ Cardinality(Newer(status.dump)) >= Keep
    BY DEF BackupInv, Sound
  <2>2. ~At("service", "idle") /\ job["service"].dump # Null =>
            job["service"].dump = started /\ started \in dumps
    BY ServiceKnows DEF ServiceFits, At, Process, ServicePc, TransferPc
  <2> QED
    BY <2>1, <2>2 DEF RetentionKeepsNewest
<1> QED
  BY <1>1, BackupInvariant, PTL

\* The marker of a failure goes only when a later run has its dump and manifest.
THEOREM FailureIsCleared == BackupSpec => FailureClearedByBackup
<1>1. BackupInv /\ [BackupNext]_backupVars =>
        [failure # Null /\ failure' = Null => \E d \in dumps \cap described : d > failure]_backupVars
  <2> SUFFICES ASSUME BackupInv, BackupNext, failure # Null, failure' = Null
               PROVE  \E d \in dumps \cap described : d > failure
    OBVIOUS
  <2>1. CASE ClearFailure
    <3>1. started \in dumps \cap described /\ failure < started
      BY <2>1, ServiceKnows DEF ClearFailure, At, ServiceFits, ServicePc
    <3>2. started \in Nat /\ failure \in Nat
      BY ServiceKnows DEF RunId
    <3> QED
      BY <3>1, <3>2
  <2>2. CASE failure' = failure \/ failure' = started
    <3>1. started # Null
      BY BackupAssumption, ServiceKnows
    <3> QED
      BY <2>2, <3>1
  <2> QED
    BY <2>1, <2>2
       DEF BackupNext, Service, Transfer, Begin, DumpFails, Publish, Prune, Describe, ManifestFails, Degrade,
       TruncateStatus, WriteStatus, OffsiteMissing, Hand, Check, AlreadyTransferred, Refuse, Encrypt,
       Upload, UploadAgain, Verify, TransferFails, ReadStatus, MergeStatus, Mark, UploaderDies, Crash, Expire, local
<1> QED
  BY <1>1, BackupInvariant, PTL DEF BackupSpec, FailureClearedByBackup
=============================================================================
