----------------------------- MODULE BackupRun -----------------------------
(***************************************************************************)
(* The backup pipeline: libris-backup-run, which systemd starts one at a   *)
(* time, makes a dump, describes it in a manifest, records the result and  *)
(* hands the dump to backup-offsite-run.sh, whose uploader encrypts it,    *)
(* uploads it, reads it back and merges the outcome into the status file.  *)
(* An operator may run the off-site stage by hand for any dump, also while *)
(* a run is under way.  Each may die at any step, and the bucket keeps an  *)
(* object for some 30 days only.                                           *)
(*                                                                         *)
(* A run's number stands for its dump, the dump's manifest and the object  *)
(* off site, whose names all derive from the time the run started.         *)
(***************************************************************************)
EXTENDS Naturals, FiniteSets

CONSTANTS
    MaxRuns,      \* bound: how many runs the timer starts
    Keep,         \* LIBRIS_BACKUP_KEEP
    MaxRetries,   \* attempts of the uploader
    Null          \* no run, no exit code, no process

ASSUME BackupAssumption ==
    /\ MaxRuns \in Nat /\ Keep \in Nat \ {0} /\ MaxRetries \in Nat \ {0}
    /\ Null \notin Nat \cup {"service", "operator", "expired"}

VARIABLES
    started,      \* how many runs have started
    dumps,        \* the complete dumps in the backup directory
    described,    \* the dumps that have a manifest
    status,       \* last-run.status
    failure,      \* LAST_FAILURE: the run it tells of, or Null
    offsiteFailure, \* LAST_OFFSITE_FAILURE is there
    cipher,       \* the ciphertext file beside a dump: who encrypted it
    remote,       \* whose ciphertext is an object's newest version, or "expired"
    job           \* what the service and the operator's command are doing

local == <<started, dumps, described, failure>>
backupVars == <<local, status, offsiteFailure, cipher, remote, job>>

RunId == 1 .. MaxRuns
Job == {"service", "operator"}
Objects == [RunId -> Job \cup {"expired", Null}]

\* The first field is the run's own result: "none" where there is no file or
\* the uploader made it anew, "torn" while the shell has emptied the file.
Status == [result : {"none", "torn", "ok", "degraded"}, dump : RunId \cup {Null},
           offsite : {"none", "not_configured", "ok", "failed"}, object : RunId \cup {Null}]
NoStatus == [result |-> "none", dump |-> Null, offsite |-> "none", object |-> Null]

ServicePc == {"dump", "prune", "manifest", "status", "write", "degrade", "clear", "offsite"}
TransferPc == {"check", "encrypt", "upload", "verify", "read", "merge", "mark"}
Process == [pc : {"idle"} \cup ServicePc \cup TransferPc, dump : RunId \cup {Null},
            tries : 0 .. MaxRetries, verified : BOOLEAN, seen : Status,
            exit : {0, 1, 20, 21, Null}]
NoProcess == [pc |-> "idle", dump |-> Null, tries |-> 0, verified |-> FALSE,
              seen |-> NoStatus, exit |-> Null]

BackupInit ==
    /\ started = 0
    /\ dumps = {} /\ described = {}
    /\ status = NoStatus
    /\ failure = Null /\ offsiteFailure = FALSE
    /\ cipher = [d \in RunId |-> Null]
    /\ remote = [d \in RunId |-> Null]
    /\ job = [j \in Job |-> NoProcess]

At(j, pc) == job[j].pc = pc
Goes(j, pc) == job' = [job EXCEPT ![j].pc = pc]

\* The object can be had from the bucket, or was there until its time was up.
Stored(d) == remote[d] \in Job
Expired(d) == remote[d] = "expired"

\* The process ends by itself, with an exit code; what left the host is kept.
Exits(j, code) ==
    job' = [job EXCEPT ![j] = [NoProcess EXCEPT
                !.dump = IF code = 0 THEN job[j].dump ELSE Null, !.exit = code]]

\* ls -1t: the newest comes first.
Newer(d) == {e \in dumps : e > d}
Newest == CHOOSE d \in dumps : Newer(d) = {}
Beyond == {d \in dumps : Cardinality(Newer(d)) >= Keep}

\* What sed finds first: the run's result, or, in a file the uploader made
\* anew, the off-site outcome, which has the same key.
ReportedStatus == IF status.result = "none" THEN status.offsite ELSE status.result

-----------------------------------------------------------------------------
(* Faulty variants of the definitions below, one plausible slip each: put   *)
(* in the place of the definition it varies, each breaks a property.        *)

\* Prune: the oldest dumps are kept.
PruneNewest ==
    /\ At("service", "prune")
    /\ dumps' = {d \in dumps : Cardinality({e \in dumps : e < d}) < Keep}
    /\ Goes("service", "manifest")
    /\ UNCHANGED <<started, described, failure, status, offsiteFailure, cipher, remote>>

\* Describe: the status is due whether or not the manifest was written.
DescribeUnchecked ==
    /\ At("service", "manifest")
    /\ dumps # {}
    /\ \E written \in SUBSET {Newest} : described' = described \cup written
    /\ job' = [job EXCEPT !["service"].pc = "status", !["service"].dump = Newest]
    /\ UNCHANGED <<started, dumps, failure, status, offsiteFailure, cipher, remote>>

\* DumpFails: the old marker is cleared by a run that failed too.
DumpFailsClearing ==
    /\ \E pc \in {"dump", "prune"} : At("service", pc)
    /\ failure' = Null
    /\ Exits("service", 1)
    /\ UNCHANGED <<started, dumps, described, status, offsiteFailure, cipher, remote>>

\* Check: a transfer without a manifest to compare with.
CheckWithoutManifest(j) ==
    /\ At(j, "check")
    /\ job[j].dump \in dumps
    /\ ReportedStatus = "ok"
    /\ status.object # job[j].dump
    /\ Goes(j, "encrypt")
    /\ UNCHANGED <<local, status, offsiteFailure, cipher, remote>>

\* Upload: the answer is taken for the proof.
UploadUnverified(j) ==
    /\ At(j, "upload")
    /\ job' = [job EXCEPT ![j].pc = "read", ![j].verified = TRUE]
    /\ UNCHANGED <<local, status, offsiteFailure, cipher, remote>>

\* Published: the number of a run is not its own.
PublishedUnnumbered ==
    /\ At("service", "dump")
    /\ dumps' = dumps \cup {started - 1}
    /\ Goes("service", "prune")
    /\ UNCHANGED <<started, described, failure, status, offsiteFailure, cipher, remote>>

-----------------------------------------------------------------------------
(* libris-backup-run *)

\* A missing directory or script ends the run before it does anything.
Begin ==
    /\ At("service", "idle")
    /\ started < MaxRuns
    /\ started' = started + 1
    /\ \/ job' = [job EXCEPT !["service"] = [NoProcess EXCEPT !.pc = "dump"]]
       \/ job' = [job EXCEPT !["service"] = [NoProcess EXCEPT !.exit = 1]]
    /\ UNCHANGED <<dumps, described, failure, status, offsiteFailure, cipher, remote>>

\* backup-mysql.sh fails: before it has published its dump, or while it prunes.
DumpFails ==
    /\ \E pc \in {"dump", "prune"} : At("service", pc)
    /\ \E removed \in SUBSET Beyond :
          /\ At("service", "dump") => removed = {}
          /\ dumps' = dumps \ removed
    /\ failure' = started
    /\ Exits("service", 1)
    /\ UNCHANGED <<started, described, status, offsiteFailure, cipher, remote>>

\* The dump that passed its checks is renamed into place.
Publish ==
    /\ At("service", "dump")
    /\ dumps' = dumps \cup {started}
    /\ Goes("service", "prune")
    /\ UNCHANGED <<started, described, failure, status, offsiteFailure, cipher, remote>>

\* Dumps beyond the newest Keep go; their manifests stay.
Prune ==
    /\ At("service", "prune")
    /\ dumps' = dumps \ Beyond
    /\ Goes("service", "manifest")
    /\ UNCHANGED <<started, described, failure, status, offsiteFailure, cipher, remote>>

Describe ==
    /\ At("service", "manifest")
    /\ dumps # {}
    /\ described' = described \cup {Newest}
    /\ job' = [job EXCEPT !["service"].pc = "status", !["service"].dump = Newest]
    /\ UNCHANGED <<started, dumps, failure, status, offsiteFailure, cipher, remote>>

ManifestFails ==
    /\ At("service", "manifest")
    /\ dumps # {}
    /\ status' = [NoStatus EXCEPT !.result = "torn"]
    /\ job' = [job EXCEPT !["service"].pc = "degrade", !["service"].dump = Newest]
    /\ UNCHANGED <<local, offsiteFailure, cipher, remote>>

\* Recorded in the status, and nowhere else.
Degrade ==
    /\ At("service", "degrade")
    /\ status' = [NoStatus EXCEPT !.result = "degraded", !.dump = job["service"].dump]
    /\ Exits("service", 1)
    /\ UNCHANGED <<local, offsiteFailure, cipher, remote>>

\* The shell empties the file before the document is written to it.
TruncateStatus ==
    /\ At("service", "status")
    /\ status' = [NoStatus EXCEPT !.result = "torn"]
    /\ Goes("service", "write")
    /\ UNCHANGED <<local, offsiteFailure, cipher, remote>>

WriteStatus ==
    /\ At("service", "write")
    /\ status' = [result |-> "ok", dump |-> job["service"].dump,
                  offsite |-> "not_configured", object |-> Null]
    /\ Goes("service", "clear")
    /\ UNCHANGED <<local, offsiteFailure, cipher, remote>>

ClearFailure ==
    /\ At("service", "clear")
    /\ failure' = Null
    /\ Goes("service", "offsite")
    /\ UNCHANGED <<started, dumps, described, status, offsiteFailure, cipher, remote>>

\* backup-offsite-run.sh is not installed.
OffsiteMissing ==
    /\ At("service", "offsite")
    /\ failure' = started
    /\ Exits("service", 21)
    /\ UNCHANGED <<started, dumps, described, status, offsiteFailure, cipher, remote>>

-----------------------------------------------------------------------------
(* backup-offsite-run.sh, which the service and the operator run alike. *)

Hand(j, d) ==
    /\ \/ j = "service" /\ At(j, "offsite") /\ d = job[j].dump
       \/ j = "operator" /\ At(j, "idle") /\ d <= started
    /\ job' = [job EXCEPT ![j] = [NoProcess EXCEPT !.pc = "check", !.dump = d]]
    /\ UNCHANGED <<local, status, offsiteFailure, cipher, remote>>

\* The status must report "ok", of whichever dump, and the dump must be the one
\* its manifest describes.
Check(j) ==
    /\ At(j, "check")
    /\ job[j].dump \in dumps \cap described
    /\ ReportedStatus = "ok"
    /\ status.object # job[j].dump
    /\ Goes(j, "encrypt")
    /\ UNCHANGED <<local, status, offsiteFailure, cipher, remote>>

\* The status names the object: there is nothing to do.  Nobody asks the bucket.
AlreadyTransferred(j) ==
    /\ At(j, "check")
    /\ job[j].dump \in dumps \cap described
    /\ ReportedStatus = "ok"
    /\ status.object = job[j].dump
    /\ Exits(j, 0)
    /\ UNCHANGED <<local, status, offsiteFailure, cipher, remote>>

\* die: any of the above, a missing uploader, missing credentials.
Refuse(j) ==
    /\ At(j, "check")
    /\ Exits(j, 1)
    /\ UNCHANGED <<local, status, offsiteFailure, cipher, remote>>

-----------------------------------------------------------------------------
(* libris-backup-offsite.py *)

Encrypt(j) ==
    /\ At(j, "encrypt")
    /\ job[j].dump \in dumps
    /\ cipher' = [cipher EXCEPT ![job[j].dump] = j]
    /\ Goes(j, "upload")
    /\ UNCHANGED <<local, status, offsiteFailure, remote>>

\* The object gets a new version, whatever file is there to be sent.
Stores(d) == remote' = [remote EXCEPT ![d] = cipher[d]]

Upload(j) ==
    LET d == job[j].dump IN
    /\ At(j, "upload")
    /\ cipher[d] # Null
    /\ Stores(d)
    /\ job' = [job EXCEPT ![j].pc = "verify", ![j].tries = 0]
    /\ UNCHANGED <<local, status, offsiteFailure, cipher>>

\* Refused, or stored and the answer lost: the uploader tries again.
UploadAgain(j) ==
    LET d == job[j].dump IN
    /\ At(j, "upload")
    /\ cipher[d] # Null
    /\ job[j].tries + 1 < MaxRetries
    /\ job' = [job EXCEPT ![j].tries = @ + 1]
    /\ Stores(d) \/ UNCHANGED remote
    /\ UNCHANGED <<local, status, offsiteFailure, cipher>>

\* What comes back by the object's name must be what this process encrypted.
Verify(j) ==
    /\ At(j, "verify")
    /\ remote[job[j].dump] = j
    /\ job' = [job EXCEPT ![j].pc = "read", ![j].verified = TRUE]
    /\ UNCHANGED <<local, status, offsiteFailure, cipher, remote>>

\* An error at any stage: encryption, authorization, the last attempt of the
\* upload (stored or not), a ciphertext that is gone, the comparison.
TransferFails(j) ==
    /\ \E pc \in {"encrypt", "upload", "verify"} : At(j, pc)
    /\ job' = [job EXCEPT ![j].pc = "read", ![j].tries = 0]
    /\ \/ UNCHANGED remote
       \/ At(j, "upload") /\ cipher[job[j].dump] # Null /\ Stores(job[j].dump)
    /\ UNCHANGED <<local, status, offsiteFailure, cipher>>

\* update_status reads the file, a torn one as an empty one ...
ReadStatus(j) ==
    /\ At(j, "read")
    /\ job' = [job EXCEPT ![j].pc = "merge",
                          ![j].seen = IF status.result = "torn" THEN NoStatus ELSE status]
    /\ UNCHANGED <<local, status, offsiteFailure, cipher, remote>>

\* ... and replaces it with what it read and the outcome; an error is a warning.
MergeStatus(j) ==
    /\ At(j, "merge")
    /\ job' = [job EXCEPT ![j].pc = "mark", ![j].seen = NoStatus]
    /\ \/ status' = [job[j].seen EXCEPT
                        !.offsite = IF job[j].verified THEN "ok" ELSE "failed",
                        !.object = IF job[j].verified THEN job[j].dump ELSE Null]
       \/ UNCHANGED status
    /\ UNCHANGED <<local, offsiteFailure, cipher, remote>>

\* The marker is removed or written, errors ignored, and the ciphertext goes.
Mark(j) ==
    /\ At(j, "mark")
    /\ offsiteFailure' \in {offsiteFailure, ~job[j].verified}
    /\ cipher' = [cipher EXCEPT ![job[j].dump] = Null]
    /\ Exits(j, IF job[j].verified THEN 0 ELSE 20)
    /\ UNCHANGED <<local, status, remote>>

\* The uploader cannot be run or is killed: the wrapper lives on to report 20.
UploaderDies(j) ==
    /\ \E pc \in TransferPc \ {"check"} : At(j, pc)
    /\ Exits(j, 20)
    /\ UNCHANGED <<local, status, offsiteFailure, cipher, remote>>

\* A reboot, a kill, systemd's start timeout: no exit code to speak of.
Crash(j) ==
    /\ ~At(j, "idle")
    /\ job' = [job EXCEPT ![j] = NoProcess]
    /\ UNCHANGED <<local, status, offsiteFailure, cipher, remote>>

-----------------------------------------------------------------------------
(* The object store. *)

\* The bucket's own lifecycle rule hides an object, 30 days after its upload, and
\* deletes it a day later; no file on the host says so.  Here at any time.
Expire(d) ==
    /\ Stored(d)
    /\ remote' = [remote EXCEPT ![d] = "expired"]
    /\ UNCHANGED <<local, status, offsiteFailure, cipher, job>>

-----------------------------------------------------------------------------

Service ==
    \/ Begin \/ DumpFails \/ Publish \/ Prune
    \/ Describe \/ ManifestFails \/ Degrade \/ TruncateStatus \/ WriteStatus
    \/ ClearFailure \/ OffsiteMissing

Transfer(j) ==
    \/ \E d \in RunId : Hand(j, d)
    \/ Check(j) \/ AlreadyTransferred(j) \/ Refuse(j)
    \/ Encrypt(j) \/ Upload(j) \/ UploadAgain(j) \/ Verify(j) \/ TransferFails(j)
    \/ ReadStatus(j) \/ MergeStatus(j) \/ Mark(j) \/ UploaderDies(j)

BackupNext ==
    \/ Service
    \/ \E j \in Job : Transfer(j) \/ Crash(j)
    \/ \E d \in RunId : Expire(d)

BackupSpec == BackupInit /\ [][BackupNext]_backupVars

-----------------------------------------------------------------------------
(* Properties *)

\* Types, and the shape of the files the scripts leave for one another.
BackupTypeOK ==
    /\ started \in 0 .. MaxRuns
    /\ dumps \subseteq RunId /\ described \subseteq RunId
    /\ status \in Status
    /\ failure \in RunId \cup {Null} /\ offsiteFailure \in BOOLEAN
    /\ cipher \in [RunId -> Job \cup {Null}]
    /\ remote \in Objects
    /\ job \in [Job -> Process]

\* What the status file claims is so, through crashes, overlapping transfers
\* and updates that overwrite one another: the dump it calls ok was described,
\* and the object it names is stored, unless its time in the bucket is up.  (The
\* file goes on naming it then; how old the object is, the reader must know.)
StatusTruthful ==
    /\ status.result = "ok" => status.dump \in described
    /\ status.object # Null => Stored(status.object) \/ Expired(status.object)

\* What the exit statuses promise: after 0 a copy of the dump has left the
\* host, if only to expire since, also when the stage found nothing to do; after
\* 20 and 21 the run's own dump and its manifest are intact on it.
ExitStatusTruthful ==
    /\ \A j \in Job : job[j].exit = 0 => Stored(job[j].dump) \/ Expired(job[j].dump)
    /\ job["service"].exit \in {0, 20, 21} => started \in dumps \cap described

\* Only a dump that passed its local checks is transferred.
RemoteWasDescribed == \A d \in RunId : Stored(d) \/ Expired(d) => d \in described

\* Retention, run after every dump, never costs a run that succeeded its
\* place among the Keep newest dumps, and the dump a run describes, records
\* and hands over is its own.
RetentionKeepsNewest ==
    /\ status.result = "ok" =>
          status.dump \in dumps \/ Cardinality(Newer(status.dump)) >= Keep
    /\ ~At("service", "idle") /\ job["service"].dump # Null =>
          job["service"].dump = started /\ started \in dumps

\* LAST_FAILURE goes away only once a later run has a described dump.
FailureClearedByBackup ==
    [][failure # Null /\ failure' = Null =>
          \E d \in dumps \cap described : d > failure]_backupVars

\* "an offsite outcome never rewrites the local one": a merge leaves the
\* run's result and its dump in the status as they are.
LocalOutcomeKept ==
    [][\A j \in Job : At(j, "merge") /\ job'[j].pc = "mark" =>
          status'.result = status.result /\ status'.dump = status.dump]_backupVars
=============================================================================
