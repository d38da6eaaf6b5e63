------------------------------- MODULE Backups -------------------------------
(***************************************************************************)
(* services/backup_service.ts and backup_retention_service.ts: the         *)
(* archives of one tenant on disk and in S3, and the list of them, kept in *)
(* Redis and beside the archives in backup.json. Commands and jobs of      *)
(* several processes back up, sweep and restore; each reads the list,      *)
(* changes it and writes it back. Archives are numbered by the timestamp   *)
(* in the list.                                                            *)
(***************************************************************************)
EXTENDS Integers, FiniteSets, Sequences, SequencesExt

CONSTANTS
    Procs,       \* processes that run a backup, a sweep or a restore
    KeepLast,    \* keepLast of the tier
    Listed,      \* how many archives a list holds (30 in the code)
    S3,          \* whether archives are mirrored
    MaxArchives, \* bound: archives made
    MaxBackupFaults    \* bound: writes, deletions and transfers that fail, processes that die

BackupAssumption ==
    /\ {KeepLast, Listed} \subseteq Nat \ {0}
    /\ S3 \in BOOLEAN /\ {MaxArchives, MaxBackupFaults} \subseteq Nat

VARIABLES
    made,     \* archives made so far
    disk,     \* archives in the directory of the tenant
    cut,      \* of those, the ones a download is writing, or stopped writing
    bucket,   \* archives in S3
    redis,    \* the list in Redis, << >> once it has expired
    sidecar,  \* the list in backup.json
    proc,     \* what each process is doing
    backupFaults

files == <<disk, cut, bucket>>
lists == <<redis, sidecar>>
backupVars  == <<made, files, lists, proc, backupFaults>>

Archives == 1 .. MaxArchives
ArchiveLists    == {l \in UNION {[1 .. n -> Archives] : n \in 0 .. Listed} : IsInjective(l)}
ProcIdle     == [pc |-> "idle"]
Proc ==
    [pc : {"dump", "due"}, sweep : BOOLEAN] \cup
    [pc : {"load", "upload"}, sweep : BOOLEAN, at : Archives] \cup
    [pc : {"persist"}, sweep : BOOLEAN, at : Archives, list : Seq(Archives)] \cup
    [pc : {"plan"}] \cup
    [pc : {"unlink", "delete", "reload"}, left : Seq(Archives)] \cup
    [pc : {"rewrite"}, left : Seq(Archives), list : Seq(Archives)] \cup
    [pc : {"fetch", "writing", "restore"}, at : Archives]

BackupTypeOK ==
    /\ made \in 0 .. MaxArchives
    /\ disk \subseteq Archives /\ cut \subseteq disk /\ bucket \subseteq Archives
    /\ redis \in ArchiveLists /\ sidecar \in ArchiveLists
    /\ proc \in [Procs -> Proc \cup {ProcIdle}]
    /\ backupFaults \in 0 .. MaxBackupFaults

BackupInit ==
    /\ made = 0
    /\ disk = {} /\ cut = {} /\ bucket = {}
    /\ redis = << >> /\ sidecar = << >>
    /\ proc = [p \in Procs |-> ProcIdle]
    /\ backupFaults = 0

Becomes(p, state) == proc' = [proc EXCEPT ![p] = state]
BackupFault == backupFaults < MaxBackupFaults /\ backupFaults' = backupFaults + 1

-----------------------------------------------------------------------------
(* The list *)

\* #loadMetadata: Redis, else backup.json (also when Redis cannot be asked), else
\* an empty list (also when the file cannot be read).
Load(l) ==
    \/ l = (IF redis # << >> THEN redis ELSE sidecar) /\ UNCHANGED backupFaults
    \/ l = sidecar /\ redis # << >> /\ BackupFault
    \/ l = << >> /\ BackupFault

\* #persistMetadata: both are written, and an error of either is swallowed.
Persist(l) ==
    \/ redis' = l /\ sidecar' = l /\ UNCHANGED backupFaults
    \/ BackupFault /\ redis' = l /\ UNCHANGED sidecar
    \/ BackupFault /\ sidecar' = l /\ UNCHANGED redis

\* metadataTtl is over. (An empty list is not told apart from none.)
RedisExpires ==
    /\ redis # << >>
    /\ redis' = << >>
    /\ UNCHANGED <<made, files, sidecar, proc, backupFaults>>

-----------------------------------------------------------------------------
(* backup(): by tenant:backup, a BackupTenant job, or tenant:backups:run, which
   sweeps afterwards *)

Begins(p, sweep) ==
    /\ proc[p] = ProcIdle
    /\ Becomes(p, [pc |-> IF sweep THEN "due" ELSE "dump", sweep |-> sweep])
    /\ UNCHANGED <<made, files, lists, backupFaults>>

\* shouldBackup: whatever the list says, the interval may be over or not.
Due(p) ==
    /\ proc[p].pc = "due"
    /\ \/ Becomes(p, [pc |-> "dump", sweep |-> TRUE])
       \/ (redis # << >> \/ sidecar # << >>) /\ Becomes(p, ProcIdle)
    /\ UNCHANGED <<made, files, lists, backupFaults>>

\* pg_dump has ended well, and the archive has its timestamp.
Dumps(p) ==
    /\ proc[p].pc = "dump"
    /\ made < MaxArchives
    /\ made' = made + 1
    /\ disk' = disk \cup {made + 1}
    /\ Becomes(p, [pc |-> "load", sweep |-> proc[p].sweep, at |-> made + 1])
    /\ UNCHANGED <<cut, bucket, lists, backupFaults>>

LoadsForSave(p) ==
    LET me == proc[p]
    IN  /\ me.pc = "load"
        /\ \E l \in ArchiveLists :
              /\ Load(l)
              /\ Becomes(p, [pc |-> "persist", sweep |-> me.sweep, at |-> me.at, list |-> l])
        /\ UNCHANGED <<made, files, lists>>

\* unshift, slice(0, 30)
SavesList(p) ==
    LET me == proc[p]
        l  == <<me.at>> \o me.list
    IN  /\ me.pc = "persist"
        /\ Persist(SubSeq(l, 1, IF Len(l) > Listed THEN Listed ELSE Len(l)))
        /\ Becomes(p, IF S3 THEN [pc |-> "upload", sweep |-> me.sweep, at |-> me.at]
                   ELSE IF me.sweep THEN [pc |-> "plan"] ELSE ProcIdle)
        /\ UNCHANGED <<made, files>>

Uploads(p) ==
    LET me == proc[p]
    IN  /\ me.pc = "upload"
        /\ \/ /\ bucket' = bucket \cup {me.at} /\ UNCHANGED backupFaults
              /\ Becomes(p, IF me.sweep THEN [pc |-> "plan"] ELSE ProcIdle)
           \/ BackupFault /\ Becomes(p, ProcIdle) /\ UNCHANGED bucket
        /\ UNCHANGED <<made, disk, cut, lists>>

\* An error of pg_dump, or a process that dies, wherever it is.
Dies(p) ==
    /\ proc[p] # ProcIdle
    /\ BackupFault
    /\ Becomes(p, ProcIdle)
    /\ UNCHANGED <<made, files, lists>>

-----------------------------------------------------------------------------
(* applyRetention *)

\* One archive too few is kept (a mutant).
KeepsOneLess(l) ==
    {a \in ToSet(l) : Cardinality({b \in ToSet(l) : b > a}) >= KeepLast - 1}

\* planRetention: what is beyond the keepLast newest of the list.
Purged(l) == {a \in ToSet(l) : Cardinality({b \in ToSet(l) : b > a}) >= KeepLast}

\* The newest first, as the list is sorted.
NewestFirst(S) ==
    {s \in [1 .. Cardinality(S) -> S] : \A i, j \in DOMAIN s : i < j => s[i] > s[j]}

Deletes(left) == IF left = << >> THEN ProcIdle ELSE [pc |-> "unlink", left |-> left]

PlansSweep(p) ==
    /\ proc[p].pc = "plan"
    /\ \E l \in ArchiveLists : /\ Load(l)
                             /\ \E left \in NewestFirst(Purged(l)) : Becomes(p, Deletes(left))
    /\ UNCHANGED <<made, files, lists>>

\* deleteBackup: unlink, and its error is swallowed.
Unlinks(p) ==
    LET me == proc[p]
    IN  /\ me.pc = "unlink"
        /\ \/ disk' = disk \ {Head(me.left)} /\ cut' = cut \ {Head(me.left)}
              /\ UNCHANGED backupFaults
           \/ BackupFault /\ UNCHANGED <<disk, cut>>
        /\ Becomes(p, [pc |-> IF S3 THEN "delete" ELSE "reload", left |-> me.left])
        /\ UNCHANGED <<made, bucket, lists>>

DeletesInS3(p) ==
    LET me == proc[p]
    IN  /\ me.pc = "delete"
        /\ \/ bucket' = bucket \ {Head(me.left)} /\ UNCHANGED backupFaults
           \/ BackupFault /\ UNCHANGED bucket
        /\ Becomes(p, [pc |-> "reload", left |-> me.left])
        /\ UNCHANGED <<made, disk, cut, lists>>

LoadsForDelete(p) ==
    LET me == proc[p]
    IN  /\ me.pc = "reload"
        /\ \E l \in ArchiveLists :
              Load(l) /\ Becomes(p, [pc |-> "rewrite", left |-> me.left, list |-> l])
        /\ UNCHANGED <<made, files, lists>>

Unlists(p) ==
    LET me == proc[p]
    IN  /\ me.pc = "rewrite"
        /\ \/ /\ Head(me.left) \notin ToSet(me.list)
              /\ Persist(me.list)
           \/ \E i \in DOMAIN me.list : /\ me.list[i] = Head(me.left)
                                        /\ Persist(RemoveAt(me.list, i))
        /\ Becomes(p, Deletes(Tail(me.left)))
        /\ UNCHANGED <<made, files>>

-----------------------------------------------------------------------------
(* restore() *)

\* By a name the caller has from the list.
BeginsRestore(p, a) ==
    /\ proc[p] = ProcIdle
    /\ a \in ToSet(redis) \cup ToSet(sidecar)
    /\ Becomes(p, [pc |-> IF S3 THEN "fetch" ELSE "restore", at |-> a])
    /\ UNCHANGED <<made, files, lists, backupFaults>>

\* #downloadFromS3: a file that exists is taken as it is.
Fetches(p) ==
    LET me == proc[p]
    IN  /\ me.pc = "fetch"
        /\ IF me.at \in disk
           THEN Becomes(p, [pc |-> "restore", at |-> me.at]) /\ UNCHANGED <<disk, cut>>
           ELSE IF me.at \in bucket
           THEN /\ Becomes(p, [pc |-> "writing", at |-> me.at])
                /\ disk' = disk \cup {me.at} /\ cut' = cut \cup {me.at}
           ELSE Becomes(p, ProcIdle) /\ UNCHANGED <<disk, cut>>
        /\ UNCHANGED <<made, bucket, lists, backupFaults>>

\* Written to the end: all of it, unless a sweep has unlinked it meanwhile.
Written(p) ==
    /\ proc[p].pc = "writing"
    /\ cut' = cut \ {proc[p].at}
    /\ Becomes(p, [pc |-> "restore", at |-> proc[p].at])
    /\ UNCHANGED <<made, disk, bucket, lists, backupFaults>>

\* pg_restore, from the file as it is: it fails without it, or on one that is cut.
Restores(p) ==
    /\ proc[p].pc = "restore"
    /\ Becomes(p, ProcIdle)
    /\ UNCHANGED <<made, files, lists, backupFaults>>

-----------------------------------------------------------------------------
BackupNext ==
    \/ RedisExpires
    \/ \E p \in Procs :
          \/ \E sweep \in BOOLEAN : Begins(p, sweep)
          \/ Due(p) \/ Dumps(p) \/ LoadsForSave(p) \/ SavesList(p) \/ Uploads(p)
          \/ Dies(p)
          \/ PlansSweep(p) \/ Unlinks(p) \/ DeletesInS3(p) \/ LoadsForDelete(p) \/ Unlists(p)
          \/ \E a \in Archives : BeginsRestore(p, a)
          \/ Fetches(p) \/ Written(p) \/ Restores(p)

BackupSpec == BackupInit /\ [][BackupNext]_backupVars

-----------------------------------------------------------------------------
(* Properties *)

\* Whatever sweeps and backups race over the list, and whatever of it was lost, the
\* keepLast newest archives are kept.
NewestAreKept == \A a \in 1 .. made : a > made - KeepLast => a \in disk

=============================================================================
