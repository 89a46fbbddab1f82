------------------------------ MODULE RedisBackup -----------------------------
(***************************************************************************)
(* The backup manager of infrastructure/redis/backup.go beside the Redis   *)
(* server it asks.  CreateRDBBackup reads LASTSAVE, asks for a BGSAVE and  *)
(* polls LASTSAVE until it moves; CreateAOFBackup asks for a BGREWRITEAOF  *)
(* and polls INFO until no rewrite is in progress.  Either only reports    *)
(* where a backup belongs: copying the file there is left to an operator.  *)
(* The server forks one child at a time, for anyone who asks, and counts   *)
(* LASTSAVE in whole seconds, from its start if it has not saved since.    *)
(* What the data set holds is the number of writes it has seen.            *)
(***************************************************************************)
EXTENDS Integers, FiniteSetsExt

CONSTANTS
  Callers,    \* concurrent calls of the manager
  Timeout,    \* how long a call waits, 60 s in the code
  Retention,  \* RetentionDays; 0 keeps everything
  MaxData,    \* bound: writes
  MaxTime,    \* bound: the last second
  MaxFiles,   \* bound: files in the directory
  Nil

ASSUME BackupAssumption ==
  /\ Timeout \in Nat \ {0} /\ Retention \in Nat
  /\ Nil \notin [type : {"aof", "rdb"}, asOf : Nat]

VARIABLES
  now,
  data,      \* the data set
  disk,      \* type -> the data that is in the server's own file
  child,     \* the type and the data of the child process, or Nil
  scheduled, \* a rewrite waits for the child to end
  lastsave,  \* LASTSAVE
  call,      \* caller -> the progress of its call
  files      \* the backup directory

server == <<data, disk, child, scheduled, lastsave>>
vars == <<now, server, call, files>>

-----------------------------------------------------------------------------
BackupType == {"aof", "rdb"}

\* A LASTSAVE that could not be read is the zero time, before every other.
ZeroTime == -1

\* began and excused are ghosts: the data when the call started, and whether the server
\* did something that the polls cannot tell from the child they wait for.
NewCall(type, pc, before, excused) ==
  [pc |-> pc, type |-> type, before |-> before, deadline |-> now + Timeout,
   began |-> data, excused |-> excused, id |-> Nil]

NoCall == [pc |-> "none"]

Waiting(c) == call[c].pc = "wait"

Running(type) == child # Nil /\ child.type = type

Fork(type) == child' = [type |-> type, asOf |-> data]

\* The calls with those that wait excused.
Excused(types) ==
  [c \in Callers |-> IF call[c].pc \in {"trigger", "wait"} /\ call[c].type \in types
                     THEN [call[c] EXCEPT !.excused = TRUE] ELSE call[c]]

Init ==
  /\ now = 1
  /\ data = 0
  /\ disk = [t \in BackupType |-> 0]
  /\ child = Nil
  /\ scheduled = FALSE
  /\ lastsave = 0
  /\ call = [c \in Callers |-> NoCall]
  /\ files = {}

Idle(c) == call[c].pc \in {"none", "done"} /\ now + Timeout <= MaxTime

-----------------------------------------------------------------------------
\* BGREWRITEAOF: during a rewrite an error the manager passes over, during a BGSAVE only
\* scheduled, which INFO does not call in progress.
CreateAOFBackup(c) ==
  /\ Idle(c)
  /\ call' = [call EXCEPT ![c] = NewCall("aof", "wait", ZeroTime, child # Nil)]
  /\ CASE child = Nil    -> Fork("aof") /\ UNCHANGED scheduled
       [] Running("aof") -> UNCHANGED <<child, scheduled>>
       [] Running("rdb") -> scheduled' = TRUE /\ UNCHANGED child
  /\ UNCHANGED <<now, data, disk, lastsave, files>>

\* CreateRDBBackup reads LASTSAVE first, and drops the error.
CreateRDBBackup(c) ==
  /\ Idle(c)
  /\ \/ call' = [call EXCEPT ![c] = NewCall("rdb", "trigger", lastsave, Running("rdb"))]
     \/ call' = [call EXCEPT ![c] = NewCall("rdb", "trigger", ZeroTime, TRUE)]
  /\ UNCHANGED <<now, server, files>>

\* BGSAVE: an error that the manager passes over while one is in progress.
BGSave(c) ==
  /\ call[c].pc = "trigger"
  /\ now + Timeout <= MaxTime
  /\ ~Running("aof")
  /\ IF child = Nil THEN Fork("rdb") ELSE UNCHANGED child
  /\ call' = [call EXCEPT ![c].pc = "wait", ![c].deadline = now + Timeout]
  /\ UNCHANGED <<now, data, disk, scheduled, lastsave, files>>

\* The directory cannot be made, the command is refused or the context ends.
CallFails(c) ==
  /\ call[c].pc \in {"trigger", "wait"}
  /\ call' = [call EXCEPT ![c] = NoCall]
  /\ UNCHANGED <<now, server, files>>

\* Mutant: the state of the child is asked, not LASTSAVE.
Bug_NoChild(r) == child = Nil

\* What the poll takes for the end: waitForBGSave, waitForAOFRewrite.
Complete(r) == IF r.type = "rdb" THEN lastsave > r.before ELSE ~Running("aof")

\* Mutant: the deadline is never looked at.
Bug_PollForever(c) ==
  /\ Waiting(c)
  /\ Complete(call[c])
  /\ call' = [call EXCEPT ![c].pc = "done", ![c].id = [type |-> call[c].type, at |-> now]]
  /\ UNCHANGED <<now, server, files>>

\* A tick of the ticker that ends the wait.  One whose command fails or finds nothing
\* new is passed over, and only after it the deadline is looked at.
Poll(c) ==
  /\ Waiting(c)
  /\ \/ /\ Complete(call[c])
        /\ call' = [call EXCEPT ![c].pc = "done", ![c].id = [type |-> call[c].type, at |-> now]]
     \/ /\ now >= call[c].deadline
        /\ call' = [call EXCEPT ![c] = NoCall]
  /\ UNCHANGED <<now, server, files>>

-----------------------------------------------------------------------------
\* External: the operator copies the server's file to the path of the result; the copy
\* may break off and leave an empty file.
CopyFile(c) ==
  /\ call[c].pc = "done"
  /\ \E size \in {0, 1} :
       files' = {f \in files : f.id # call[c].id} \cup
                {[id |-> call[c].id, size |-> size, at |-> now, holds |-> disk[call[c].type]]}
  /\ Cardinality(files') <= MaxFiles
  /\ call' = [call EXCEPT ![c] = NoCall]
  /\ UNCHANGED <<now, server>>

\* ListBackups takes the time of a backup from the file.
ListBackups(type) == {f \in files : f.id.type = type}

\* Mutant: the first backup of the type is never replaced.
Bug_FirstListed(type) == {f \in ListBackups(type) : \A g \in ListBackups(type) : f.id.at <= g.id.at}

\* The first in the order of the directory of those with the latest time.
GetLatestBackup(type) ==
  {f \in ListBackups(type) :
     /\ \A g \in ListBackups(type) : g.at <= f.at
     /\ \A g \in ListBackups(type) : g.at = f.at => f.id.at <= g.id.at}

DeleteBackup(id) ==
  /\ \E f \in files : f.id = id /\ files' = files \ {f}
  /\ UNCHANGED <<now, server, call>>

\* CreatedAt.Before(cutoff)
TooOld(f) == f.at < now - Retention

\* A file that cannot be removed is left.
CleanupOldBackups ==
  /\ Retention > 0
  /\ \E gone \in (SUBSET {f \in files : TooOld(f)}) \ {{}} : files' = files \ gone
  /\ UNCHANGED <<now, server, call>>

\* VerifyBackup looks at the size.
VerifyBackup(id) == \E f \in files : f.id = id /\ f.size > 0

-----------------------------------------------------------------------------
\* External: the server.
Write ==
  /\ data < MaxData
  /\ data' = data + 1
  /\ UNCHANGED <<now, disk, child, scheduled, lastsave, call, files>>

\* Somebody else's BGSAVE or BGREWRITEAOF, or the server's own.
OtherSaves ==
  /\ child = Nil
  /\ \E type \in BackupType : Fork(type)
  /\ UNCHANGED <<now, data, disk, scheduled, lastsave, call, files>>

ChildEnds ==
  /\ child # Nil
  /\ child' = Nil
  /\ disk' = [disk EXCEPT ![child.type] = child.asOf]
  /\ lastsave' = IF child.type = "rdb" THEN now ELSE lastsave
  /\ UNCHANGED <<now, data, scheduled, call, files>>

\* A rewrite that fails is over as well; a save that fails does not move LASTSAVE.
ChildFails ==
  /\ child # Nil
  /\ child' = Nil
  /\ call' = IF child.type = "aof" THEN Excused({"aof"}) ELSE call
  /\ UNCHANGED <<now, data, disk, scheduled, lastsave, files>>

StartScheduled ==
  /\ scheduled
  /\ child = Nil
  /\ scheduled' = FALSE
  /\ Fork("aof")
  /\ UNCHANGED <<now, data, disk, lastsave, call, files>>

\* The append-only file keeps the data; LASTSAVE starts with the time.
Restart ==
  /\ child' = Nil
  /\ scheduled' = FALSE
  /\ lastsave' = now
  /\ call' = Excused(BackupType)
  /\ UNCHANGED <<now, data, disk, files>>

Tick ==
  /\ now < MaxTime
  /\ now' = now + 1
  /\ UNCHANGED <<server, call, files>>

Next ==
  \/ \E c \in Callers : CreateAOFBackup(c)
  \/ \E c \in Callers : CreateRDBBackup(c)
  \/ \E c \in Callers : BGSave(c)
  \/ \E c \in Callers : CallFails(c)
  \/ \E c \in Callers : Poll(c)
  \/ \E c \in Callers : CopyFile(c)
  \/ \E id \in {f.id : f \in files} : DeleteBackup(id)
  \/ CleanupOldBackups
  \/ Write \/ OtherSaves \/ ChildEnds \/ ChildFails \/ StartScheduled \/ Restart \/ Tick

\* The command of a call is answered, one way or the other.
Triggered(c) == call[c].pc = "trigger" /\ (BGSave(c) \/ CallFails(c))

\* Time passes, the ticker of a call fires and a command is answered.
Spec ==
  /\ Init
  /\ [][Next]_vars
  /\ WF_vars(Tick)
  /\ \A c \in Callers : WF_vars(Poll(c)) /\ WF_vars(Triggered(c))

-----------------------------------------------------------------------------
\* A call that reports success leaves a file on the server with everything that was
\* written before the call, unless LASTSAVE could not be read first, a save or a rewrite
\* was already under way when the call began, a rewrite failed, or the server started
\* anew (backup.go:261, 264, 317, 344).
SuccessIsFresh ==
  \A c \in Callers : call[c].pc = "done" /\ ~call[c].excused => disk[call[c].type] >= call[c].began

\* The latest backup of a type, if it can be verified, holds at least what every other
\* holds that was not copied in the same second, whatever was copied over, deleted or
\* cleaned up in between (backup.go:438, 481).
LatestIsNewest ==
  \A type \in BackupType : \A f \in GetLatestBackup(type) :
    VerifyBackup(f.id) => \A g \in ListBackups(type) : g.at = f.at \/ g.holds <= f.holds

\* Every call returns, whatever the server does (backup.go:306, 335).
CallsReturn == \A c \in Callers : call[c].pc = "trigger" \/ Waiting(c) ~> call[c].pc \in {"none", "done"}

-----------------------------------------------------------------------------
\* The inductive invariant.
CallRecord ==
  [pc : {"trigger", "wait", "done"}, type : BackupType, before : Int, deadline : Nat,
   began : Nat, excused : BOOLEAN, id : [type : BackupType, at : Nat] \cup {Nil}]

FileRecord == [id : [type : BackupType, at : Nat], size : Nat, at : Nat, holds : Nat]

TypeOK ==
  /\ now \in Nat /\ data \in Nat /\ disk \in [BackupType -> Nat]
  /\ child \in [type : BackupType, asOf : Nat] \cup {Nil}
  /\ scheduled \in BOOLEAN /\ lastsave \in Int
  /\ call \in [Callers -> CallRecord \cup {NoCall}]
  /\ files \subseteq FileRecord

\* The server's files are never ahead of the data, nor of the child that will replace them.
ServerSound ==
  /\ \A type \in BackupType : disk[type] <= data
  /\ child # Nil => disk[child.type] <= child.asOf /\ child.asOf <= data

\* Why the polls of a call that is not excused cannot end early: its rewrite runs or has
\* replaced the file; a save that LASTSAVE will count began after the call.
WillBeFresh(r) ==
  \/ r.pc = "done" /\ disk[r.type] >= r.began
  \/ /\ r.pc = "wait" /\ r.type = "aof"
     /\ disk["aof"] >= r.began \/ (Running("aof") /\ child.asOf >= r.began)
  \/ /\ r.pc \in {"trigger", "wait"} /\ r.type = "rdb"
     /\ Running("rdb") => child.asOf >= r.began
     /\ lastsave > r.before => disk["rdb"] >= r.began

CallSound(r) ==
  /\ r.began <= data
  /\ r.pc = "trigger" => r.type = "rdb"
  /\ r.pc = "done" => r.id \in [type : {r.type}, at : Nat]
  /\ r.excused \/ WillBeFresh(r)

\* A file holds no more than the server's own, and an older one no more than a newer.
FilesSound ==
  \A f \in files :
    /\ f.at <= now
    /\ f.holds <= disk[f.id.type]
    /\ \A g \in files : g.id.type = f.id.type /\ g.at < f.at => g.holds <= f.holds

IInv ==
  /\ TypeOK
  /\ ServerSound
  /\ \A c \in Callers : call[c] # NoCall => CallSound(call[c])
  /\ FilesSound

=============================================================================
