---------------------------- MODULE Storage_proofs ----------------------------
(***************************************************************************)
(* Proofs about what is written to storage and read back.  RedisBackup,    *)
(* for any number of callers, any timeout and retention, and whatever else *)
(* the server saves meanwhile: a call that reports success and is not      *)
(* excused leaves on the server all that was written before it began, and  *)
(* the latest backup holds what the older ones hold.                       *)
(* RouteRepository, for any stops, lists, periods and handlers: a route    *)
(* that was saved can be loaded and loads as it is from then on, everyone  *)
(* who asks about its journeys and its period gets the same answer, and    *)
(* the stops table follows it.                                             *)
(***************************************************************************)
EXTENDS RedisBackup, RouteRepository, SequenceTheorems, WellFoundedInduction, TLAPS

-----------------------------------------------------------------------------
\* A call that is in no one's way keeps what is known of it while the server's files only
\* grow and the child it depends on goes on or is replaced by one that is fresh enough.
LEMMA CallStays ==
  ASSUME TypeOK, TypeOK', NEW r \in CallRecord, CallSound(r),
         data <= data', \A type \in BackupType : disk[type] <= disk'[type],
         r.pc = "wait" /\ r.type = "aof" /\ ~r.excused =>
           (Running("aof") => child' = child \/ disk'["aof"] = child.asOf),
         r.pc \in {"trigger", "wait"} /\ r.type = "rdb" /\ ~r.excused =>
           /\ lastsave' = lastsave \/ (Running("rdb") /\ disk'["rdb"] = child.asOf)
           /\ Running("rdb")' => child' = child \/ child'.asOf = data
  PROVE  CallSound(r)'
<1>. /\ r.began \in Nat /\ r.before \in Int /\ r.type \in BackupType /\ r.excused \in BOOLEAN
     /\ data \in Nat /\ data' \in Nat /\ lastsave \in Int /\ lastsave' \in Int
     /\ disk \in [BackupType -> Nat] /\ disk' \in [BackupType -> Nat]
     /\ child \in [type : BackupType, asOf : Nat] \cup {Nil}
  BY DEF CallRecord, TypeOK
<1>1. r.began <= data /\ (r.pc = "trigger" => r.type = "rdb")
      /\ (r.pc = "done" => r.id \in [type : {r.type}, at : Nat])
  BY DEF CallSound
<1>2. r.began <= data'
  BY <1>1
<1>3. ASSUME ~r.excused PROVE WillBeFresh(r)'
  <2>1. WillBeFresh(r)
    BY <1>3 DEF CallSound
  <2>2. CASE r.pc = "done" /\ disk[r.type] >= r.began
    <3>1. disk'[r.type] >= r.began
      BY <2>2
    <3>. QED BY <2>2, <3>1 DEF WillBeFresh
  <2>3. CASE /\ r.pc = "wait" /\ r.type = "aof"
             /\ disk["aof"] >= r.began \/ (Running("aof") /\ child.asOf >= r.began)
    <3>1. CASE disk["aof"] >= r.began
      <4>1. disk'["aof"] >= r.began
        BY <3>1 DEF BackupType
      <4>. QED BY <2>3, <4>1 DEF WillBeFresh
    <3>2. CASE Running("aof") /\ child.asOf >= r.began /\ child' = child
      BY <2>3, <3>2 DEF WillBeFresh, Running
    <3>3. CASE Running("aof") /\ child.asOf >= r.began /\ disk'["aof"] = child.asOf
      BY <2>3, <3>3 DEF WillBeFresh
    <3>. QED BY <1>3, <2>3, <3>1, <3>2, <3>3
  <2>4. CASE /\ r.pc \in {"trigger", "wait"} /\ r.type = "rdb"
             /\ Running("rdb") => child.asOf >= r.began
             /\ lastsave > r.before => disk["rdb"] >= r.began
    <3>1. /\ lastsave' = lastsave \/ (Running("rdb") /\ disk'["rdb"] = child.asOf)
          /\ Running("rdb")' => child' = child \/ child'.asOf = data
      BY <1>3, <2>4
    <3>2. Running("rdb")' => child'.asOf >= r.began
      BY <1>1, <2>4, <3>1 DEF Running
    <3>3. lastsave' > r.before => disk'["rdb"] >= r.began
      <4>1. CASE lastsave' = lastsave
        BY <2>4, <4>1 DEF BackupType
      <4>2. CASE Running("rdb") /\ disk'["rdb"] = child.asOf
        BY <2>4, <4>2
      <4>. QED BY <3>1, <4>1, <4>2
    <3>. QED BY <2>4, <3>2, <3>3 DEF WillBeFresh
  <2>. QED BY <2>1, <2>2, <2>3, <2>4 DEF WillBeFresh
<1>. QED BY <1>1, <1>2, <1>3 DEF CallSound

\* A call that the server does not touch at all.
LEMMA CallRests ==
  ASSUME NEW r, CallSound(r), UNCHANGED server
  PROVE  CallSound(r)'
BY DEF server, CallSound, WillBeFresh, Running

\* An excused call claims nothing about the file.
LEMMA ExcusedIsSound ==
  ASSUME TypeOK, TypeOK', NEW r \in CallRecord, CallSound(r), data <= data'
  PROVE  /\ CallSound([r EXCEPT !.excused = TRUE])'
         /\ [r EXCEPT !.excused = TRUE] \in CallRecord
<1>1. r.began <= data'
  BY DEF CallSound, CallRecord, TypeOK
<1>. QED BY <1>1 DEF CallSound, CallRecord

\* Files that are only removed, while the server's own grow.
LEMMA FilesShrink ==
  ASSUME TypeOK, TypeOK', FilesSound, files' \subseteq files, now <= now',
         \A type \in BackupType : disk[type] <= disk'[type]
  PROVE  FilesSound'
<1>1. SUFFICES ASSUME NEW f \in files'
      PROVE  /\ f.at <= now'
             /\ f.holds <= disk'[f.id.type]
             /\ \A g \in files' : g.id.type = f.id.type /\ g.at < f.at => g.holds <= f.holds
  BY DEF FilesSound
<1>2. f.at \in Nat /\ f.holds \in Nat /\ f.id.type \in BackupType
  BY DEF TypeOK, FileRecord
<1>3. now \in Nat /\ now' \in Nat /\ disk[f.id.type] \in Nat /\ disk'[f.id.type] \in Nat
  BY <1>2 DEF TypeOK
<1>4. f.at <= now /\ f.holds <= disk[f.id.type]
  BY DEF FilesSound
<1>5. f.at <= now' /\ f.holds <= disk'[f.id.type]
  BY <1>2, <1>3, <1>4
<1>6. \A g \in files' : g.id.type = f.id.type /\ g.at < f.at => g.holds <= f.holds
  BY DEF FilesSound
<1>. QED BY <1>5, <1>6

\* What a step owes the inductive invariant: the server only moves forward, and the calls
\* it changes are sound.
LEMMA ServerMoves ==
  ASSUME IInv, TypeOK', ServerSound', files' = files, now <= now',
         data <= data', \A type \in BackupType : disk[type] <= disk'[type],
         Running("aof") => child' = child \/ disk'["aof"] = child.asOf,
         lastsave' = lastsave \/ (Running("rdb") /\ disk'["rdb"] = child.asOf),
         Running("rdb")' => child' = child \/ child'.asOf = data,
         \A c \in Callers : call'[c] # call[c] => CallSound(call[c])'
  PROVE  IInv'
<1>1. TypeOK /\ FilesSound
  BY DEF IInv
<1>2. FilesSound'
  BY <1>1, FilesShrink
<1>3. ASSUME NEW c \in Callers, call'[c] # NoCall PROVE CallSound(call[c])'
  <2>1. CASE call'[c] # call[c]
    BY <2>1
  <2>2. CASE call'[c] = call[c]
    <3>1. PICK r : r = call[c]
      OBVIOUS
    <3>2. r \in CallRecord /\ CallSound(r)
      BY <1>3, <2>2, <3>1 DEF IInv, TypeOK
    <3>3. CallSound(r)'
      BY <1>1, <3>2, CallStays
    <3>. QED BY <2>2, <3>1, <3>3
  <2>. QED BY <2>1, <2>2
<1>. QED BY <1>2, <1>3 DEF IInv

\* What a step owes it when it only changes one call.
LEMMA CallMoves ==
  ASSUME IInv, NEW c \in Callers, NEW r \in CallRecord \cup {NoCall},
         r # NoCall => CallSound(r),
         call' = [call EXCEPT ![c] = r], UNCHANGED <<now, server, files>>
  PROVE  IInv'
<1>1. TypeOK' /\ ServerSound' /\ FilesSound'
  BY DEF IInv, TypeOK, ServerSound, FilesSound, server
<1>2. ASSUME NEW d \in Callers, call'[d] # NoCall PROVE CallSound(call[d])'
  <2>1. PICK s : s = call'[d]
    OBVIOUS
  <2>2. CallSound(s)
    <3>1. CASE d = c
      BY <1>2, <2>1, <3>1 DEF IInv, TypeOK
    <3>2. CASE d # c
      BY <1>2, <2>1, <3>2 DEF IInv, TypeOK
    <3>. QED BY <3>1, <3>2
  <2>3. CallSound(s)'
    BY <2>2, CallRests
  <2>. QED BY <2>1, <2>3
<1>. QED BY <1>1, <1>2 DEF IInv

-----------------------------------------------------------------------------
\* The manager.

\* Every call starts as a record of a call.
LEMMA NewCallType ==
  ASSUME TypeOK, NEW type \in BackupType, NEW pc \in {"trigger", "wait"},
         NEW before \in Int, NEW excused \in BOOLEAN
  PROVE  NewCall(type, pc, before, excused) \in CallRecord
BY BackupAssumption DEF NewCall, CallRecord, TypeOK

\* A rewrite that the call started itself holds the data of its beginning.
LEMMA CreateAOFBackupKeeps ==
  ASSUME IInv, NEW c \in Callers, CreateAOFBackup(c)
  PROVE  IInv'
<1>a. PICK excused \in BOOLEAN : excused = (child # Nil)
  BY Zenon
<1>b. excused <=> child # Nil
  BY <1>a, Zenon
<1>c. PICK r : r = NewCall("aof", "wait", ZeroTime, excused)
  OBVIOUS
<1>1. /\ call' = [call EXCEPT ![c] = r]
      /\ UNCHANGED <<now, data, disk, lastsave, files>>
  BY <1>a, <1>c, Zenon DEF CreateAOFBackup
<1>2. TypeOK /\ ServerSound
  BY DEF IInv
<1>3. r \in CallRecord
  BY <1>2, <1>c, NewCallType DEF BackupType, ZeroTime
<1>4. /\ r.began = data /\ r.pc = "wait" /\ r.type = "aof" /\ r.excused = excused
  BY <1>c DEF NewCall
<1>5. \/ child = Nil /\ child' = [type |-> "aof", asOf |-> data]
      \/ child # Nil /\ child' = child
  BY <1>2 DEF CreateAOFBackup, Fork, Running, TypeOK, BackupType
<1>d. scheduled' \in BOOLEAN
  BY <1>2 DEF CreateAOFBackup, Running, TypeOK, BackupType
<1>6. TypeOK'
  BY <1>1, <1>2, <1>3, <1>5, <1>d DEF TypeOK, BackupType
<1>7. ServerSound'
  BY <1>1, <1>2, <1>5 DEF ServerSound, TypeOK, BackupType
<1>8. r.excused \/ WillBeFresh(r)'
  <2>1. CASE child = Nil
    <3>1. child' = [type |-> "aof", asOf |-> data]
      BY <1>5, <2>1
    <3>2. child' # Nil /\ child'.type = "aof" /\ child'.asOf >= r.began
      BY <1>2, <1>4, <3>1, BackupAssumption DEF TypeOK
    <3>. QED BY <1>4, <3>2 DEF WillBeFresh, Running
  <2>2. CASE child # Nil
    BY <1>4, <1>b, <2>2
  <2>. QED BY <2>1, <2>2
<1>9. CallSound(r)'
  BY <1>1, <1>2, <1>4, <1>8 DEF CallSound, TypeOK
<1>10. \A d \in Callers : call'[d] # call[d] => d = c /\ call'[d] = r
  BY <1>1, <1>2 DEF TypeOK
<1>11. \A d \in Callers : call'[d] # call[d] => CallSound(call[d])'
  BY <1>9, <1>10
<1>12. /\ Running("aof") => child' = child
       /\ Running("rdb")' => child' = child \/ child'.asOf = data
       /\ now <= now' /\ data <= data' /\ \A type \in BackupType : disk[type] <= disk'[type]
       /\ lastsave' = lastsave /\ files' = files
  BY <1>1, <1>2, <1>5 DEF Running, TypeOK
<1>. QED BY <1>6, <1>7, <1>11, <1>12, ServerMoves

\* Unless a save runs already, one that LASTSAVE counts begins after the call.
LEMMA CreateRDBBackupKeeps ==
  ASSUME IInv, NEW c \in Callers, CreateRDBBackup(c)
  PROVE  IInv'
<1>1. PICK before \in {lastsave, ZeroTime}, excused \in BOOLEAN :
        /\ call' = [call EXCEPT ![c] = NewCall("rdb", "trigger", before, excused)]
        /\ ~excused => before = lastsave /\ ~Running("rdb")
  BY DEF CreateRDBBackup, Running
<1>. PICK r : r = NewCall("rdb", "trigger", before, excused)
  OBVIOUS
<1>2. TypeOK
  BY DEF IInv
<1>3. r \in CallRecord
  BY <1>2, NewCallType DEF BackupType, ZeroTime, TypeOK
<1>4. /\ r.began = data /\ r.pc = "trigger" /\ r.type = "rdb" /\ r.excused = excused
      /\ r.before = before
  BY DEF NewCall
<1>5. call' = [call EXCEPT ![c] = r]
  BY <1>1
<1>6. r.excused \/ WillBeFresh(r)
  BY <1>1, <1>2, <1>4 DEF WillBeFresh, TypeOK
<1>7. CallSound(r)
  BY <1>2, <1>4, <1>6 DEF CallSound, TypeOK
<1>8. UNCHANGED <<now, server, files>>
  BY DEF CreateRDBBackup
<1>. QED BY <1>3, <1>5, <1>7, <1>8, CallMoves

\* The save that BGSAVE starts, or finds started, began after the call.
LEMMA BGSaveKeeps ==
  ASSUME IInv, NEW c \in Callers, BGSave(c)
  PROVE  IInv'
<1>. PICK q : q = call[c]
  OBVIOUS
<1>. PICK w : w = now + Timeout
  OBVIOUS
<1>. PICK r : r = [q EXCEPT !.pc = "wait", !.deadline = w]
  OBVIOUS
<1>1. UNCHANGED <<now, data, disk, scheduled, lastsave, files>>
  BY DEF BGSave
<1>2. TypeOK /\ ServerSound
  BY DEF IInv
<1>3. q \in CallRecord /\ q.pc = "trigger" /\ CallSound(q)
  BY DEF IInv, BGSave, TypeOK, NoCall
<1>4. call' = [call EXCEPT ![c] = r]
  BY <1>2 DEF BGSave, TypeOK
<1>. w \in Nat
  BY <1>2, BackupAssumption DEF TypeOK
<1>5. /\ r \in CallRecord /\ r.pc = "wait" /\ r.type = q.type /\ r.excused = q.excused
      /\ r.began = q.began /\ r.before = q.before
  BY <1>3 DEF CallRecord
<1>6. \/ child = Nil /\ child' = [type |-> "rdb", asOf |-> data]
      \/ child # Nil /\ child' = child
  BY DEF BGSave, Fork
<1>7. TypeOK'
  BY <1>1, <1>2, <1>4, <1>5, <1>6 DEF TypeOK, BackupType
<1>8. ServerSound'
  BY <1>1, <1>2, <1>6 DEF ServerSound, TypeOK, BackupType
<1>9. r.type = "rdb" /\ r.began <= data
  BY <1>3, <1>5 DEF CallSound
<1>10. r.excused \/ WillBeFresh(r)'
  <2>1. CASE ~r.excused
    <3>1. WillBeFresh(q)
      BY <1>3, <1>5, <2>1 DEF CallSound
    <3>2. (Running("rdb") => child.asOf >= r.began) /\ (lastsave > r.before => disk["rdb"] >= r.began)
      BY <1>3, <1>5, <1>9, <3>1 DEF WillBeFresh
    <3>3. Running("rdb")' => child'.asOf >= r.began
      BY <1>2, <1>5, <1>6, <1>9, <3>2 DEF Running, TypeOK, CallRecord
    <3>. QED BY <1>1, <1>5, <1>9, <3>2, <3>3 DEF WillBeFresh
  <2>. QED BY <1>5, <2>1
<1>11. CallSound(r)'
  BY <1>1, <1>5, <1>9, <1>10 DEF CallSound
<1>12. \A d \in Callers : call'[d] # call[d] => d = c /\ call'[d] = r
  BY <1>2, <1>4 DEF TypeOK
<1>13. \A d \in Callers : call'[d] # call[d] => CallSound(call[d])'
  BY <1>11, <1>12
<1>14. /\ Running("aof") => child' = child
       /\ Running("rdb")' => child' = child \/ child'.asOf = data
       /\ now <= now' /\ data <= data' /\ \A type \in BackupType : disk[type] <= disk'[type]
       /\ lastsave' = lastsave /\ files' = files
  BY <1>1, <1>2, <1>6 DEF Running, TypeOK
<1>. QED BY <1>7, <1>8, <1>13, <1>14, ServerMoves

\* A call that gives up leaves nothing behind.
LEMMA CallFailsKeeps ==
  ASSUME IInv, NEW c \in Callers, CallFails(c)
  PROVE  IInv'
<1>1. call' = [call EXCEPT ![c] = NoCall] /\ UNCHANGED <<now, server, files>>
  BY DEF CallFails
<1>. QED BY <1>1, CallMoves

\* A poll that ends the wait well finds the file fresh.
LEMMA PollKeeps ==
  ASSUME IInv, NEW c \in Callers, Poll(c)
  PROVE  IInv'
<1>. PICK q : q = call[c]
  OBVIOUS
<1>. PICK i : i = [type |-> q.type, at |-> now]
  OBVIOUS
<1>. PICK r : r = [q EXCEPT !.pc = "done", !.id = i]
  OBVIOUS
<1>1. UNCHANGED <<now, server, files>>
  BY DEF Poll
<1>2. TypeOK
  BY DEF IInv
<1>3. q \in CallRecord /\ q.pc = "wait" /\ CallSound(q)
  BY DEF IInv, Poll, Waiting, TypeOK, NoCall
<1>4. CASE call' = [call EXCEPT ![c] = NoCall]
  BY <1>1, <1>4, CallMoves
<1>5. CASE Complete(q) /\ call' = [call EXCEPT ![c].pc = "done", ![c].id = i]
  <2>1. call' = [call EXCEPT ![c] = r]
    BY <1>2, <1>5 DEF TypeOK
  <2>2. i \in [type : BackupType, at : Nat] /\ i \in [type : {q.type}, at : Nat]
    BY <1>2, <1>3 DEF CallRecord, TypeOK
  <2>3. /\ r \in CallRecord /\ r.pc = "done" /\ r.type = q.type /\ r.excused = q.excused
        /\ r.began = q.began /\ r.id = i
    BY <1>3, <2>2 DEF CallRecord
  <2>5. r.excused \/ disk[r.type] >= r.began
    <3>1. CASE ~r.excused
      <4>1. WillBeFresh(q)
        BY <1>3, <2>3, <3>1 DEF CallSound
      <4>2. CASE q.type = "aof"
        BY <1>3, <1>5, <2>3, <4>1, <4>2 DEF WillBeFresh, Complete
      <4>3. CASE q.type = "rdb"
        BY <1>3, <1>5, <2>3, <4>1, <4>3 DEF WillBeFresh, Complete
      <4>. QED BY <1>3, <4>2, <4>3 DEF CallRecord, BackupType
    <3>. QED BY <2>3, <3>1
  <2>6. CallSound(r)
    BY <1>3, <2>2, <2>3, <2>5 DEF CallSound, WillBeFresh
  <2>. QED BY <1>1, <2>1, <2>3, <2>6, CallMoves
<1>. QED BY <1>4, <1>5 DEF Poll

-----------------------------------------------------------------------------
\* The backup directory.

\* A new copy is the newest of its type and holds at least what the others hold.
LEMMA CopyFileKeeps ==
  ASSUME IInv, NEW c \in Callers, CopyFile(c)
  PROVE  IInv'
<1>1. PICK q : q = call[c]
  OBVIOUS
<1>2. PICK size \in {0, 1} :
        files' = {f \in files : f.id # q.id} \cup
                 {[id |-> q.id, size |-> size, at |-> now, holds |-> disk[q.type]]}
  BY <1>1 DEF CopyFile
<1>3. PICK n : n = [id |-> q.id, size |-> size, at |-> now, holds |-> disk[q.type]]
  OBVIOUS
<1>4. files' \subseteq files \cup {n}
  BY <1>2, <1>3
<1>5. call' = [call EXCEPT ![c] = NoCall] /\ UNCHANGED <<now, server>>
  BY DEF CopyFile
<1>6. TypeOK /\ FilesSound
  BY DEF IInv
<1>7. q \in CallRecord /\ q.pc = "done" /\ CallSound(q)
  BY <1>1 DEF IInv, CopyFile, TypeOK, NoCall
<1>8. q.id \in [type : {q.type}, at : Nat] /\ q.type \in BackupType
  BY <1>7 DEF CallSound, CallRecord
<1>9. /\ n \in FileRecord /\ n.id.type = q.type /\ n.at = now /\ n.holds = disk[q.type]
  BY <1>3, <1>6, <1>8 DEF FileRecord, TypeOK
<1>10. TypeOK'
  <2>1. files' \subseteq FileRecord
    BY <1>4, <1>6, <1>9 DEF TypeOK
  <2>. QED BY <1>5, <1>6, <2>1 DEF TypeOK, server
<1>11. ServerSound'
  BY <1>5 DEF IInv, ServerSound, server
<1>12. FilesSound'
  <2>1. SUFFICES ASSUME NEW f \in files'
        PROVE  /\ f.at <= now'
               /\ f.holds <= disk'[f.id.type]
               /\ \A g \in files' : g.id.type = f.id.type /\ g.at < f.at => g.holds <= f.holds
    BY DEF FilesSound
  <2>2. now' = now /\ disk' = disk /\ now \in Nat /\ disk \in [BackupType -> Nat]
    BY <1>5, <1>6 DEF server, TypeOK
  <2>3. \A g \in files : g.at \in Nat /\ g.holds \in Nat /\ g.at <= now /\ g.holds <= disk[g.id.type]
    BY <1>6 DEF TypeOK, FileRecord, FilesSound
  <2>4. CASE f = n
    <3>1. f.at <= now' /\ f.holds <= disk'[f.id.type]
      BY <1>8, <1>9, <2>2, <2>4
    <3>2. ASSUME NEW g \in files', g.id.type = f.id.type, g.at < f.at PROVE g.holds <= f.holds
      <4>1. g # n
        BY <1>9, <2>2, <2>4, <3>2
      <4>2. g \in files
        BY <1>4, <4>1
      <4>. QED BY <1>9, <2>3, <2>4, <3>2, <4>2
    <3>. QED BY <3>1, <3>2
  <2>5. CASE f \in files
    <3>1. f.at <= now' /\ f.holds <= disk'[f.id.type]
      BY <2>2, <2>3, <2>5
    <3>2. ASSUME NEW g \in files', g.id.type = f.id.type, g.at < f.at PROVE g.holds <= f.holds
      <4>1. g # n
        BY <1>9, <2>2, <2>3, <2>5, <3>2
      <4>2. g \in files
        BY <1>4, <4>1
      <4>. QED BY <1>6, <2>5, <3>2, <4>2 DEF FilesSound
    <3>. QED BY <3>1, <3>2
  <2>. QED BY <1>4, <2>4, <2>5
<1>13. ASSUME NEW d \in Callers, call'[d] # NoCall PROVE CallSound(call[d])'
  <2>1. PICK r : r = call'[d]
    OBVIOUS
  <2>2. CallSound(r)
    BY <1>5, <1>6, <1>13, <2>1 DEF IInv, TypeOK
  <2>3. CallSound(r)'
    BY <1>5, <2>2, CallRests
  <2>. QED BY <2>1, <2>3
<1>. QED BY <1>10, <1>11, <1>12, <1>13 DEF IInv

\* Removing files leaves the others as they are.
LEMMA RemovalKeeps ==
  ASSUME IInv, files' \subseteq files, UNCHANGED <<now, server, call>>
  PROVE  IInv'
<1>1. TypeOK /\ TypeOK'
  BY DEF IInv, TypeOK, server
<1>2. now <= now' /\ \A type \in BackupType : disk[type] <= disk'[type]
  BY <1>1 DEF TypeOK, server
<1>3. FilesSound'
  BY <1>1, <1>2, FilesShrink DEF IInv
<1>4. ServerSound'
  BY DEF IInv, ServerSound, server
<1>5. ASSUME NEW d \in Callers, call'[d] # NoCall PROVE CallSound(call[d])'
  <2>1. PICK r : r = call[d]
    OBVIOUS
  <2>2. CallSound(r)
    BY <1>5, <2>1 DEF IInv
  <2>3. CallSound(r)'
    BY <2>2, CallRests
  <2>. QED BY <2>1, <2>3
<1>. QED BY <1>1, <1>3, <1>4, <1>5 DEF IInv

-----------------------------------------------------------------------------
\* The server.

\* A child that is started is as fresh as the data.
LEMMA ForkKeeps ==
  ASSUME IInv, NEW type \in BackupType, child = Nil, Fork(type), scheduled' \in BOOLEAN,
         UNCHANGED <<now, data, disk, lastsave, call, files>>
  PROVE  IInv'
<1>1. TypeOK /\ ServerSound
  BY DEF IInv
<1>2. child' = [type |-> type, asOf |-> data]
  BY DEF Fork
<1>3. TypeOK'
  BY <1>1, <1>2 DEF TypeOK
<1>4. ServerSound'
  BY <1>1, <1>2 DEF ServerSound, TypeOK
<1>5. /\ ~Running("aof") /\ (Running("rdb")' => child'.asOf = data)
      /\ now <= now' /\ data <= data' /\ \A t \in BackupType : disk[t] <= disk'[t]
  BY <1>1, <1>2 DEF Running, TypeOK
<1>. QED BY <1>3, <1>4, <1>5, ServerMoves

\* The data only grows.
LEMMA WriteKeeps ==
  ASSUME IInv, Write
  PROVE  IInv'
<1>1. TypeOK /\ ServerSound
  BY DEF IInv
<1>2. data' = data + 1 /\ UNCHANGED <<now, disk, child, scheduled, lastsave, call, files>>
  BY DEF Write
<1>3. TypeOK'
  BY <1>1, <1>2 DEF TypeOK
<1>4. ServerSound'
  BY <1>1, <1>2 DEF ServerSound, TypeOK
<1>5. /\ now <= now' /\ data <= data' /\ \A t \in BackupType : disk[t] <= disk'[t]
  BY <1>1, <1>2 DEF TypeOK
<1>. QED BY <1>2, <1>3, <1>4, <1>5, ServerMoves

\* The child's file replaces an older one.
LEMMA ChildEndsKeeps ==
  ASSUME IInv, ChildEnds
  PROVE  IInv'
<1>1. TypeOK /\ ServerSound
  BY DEF IInv
<1>2. PICK t \in BackupType, a \in Nat : child # Nil /\ child = [type |-> t, asOf |-> a]
  BY <1>1 DEF ChildEnds, TypeOK
<1>3. /\ child' = Nil /\ disk' = [disk EXCEPT ![t] = a]
      /\ lastsave' = IF t = "rdb" THEN now ELSE lastsave
      /\ UNCHANGED <<now, data, scheduled, call, files>>
  BY <1>2 DEF ChildEnds
<1>4. disk[t] <= a /\ a <= data
  BY <1>1, <1>2 DEF ServerSound
<1>5. TypeOK'
  BY <1>1, <1>2, <1>3 DEF TypeOK
<1>6. ServerSound'
  BY <1>1, <1>3, <1>4 DEF ServerSound, TypeOK
<1>7. \A s \in BackupType : disk[s] <= disk'[s]
  BY <1>1, <1>3, <1>4 DEF TypeOK
<1>8. disk'[t] = a /\ child.asOf = a /\ child.type = t
  BY <1>1, <1>2, <1>3 DEF TypeOK
<1>9. /\ Running("aof") => disk'["aof"] = child.asOf
      /\ lastsave' = lastsave \/ (Running("rdb") /\ disk'["rdb"] = child.asOf)
      /\ ~Running("rdb")'
  BY <1>2, <1>3, <1>8 DEF Running
<1>10. now <= now' /\ data <= data'
  BY <1>1, <1>3 DEF TypeOK
<1>. QED BY <1>3, <1>5, <1>6, <1>7, <1>9, <1>10, ServerMoves

\* What excusing leaves of a call.
LEMMA ExcusedCalls ==
  ASSUME IInv, NEW types, call' = Excused(types), NEW c \in Callers
  PROVE  /\ call'[c] \in CallRecord \cup {NoCall}
         /\ call'[c] # NoCall => call[c] \in CallRecord /\ CallSound(call[c])
         /\ call'[c] # NoCall =>
              IF call[c].pc \in {"trigger", "wait"} /\ call[c].type \in types
              THEN call'[c] = [call[c] EXCEPT !.excused = TRUE] ELSE call'[c] = call[c]
<1>1. PICK r \in CallRecord \cup {NoCall} : r = call[c]
  BY DEF IInv, TypeOK
<1>2. call'[c] = IF r.pc \in {"trigger", "wait"} /\ r.type \in types
                 THEN [r EXCEPT !.excused = TRUE] ELSE r
  BY <1>1 DEF Excused
<1>3. CASE r = NoCall
  <2>1. r.pc \notin {"trigger", "wait"}
    BY <1>3 DEF NoCall
  <2>. QED BY <1>1, <1>2, <1>3, <2>1
<1>4. CASE r \in CallRecord
  <2>1. [r EXCEPT !.excused = TRUE] \in CallRecord
    BY <1>4 DEF CallRecord
  <2>2. r # NoCall
    BY <1>4 DEF CallRecord, NoCall
  <2>. QED BY <1>1, <1>2, <1>4, <2>1, <2>2 DEF IInv
<1>. QED BY <1>3, <1>4

\* The calls that wait are excused where the child they wait for fails.
LEMMA ExcuseKeeps ==
  ASSUME IInv, NEW types, call' = Excused(types), child' = Nil, scheduled' \in BOOLEAN,
         lastsave' \in Int, UNCHANGED <<now, data, disk, files>>,
         "aof" \notin types => ~Running("aof"),
         "rdb" \notin types => lastsave' = lastsave
  PROVE  IInv'
<1>1. TypeOK /\ ServerSound /\ FilesSound
  BY DEF IInv
<1>2. call' \in [Callers -> CallRecord \cup {NoCall}]
  BY ExcusedCalls DEF Excused
<1>3. TypeOK'
  BY <1>1, <1>2 DEF TypeOK
<1>4. ServerSound' /\ FilesSound'
  BY <1>1 DEF ServerSound, FilesSound
<1>5. data <= data' /\ \A t \in BackupType : disk[t] <= disk'[t]
  BY <1>1 DEF TypeOK
<1>6. ASSUME NEW c \in Callers, call'[c] # NoCall PROVE CallSound(call[c])'
  <2>1. PICK r : r = call[c]
    OBVIOUS
  <2>2. r \in CallRecord /\ CallSound(r)
    BY <1>6, <2>1, ExcusedCalls
  <2>3. CASE r.pc \in {"trigger", "wait"} /\ r.type \in types
    <3>1. PICK e : e = [r EXCEPT !.excused = TRUE]
      OBVIOUS
    <3>2. call'[c] = e
      BY <1>6, <2>1, <2>3, <3>1, ExcusedCalls
    <3>3. CallSound(e)'
      BY <1>1, <1>3, <1>5, <2>2, <3>1, ExcusedIsSound
    <3>. QED BY <3>2, <3>3
  <2>4. CASE ~(r.pc \in {"trigger", "wait"} /\ r.type \in types)
    <3>1. call'[c] = r
      BY <1>6, <2>1, <2>4, ExcusedCalls
    <3>2. r.pc = "wait" /\ r.type = "aof" => ~Running("aof")
      BY <2>4
    <3>3. r.pc \in {"trigger", "wait"} /\ r.type = "rdb" => lastsave' = lastsave
      BY <2>4
    <3>4. ~Running("rdb")'
      BY DEF Running
    <3>5. CallSound(r)'
      BY <1>1, <1>3, <1>5, <2>2, <3>2, <3>3, <3>4, CallStays
    <3>. QED BY <3>1, <3>5
  <2>. QED BY <2>3, <2>4
<1>. QED BY <1>3, <1>4, <1>6 DEF IInv

\* A child that fails changes no file.
LEMMA ChildFailsKeeps ==
  ASSUME IInv, ChildFails
  PROVE  IInv'
<1>1. child' = Nil /\ UNCHANGED <<now, data, disk, scheduled, lastsave, files>> /\ child # Nil
  BY DEF ChildFails
<1>2. TypeOK /\ ServerSound
  BY DEF IInv
<1>3. lastsave' \in Int /\ lastsave' = lastsave
  BY <1>1, <1>2 DEF TypeOK
<1>s. scheduled' \in BOOLEAN
  BY <1>1, <1>2 DEF TypeOK
<1>4. CASE child.type = "aof"
  <2>1. call' = Excused({"aof"})
    BY <1>4 DEF ChildFails
  <2>2. PICK types : types = {"aof"}
    OBVIOUS
  <2>3. call' = Excused(types) /\ "aof" \in types
    BY <2>1, <2>2
  <2>. QED BY <1>1, <1>3, <1>s, <2>3, ExcuseKeeps
<1>5. CASE child.type # "aof"
  <2>1. call' = call
    BY <1>5 DEF ChildFails
  <2>2. ~Running("aof") /\ ~Running("rdb")'
    BY <1>1, <1>5 DEF Running
  <2>3. TypeOK'
    BY <1>1, <1>2, <2>1 DEF TypeOK
  <2>4. ServerSound'
    BY <1>1, <1>2 DEF ServerSound
  <2>5. now <= now' /\ data <= data' /\ \A t \in BackupType : disk[t] <= disk'[t]
    BY <1>1, <1>2 DEF TypeOK
  <2>. QED BY <1>1, <2>1, <2>2, <2>3, <2>4, <2>5, ServerMoves
<1>. QED BY <1>4, <1>5

\* A restart moves LASTSAVE without a save, and so excuses every call that waits.
LEMMA RestartKeeps ==
  ASSUME IInv, Restart
  PROVE  IInv'
<1>1. TypeOK
  BY DEF IInv
<1>2. child' = Nil /\ lastsave' \in Int /\ UNCHANGED <<now, data, disk, files>>
  BY <1>1 DEF Restart, TypeOK
<1>3. scheduled' \in BOOLEAN
  BY DEF Restart
<1>4. PICK types : types = BackupType
  OBVIOUS
<1>5. call' = Excused(types) /\ "aof" \in types /\ "rdb" \in types
  BY <1>4 DEF Restart, BackupType
<1>. QED BY <1>2, <1>3, <1>5, ExcuseKeeps

\* Time passes.
LEMMA TickKeeps ==
  ASSUME IInv, Tick
  PROVE  IInv'
<1>1. TypeOK /\ ServerSound
  BY DEF IInv
<1>2. now' = now + 1 /\ UNCHANGED <<data, disk, child, scheduled, lastsave, call, files>>
  BY DEF Tick, server
<1>3. TypeOK'
  BY <1>1, <1>2 DEF TypeOK
<1>4. ServerSound'
  BY <1>1, <1>2 DEF ServerSound
<1>5. /\ now <= now' /\ data <= data' /\ \A t \in BackupType : disk[t] <= disk'[t]
  BY <1>1, <1>2 DEF TypeOK
<1>. QED BY <1>2, <1>3, <1>4, <1>5, ServerMoves

-----------------------------------------------------------------------------
\* Every step keeps the inductive invariant.
LEMMA StepKeepsIInv ==
  ASSUME IInv, [Next]_vars
  PROVE  IInv'
<1>1. CASE \E c \in Callers : CreateAOFBackup(c)
  BY <1>1, CreateAOFBackupKeeps
<1>2. CASE \E c \in Callers : CreateRDBBackup(c)
  BY <1>2, CreateRDBBackupKeeps
<1>3. CASE \E c \in Callers : BGSave(c)
  BY <1>3, BGSaveKeeps
<1>4. CASE \E c \in Callers : CallFails(c)
  BY <1>4, CallFailsKeeps
<1>5. CASE \E c \in Callers : Poll(c)
  BY <1>5, PollKeeps
<1>6. CASE \E c \in Callers : CopyFile(c)
  BY <1>6, CopyFileKeeps
<1>7. CASE \E id \in {f.id : f \in files} : DeleteBackup(id)
  <2>1. files' \subseteq files /\ UNCHANGED <<now, server, call>>
    BY <1>7 DEF DeleteBackup
  <2>. QED BY <2>1, RemovalKeeps
<1>8. CASE CleanupOldBackups
  <2>1. files' \subseteq files /\ UNCHANGED <<now, server, call>>
    BY <1>8 DEF CleanupOldBackups
  <2>. QED BY <2>1, RemovalKeeps
<1>9. CASE Write
  BY <1>9, WriteKeeps
<1>10. CASE OtherSaves
  <2>1. scheduled' \in BOOLEAN
    BY <1>10 DEF OtherSaves, IInv, TypeOK
  <2>2. /\ child = Nil /\ \E type \in BackupType : Fork(type)
        /\ UNCHANGED <<now, data, disk, lastsave, call, files>>
    BY <1>10 DEF OtherSaves
  <2>. QED BY <2>1, <2>2, ForkKeeps
<1>11. CASE ChildEnds
  BY <1>11, ChildEndsKeeps
<1>12. CASE ChildFails
  BY <1>12, ChildFailsKeeps
<1>13. CASE StartScheduled
  <2>1. scheduled' \in BOOLEAN /\ "aof" \in BackupType
    BY <1>13 DEF StartScheduled, BackupType
  <2>2. child = Nil /\ Fork("aof") /\ UNCHANGED <<now, data, disk, lastsave, call, files>>
    BY <1>13 DEF StartScheduled
  <2>. QED BY <2>1, <2>2, ForkKeeps
<1>14. CASE Restart
  BY <1>14, RestartKeeps
<1>15. CASE Tick
  BY <1>15, TickKeeps
<1>16. CASE UNCHANGED vars
  <2>1. files' \subseteq files /\ UNCHANGED <<now, server, call>>
    BY <1>16 DEF vars
  <2>. QED BY <2>1, RemovalKeeps
<1>. QED BY <1>1, <1>2, <1>3, <1>4, <1>5, <1>6, <1>7, <1>8, <1>9, <1>10, <1>11, <1>12,
            <1>13, <1>14, <1>15, <1>16 DEF Next

\* The inductive invariant holds in every reachable state.
THEOREM IInvHolds == Spec => []IInv
<1>1. Init => IInv
  <2>1. SUFFICES ASSUME Init PROVE IInv
    OBVIOUS
  <2>a. scheduled \in BOOLEAN
    BY <2>1, Zenon DEF Init
  <2>b. /\ now = 1 /\ data = 0 /\ disk = [t \in BackupType |-> 0] /\ child = Nil
        /\ lastsave = 0 /\ call = [c \in Callers |-> NoCall] /\ files = {}
    BY <2>1, Zenon DEF Init
  <2>2. TypeOK
    BY <2>a, <2>b DEF TypeOK
  <2>3. ServerSound
    BY <2>1 DEF Init, ServerSound
  <2>4. FilesSound /\ \A c \in Callers : call[c] = NoCall
    BY <2>1 DEF Init, FilesSound
  <2>. QED BY <2>2, <2>3, <2>4 DEF IInv
<1>2. IInv /\ [Next]_vars => IInv'
  BY StepKeepsIInv
<1>. QED BY <1>1, <1>2, PTL DEF Spec

\* A call that reports success leaves on the server everything that was written before it
\* began, whatever other saves, calls and operators do meanwhile, unless it is excused.
THEOREM SuccessesAreFresh == Spec => []SuccessIsFresh
<1>1. ASSUME IInv PROVE SuccessIsFresh
  <2>1. SUFFICES ASSUME NEW c \in Callers, call[c].pc = "done", ~call[c].excused
        PROVE  disk[call[c].type] >= call[c].began
    BY DEF SuccessIsFresh
  <2>2. PICK r : r = call[c]
    OBVIOUS
  <2>3. r # NoCall
    BY <2>1, <2>2 DEF NoCall
  <2>4. CallSound(r)
    BY <1>1, <2>2, <2>3 DEF IInv
  <2>5. WillBeFresh(r)
    BY <2>1, <2>2, <2>4 DEF CallSound
  <2>6. r.pc = "done"
    BY <2>1, <2>2
  <2>7. disk[r.type] >= r.began
    BY <2>5, <2>6 DEF WillBeFresh
  <2>. QED BY <2>2, <2>7
<1>. QED BY <1>1, IInvHolds, PTL

\* The latest backup holds at least what every older one holds.
THEOREM LatestBackupIsNewest == Spec => []LatestIsNewest
<1>1. ASSUME IInv PROVE LatestIsNewest
  <2>1. SUFFICES ASSUME NEW type \in BackupType, NEW f \in GetLatestBackup(type),
                        NEW g \in ListBackups(type), g.at # f.at
        PROVE  g.holds <= f.holds
    BY DEF LatestIsNewest
  <2>2. f \in files /\ g \in files /\ g.id.type = f.id.type /\ g.at <= f.at
    BY DEF GetLatestBackup, ListBackups
  <2>3. f.at \in Nat /\ g.at \in Nat
    BY <1>1, <2>2 DEF IInv, TypeOK, FileRecord
  <2>4. g.at < f.at
    BY <2>1, <2>2, <2>3
  <2>. QED BY <1>1, <2>2, <2>4 DEF IInv, FilesSound
<1>. QED BY <1>1, IInvHolds, PTL

-----------------------------------------------------------------------------
\* Routes.

\* Induction over the natural numbers, for a set.
LEMMA SetInduction ==
  ASSUME NEW S, 0 \in S, \A n \in Nat : n \in S => n + 1 \in S
  PROVE  Nat \subseteq S
<1> DEFINE T == Nat \ S
<1>1. SUFFICES ASSUME T # {} PROVE FALSE
  OBVIOUS
<1>2. PICK x \in T : \A y \in T : ~(<<y, x>> \in OpToRel(<, Nat))
  BY <1>1, NatLessThanWellFounded, WFMin, Zenon
<1>3. \A y \in T : ~(y < x)
  BY <1>2 DEF OpToRel
<1>4. x - 1 \in Nat /\ x - 1 \notin T
  BY <1>3
<1>. QED BY <1>4

\* A set of numbers has a least one.
LEMMA MinOfNumbers ==
  ASSUME NEW S, S \subseteq Nat, S # {}
  PROVE  Min(S) \in S /\ \A y \in S : Min(S) <= y
<1>1. PICK x \in S : \A y \in S : ~(<<y, x>> \in OpToRel(<, Nat))
  BY NatLessThanWellFounded, WFMin, Zenon
<1>0. x \in Nat /\ \A y \in S : y \in Nat /\ ~(y < x)
  BY <1>1 DEF OpToRel
<1>2. \A y \in S : x <= y
  BY <1>0
<1>3. \E z \in S : \A y \in S : z <= y
  BY <1>2
<1>. QED BY <1>3 DEF Min

\* A bounded set of numbers has a greatest one.
LEMMA MaxOfPlaces ==
  ASSUME NEW n \in Nat, NEW S, S \subseteq 1..n, S # {}
  PROVE  Max(S) \in S /\ \A y \in S : Max(S) >= y
<1> DEFINE T == {m \in Nat : \A y \in S : y <= m}
<1>1. n \in T
  OBVIOUS
<1>2. PICK m \in T : \A y \in T : ~(<<y, m>> \in OpToRel(<, Nat))
  BY <1>1, NatLessThanWellFounded, WFMin, Zenon
<1>3. m \in T /\ \A y \in T : ~(y < m)
  BY <1>2 DEF OpToRel
<1>4. m \in S
  <2>1. SUFFICES ASSUME m \notin S PROVE FALSE
    OBVIOUS
  <2>2. PICK y \in S : TRUE
    OBVIOUS
  <2>3. y <= m /\ y \in 1..n /\ m \in Nat
    BY <1>3, <2>2
  <2>4. m - 1 \in Nat
    BY <2>3
  <2>5. \A z \in S : z \in Int /\ z <= m /\ z # m
    BY <1>3, <2>1
  <2>6. \A z \in S : z <= m - 1
    BY <2>3, <2>5
  <2>. QED BY <1>3, <2>4, <2>6
<1>5. \E x \in S : \A y \in S : x >= y
  BY <1>3, <1>4
<1>. QED BY <1>5 DEF Max

-----------------------------------------------------------------------------
\* Distances are natural numbers.
LEMMA DistanceIsNat ==
  ASSUME NEW a \in Nat, NEW b \in Nat
  PROVE  DistanceTo(a, b) \in Nat
BY DEF DistanceTo

\* d holds the distance along the stops of s up to each of the first m.
Line(d, s, m) ==
  d = [k \in 1..m |-> IF k = 1 THEN 0 ELSE d[k - 1] + DistanceTo(s[k - 1].at, s[k].at)]

\* It is determined by the locations.
LEMMA LineAgree ==
  ASSUME NEW s, NEW t, NEW d, NEW e, NEW m \in Nat \ {0}, Line(d, s, m), Line(e, t, m),
         \A n \in 1..m : s[n].at = t[n].at
  PROVE  d[m] = e[m]
<1> DEFINE S == {n \in Nat : n + 1 <= m => d[n + 1] = e[n + 1]}
<1>1. 0 \in S
  BY DEF Line
<1>2. ASSUME NEW n \in Nat, n \in S PROVE n + 1 \in S
  <2>1. SUFFICES ASSUME n + 1 + 1 <= m PROVE d[n + 1 + 1] = e[n + 1 + 1]
    OBVIOUS
  <2>2. PICK k \in 2..m : k = n + 1 + 1 /\ k - 1 = n + 1
    BY <2>1
  <2>3. d[k - 1] = e[k - 1] /\ s[k].at = t[k].at /\ s[k - 1].at = t[k - 1].at /\ k # 1 /\ k \in 1..m
    BY <1>2, <2>1, <2>2
  <2>4. d[k] = d[k - 1] + DistanceTo(s[k - 1].at, s[k].at)
    BY <2>2, <2>3 DEF Line
  <2>5. e[k] = e[k - 1] + DistanceTo(t[k - 1].at, t[k].at)
    BY <2>2, <2>3 DEF Line
  <2>. QED BY <2>2, <2>3, <2>4, <2>5
<1>3. m - 1 \in S
  <2>. HIDE DEF S
  <2>. QED BY <1>1, <1>2, SetInduction
<1>. QED BY <1>3

\* It exists, and holds natural numbers.
LEMMA LineExists ==
  ASSUME NEW s \in Seq(Stop), NEW m \in 1..Len(s)
  PROVE  \E d \in [1..m -> Nat] : Line(d, s, m)
<1> DEFINE Step(d, k) == IF k = 1 THEN 0 ELSE d[k - 1] + DistanceTo(s[k - 1].at, s[k].at)
           Upto(n) == \E d \in [1..n -> Nat] : \A k \in 1..n : d[k] = Step(d, k)
           S == {n \in Nat : n <= m => Upto(n)}
<1>0. m \in Nat /\ \A k \in 1..m : s[k].at \in Nat
  <2>1. m \in Nat /\ \A k \in 1..m : s[k] \in Stop
    OBVIOUS
  <2>. QED BY <2>1 DEF Stop
<1>1. 0 \in S
  <2>1. PICK d : d = [k \in 1..0 |-> 0]
    OBVIOUS
  <2>2. d \in [1..0 -> Nat] /\ \A k \in 1..0 : d[k] = Step(d, k)
    BY <2>1
  <2>3. Upto(0)
    BY <2>2
  <2>. HIDE DEF Upto
  <2>. QED BY <2>3
<1>2. ASSUME NEW n \in Nat, n \in S PROVE n + 1 \in S
  <2>1. SUFFICES ASSUME n + 1 <= m PROVE Upto(n + 1)
    <3>. HIDE DEF Upto
    <3>. QED OBVIOUS
  <2>0. Upto(n)
    <3>. HIDE DEF Upto
    <3>. QED BY <1>0, <1>2, <2>1
  <2>2. PICK d \in [1..n -> Nat] : \A k \in 1..n : d[k] = Step(d, k)
    BY <2>0
  <2>3. PICK x \in Nat : x = IF n = 0 THEN 0 ELSE d[n] + DistanceTo(s[n].at, s[n + 1].at)
    <3>1. CASE n = 0
      BY <3>1
    <3>2. CASE n # 0
      <4>1. d[n] \in Nat /\ s[n].at \in Nat /\ s[n + 1].at \in Nat
        BY <1>0, <2>1, <2>2, <3>2
      <4>2. DistanceTo(s[n].at, s[n + 1].at) \in Nat
        BY <4>1, DistanceIsNat
      <4>. QED BY <3>2, <4>1, <4>2
    <3>. QED BY <3>1, <3>2
  <2>4. PICK h : h = [k \in 1..(n + 1) |-> IF k = n + 1 THEN x ELSE d[k]]
    OBVIOUS
  <2>5. h \in [1..(n + 1) -> Nat]
    BY <2>2, <2>3, <2>4
  <2>6. ASSUME NEW k \in 1..(n + 1) PROVE h[k] = Step(h, k)
    <3>1. CASE k = n + 1
      <4>1. h[k] = x /\ (k # 1 => h[k - 1] = d[n]) /\ k - 1 = n /\ (k = 1 <=> n = 0)
        BY <2>4, <3>1
      <4>. QED BY <2>3, <3>1, <4>1
    <3>2. CASE k # n + 1
      <4>1. k \in 1..n /\ h[k] = d[k] /\ (k # 1 => h[k - 1] = d[k - 1])
        BY <2>4, <3>2
      <4>. QED BY <2>2, <4>1
    <3>. QED BY <3>1, <3>2
  <2>. QED BY <2>5, <2>6
<1>3. m \in S
  <2>. HIDE DEF S
  <2>. QED BY <1>0, <1>1, <1>2, SetInduction
<1>4. PICK d \in [1..m -> Nat] : \A k \in 1..m : d[k] = Step(d, k)
  <2>1. Upto(m)
    <3>. HIDE DEF Upto
    <3>. QED BY <1>0, <1>3
  <2>. QED BY <2>1
<1>5. Line(d, s, m)
  BY <1>4 DEF Line
<1>. QED BY <1>5

\* LineDistance is the last value of any such function.
LEMMA LineIs ==
  ASSUME NEW s, NEW m \in Nat \ {0}, NEW d, Line(d, s, m)
  PROVE  LineDistance(s, m) = d[m]
<1> DEFINE w == CHOOSE h : Line(h, s, m)
<1>1. Line(w, s, m)
  OBVIOUS
<1>2. LineDistance(s, m) = w[m]
  BY DEF LineDistance, Line
<1>. HIDE DEF w
<1>3. w[m] = d[m]
  BY <1>1, LineAgree
<1>. QED BY <1>2, <1>3

\* The distance along the line is a natural number, and none for the first stop.
LEMMA LineDistanceIs ==
  ASSUME NEW s \in Seq(Stop), NEW m \in 1..Len(s)
  PROVE  LineDistance(s, m) \in Nat /\ (m = 1 => LineDistance(s, m) = 0)
<1>1. PICK d \in [1..m -> Nat] : Line(d, s, m)
  BY LineExists
<1>2. LineDistance(s, m) = d[m] /\ m \in 1..m
  BY <1>1, LineIs
<1>3. m = 1 => d[m] = 0
  BY <1>1 DEF Line
<1>. QED BY <1>1, <1>2, <1>3

\* Distances that the stops had before do not count.
LEMMA LineDistanceSame ==
  ASSUME NEW s \in Seq(Stop), NEW t \in Seq(Stop), Len(s) = Len(t), NEW m \in 1..Len(s),
         \A k \in 1..Len(s) : s[k].at = t[k].at
  PROVE  LineDistance(s, m) = LineDistance(t, m)
<1>1. PICK d : Line(d, s, m)
  BY LineExists
<1>2. PICK e : Line(e, t, m)
  BY LineExists
<1>3. m \in Nat \ {0} /\ \A n \in 1..m : s[n].at = t[n].at
  OBVIOUS
<1>4. d[m] = e[m]
  BY <1>1, <1>2, <1>3, LineAgree
<1>. QED BY <1>1, <1>2, <1>3, <1>4, LineIs

-----------------------------------------------------------------------------
\* What the stops of a loaded route look like: the first is at 0, and a route whose last
\* stop is at 0 has been computed and has no length.
Calculated(t) ==
  /\ t \in Seq(Stop) /\ Len(t) >= 2 /\ t[1].cum = 0
  /\ t[Len(t)].cum > 0 \/ \A i \in 1..Len(t) : t[i].cum = LineDistance(t, i)

\* Calculating brings the stops into that shape and keeps which stops they are.
LEMMA CalculatedIs ==
  ASSUME NEW s \in Seq(Stop), Len(s) >= 2
  PROVE  LET t == CalculateCumulativeDistances(s)
         IN Calculated(t) /\ Len(t) = Len(s) /\ \A i \in 1..Len(s) : t[i].id = s[i].id /\ t[i].at = s[i].at
<1>0. Len(s) \in Nat /\ DOMAIN s = 1..Len(s) /\ 1 \in 1..Len(s) /\ \A i \in 1..Len(s) : s[i] \in Stop
  OBVIOUS
<1>1. PICK f : f = [s EXCEPT ![1].cum = 0]
  OBVIOUS
<1>2. [s[1] EXCEPT !.cum = 0] \in Stop
  <2>1. s[1] \in Stop
    BY <1>0
  <2>. QED BY <2>1 DEF Stop
<1>3. f = [s EXCEPT ![1] = [s[1] EXCEPT !.cum = 0]]
  BY <1>0, <1>1
<1>4. f \in Seq(Stop) /\ Len(f) = Len(s) /\ DOMAIN f = 1..Len(s)
  BY <1>0, <1>2, <1>3, ExceptSeq
<1>5. f[1].cum = 0 /\ \A i \in 1..Len(s) : f[i].id = s[i].id /\ f[i].at = s[i].at
  <2>1. f[1] = [s[1] EXCEPT !.cum = 0] /\ \A i \in 1..Len(s) : i # 1 => f[i] = s[i]
    BY <1>0, <1>3
  <2>2. s[1] \in Stop
    BY <1>0
  <2>3. f[1].cum = 0 /\ f[1].id = s[1].id /\ f[1].at = s[1].at
    BY <2>1, <2>2 DEF Stop
  <2>. QED BY <2>1, <2>3
<1>6. CASE f[Len(f)].cum > 0
  <2>1. CalculateCumulativeDistances(s) = f
    BY <1>1, <1>6 DEF CalculateCumulativeDistances
  <2>. QED BY <1>4, <1>5, <1>6, <2>1 DEF Calculated
<1>7. CASE ~(f[Len(f)].cum > 0)
  <2>1. PICK t : t = [i \in DOMAIN f |-> [f[i] EXCEPT !.cum = LineDistance(f, i)]]
    OBVIOUS
  <2>2. CalculateCumulativeDistances(s) = t
    BY <1>1, <1>7, <2>1 DEF CalculateCumulativeDistances
  <2>3. ASSUME NEW i \in 1..Len(s)
        PROVE  t[i] \in Stop /\ t[i].id = s[i].id /\ t[i].at = s[i].at /\ t[i].cum = LineDistance(f, i)
    <3>1. f[i] \in Stop /\ f[i].id = s[i].id /\ f[i].at = s[i].at
      BY <1>4, <1>5
    <3>2. LineDistance(f, i) \in Nat
      BY <1>4, LineDistanceIs
    <3>3. t[i] = [f[i] EXCEPT !.cum = LineDistance(f, i)]
      BY <1>4, <2>1
    <3>4. PICK d \in Nat : d = LineDistance(f, i)
      BY <3>2
    <3>5. PICK x \in Stop : x = f[i]
      BY <3>1
    <3>6. PICK y : y = [x EXCEPT !.cum = d]
      OBVIOUS
    <3>7. y \in Stop /\ y.id = x.id /\ y.at = x.at /\ y.cum = d
      <4>1. x = [id |-> x.id, at |-> x.at, cum |-> x.cum] /\ x.id \in StopIDs /\ x.at \in Nat
        BY DEF Stop
      <4>2. y = [id |-> x.id, at |-> x.at, cum |-> d]
        BY <3>6, <4>1
      <4>3. d \in Int
        OBVIOUS
      <4>. QED BY <4>1, <4>2, <4>3 DEF Stop
    <3>. QED BY <3>1, <3>3, <3>4, <3>5, <3>6, <3>7, Zenon
  <2>4. t \in Seq(Stop) /\ Len(t) = Len(s)
    <3>1. t = [i \in 1..Len(s) |-> t[i]]
      BY <1>4, <2>1
    <3>2. t \in [1..Len(s) -> Stop]
      BY <2>3, <3>1
    <3>. QED BY <1>0, <3>2
  <2>5. \A i \in 1..Len(t) : t[i].cum = LineDistance(t, i)
    <3>1. ASSUME NEW i \in 1..Len(t) PROVE t[i].cum = LineDistance(t, i)
      <4>1. LineDistance(f, i) = LineDistance(t, i)
        <5>1. \A k \in 1..Len(f) : f[k].at = t[k].at
          BY <1>4, <1>5, <2>3
        <5>. QED BY <1>4, <2>4, <5>1, LineDistanceSame
      <4>. QED BY <2>3, <2>4, <4>1
    <3>. QED BY <3>1
  <2>6. t[1].cum = 0
    <3>1. LineDistance(f, 1) = 0
      BY <1>0, <1>4, LineDistanceIs
    <3>. QED BY <1>0, <2>3, <3>1
  <2>7. Calculated(t)
    BY <2>4, <2>5, <2>6 DEF Calculated
  <2>. QED BY <2>2, <2>3, <2>4, <2>7
<1>. QED BY <1>6, <1>7

\* Calculating again changes nothing.
LEMMA CalculatedStays ==
  ASSUME NEW t, Calculated(t)
  PROVE  CalculateCumulativeDistances(t) = t
<1>0. /\ t \in Seq(Stop) /\ Len(t) \in Nat /\ DOMAIN t = 1..Len(t)
      /\ 1 \in 1..Len(t) /\ \A i \in 1..Len(t) : t[i] \in Stop
  BY DEF Calculated
<1>1. [t EXCEPT ![1].cum = 0] = t
  <2>1. t[1] \in Stop /\ t[1].cum = 0
    BY <1>0 DEF Calculated
  <2>2. [t[1] EXCEPT !.cum = 0] = t[1]
    BY <2>1 DEF Stop
  <2>3. [t EXCEPT ![1] = t[1]] = t
    BY <1>0
  <2>. QED BY <2>2, <2>3
<1>2. CASE t[Len(t)].cum > 0
  BY <1>1, <1>2 DEF CalculateCumulativeDistances
<1>3. CASE ~(t[Len(t)].cum > 0)
  <2>1. \A i \in 1..Len(t) : t[i].cum = LineDistance(t, i)
    BY <1>3 DEF Calculated
  <2>2. ASSUME NEW i \in 1..Len(t) PROVE [t[i] EXCEPT !.cum = LineDistance(t, i)] = t[i]
    <3>1. t[i] \in Stop /\ LineDistance(t, i) = t[i].cum
      BY <1>0, <2>1
    <3>. QED BY <3>1 DEF Stop
  <2>3. [i \in DOMAIN t |-> [t[i] EXCEPT !.cum = LineDistance(t, i)]] = [i \in DOMAIN t |-> t[i]]
    BY <1>0, <2>2
  <2>4. [i \in DOMAIN t |-> t[i]] = t
    BY <1>0
  <2>. QED BY <1>1, <1>3, <2>3, <2>4 DEF CalculateCumulativeDistances
<1>. QED BY <1>2, <1>3

-----------------------------------------------------------------------------
\* Loading a row that was saved always succeeds, and changes only the distances.
LEMMA LoadedIs ==
  ASSUME NEW r \in Storable
  PROVE  LET n == [r EXCEPT !.stops = CalculateCumulativeDistances(r.stops),
                            !.rate = setRouteCharacteristics(r.type)]
         IN RehydrateRoute(r) = {n} /\ n \in Storable
<1>1. /\ r.stops \in Seq(Stop) /\ Len(r.stops) >= 2 /\ r.direction \in RouteDirection
      /\ r.type \in RouteType /\ r.period \in Period /\ r.period.until > r.period.from
      /\ r.version \in Nat \ {0} /\ r.version > 0 /\ r.status \in Statuses \cup {"Active"}
      /\ r = [stops |-> r.stops, direction |-> r.direction, type |-> r.type, rate |-> r.rate,
              status |-> r.status, period |-> r.period, version |-> r.version]
  BY DEF Storable
<1>2. PICK t : t = CalculateCumulativeDistances(r.stops)
  OBVIOUS
<1>3. t \in Seq(Stop) /\ Len(t) >= 2
  BY <1>1, <1>2, CalculatedIs DEF Calculated
<1>4. PICK e : e = setRouteCharacteristics(r.type)
  OBVIOUS
<1>5. e \in 12..14
  BY <1>1, <1>4 DEF setRouteCharacteristics, RouteType
<1>6. Len(r.stops) \in Nat /\ r.period.until \in Int /\ r.period.from \in Int
  BY <1>1 DEF Period
<1>7. NewRoute(r.stops, r.direction, r.type, r.period) =
        {[stops |-> t, direction |-> r.direction, type |-> r.type, rate |-> e,
          status |-> "Active", period |-> r.period, version |-> 1]}
  <2>1. ~(Len(r.stops) < 2) /\ ~(r.period.until <= r.period.from)
    BY <1>1, <1>6
  <2>. QED BY <1>1, <1>2, <1>4, <2>1, Zenon DEF NewRoute
<1>8. PICK n : n = [r EXCEPT !.stops = t, !.rate = e]
  OBVIOUS
<1>9. n = [stops |-> t, direction |-> r.direction, type |-> r.type, rate |-> e,
           status |-> r.status, period |-> r.period, version |-> r.version]
  BY <1>1, <1>8
<1>10. RehydrateRoute(r) = {n}
  <2>1. PICK m : m = [stops |-> t, direction |-> r.direction, type |-> r.type, rate |-> e,
          status |-> "Active", period |-> r.period, version |-> 1]
    OBVIOUS
  <2>2. [m EXCEPT !.status = r.status, !.version = IF r.version > 0 THEN r.version ELSE m.version] = n
    <3>1. (IF r.version > 0 THEN r.version ELSE m.version) = r.version
      BY <1>1
    <3>2. [m EXCEPT !.status = r.status, !.version = r.version] = n
      <4>1. PICK a : a = [m EXCEPT !.status = r.status]
        OBVIOUS
      <4>2. a = [stops |-> t, direction |-> r.direction, type |-> r.type, rate |-> e,
                 status |-> r.status, period |-> r.period, version |-> 1]
        BY <2>1, <4>1
      <4>3. [a EXCEPT !.version = r.version] = n
        BY <1>9, <4>2
      <4>. QED BY <4>1, <4>3
    <3>. QED BY <3>1, <3>2
  <2>. QED BY <1>7, <2>1, <2>2 DEF RehydrateRoute
<1>11. n \in Storable
  BY <1>1, <1>3, <1>5, <1>9 DEF Storable
<1>. QED BY <1>2, <1>4, <1>8, <1>10, <1>11

\* The query for the one row there is.
LEMMA FindOne ==
  ASSUME NEW r
  PROVE  FindByID({r}) = RehydrateRoute(r)
BY DEF FindByID

\* A loaded route is loaded again as it is, and its total is the distance of its ends.
LEMMA LoadIsStable ==
  ASSUME NEW r \in Storable, NEW n, n \in RehydrateRoute(r)
  PROVE  /\ RehydrateRoute(n) = {n}
         /\ TotalRouteDistance(n) = DistanceBetweenStopIndices(n, 0, Len(n.stops) - 1)
         /\ TotalRouteDistance(n) > 0 \/ LineDistance(n.stops, Len(n.stops)) = 0
<1>1. PICK t : t = CalculateCumulativeDistances(r.stops)
  OBVIOUS
<1>2. PICK e : e = setRouteCharacteristics(r.type)
  OBVIOUS
<1>3. n = [r EXCEPT !.stops = t, !.rate = e] /\ n \in Storable
  BY <1>1, <1>2, LoadedIs
<1>4. n.stops = t /\ n.rate = e /\ n.type = r.type
  BY <1>3 DEF Storable
<1>5. r.stops \in Seq(Stop) /\ Len(r.stops) >= 2
  BY DEF Storable
<1>6. Calculated(t)
  BY <1>1, <1>5, CalculatedIs
<1>7. RehydrateRoute(n) = {n}
  <2>1. CalculateCumulativeDistances(n.stops) = t
    BY <1>4, <1>6, CalculatedStays
  <2>2. RehydrateRoute(n) = {[n EXCEPT !.stops = t, !.rate = e]}
    BY <1>2, <1>3, <1>4, <2>1, LoadedIs
  <2>3. [n EXCEPT !.stops = t, !.rate = e] = n
    BY <1>3, <1>4 DEF Storable
  <2>. QED BY <2>2, <2>3
<1>8. /\ t \in Seq(Stop) /\ Len(t) \in Nat /\ Len(t) >= 2 /\ t[1].cum = 0
      /\ t[Len(t)].cum > 0 \/ \A i \in 1..Len(t) : t[i].cum = LineDistance(t, i)
  BY <1>6 DEF Calculated
<1>9. Len(t) \in 1..Len(t) /\ t[Len(t)] \in Stop /\ LineDistance(t, Len(t)) \in Nat
  BY <1>8, LineDistanceIs
<1>10. t[Len(t)].cum \in Int
  BY <1>9 DEF Stop
<1>11. t[Len(t)].cum >= 0 /\ (t[Len(t)].cum > 0 \/ LineDistance(t, Len(t)) = 0)
  BY <1>8, <1>9, <1>10
<1>12. DistanceBetweenStopIndices(n, 0, Len(n.stops) - 1) = t[Len(t)].cum
  <2>1. (Len(t) - 1) + 1 = Len(t) /\ 0 + 1 = 1
    BY <1>8
  <2>2. t[Len(t)].cum - t[1].cum = t[Len(t)].cum /\ ~(t[Len(t)].cum < 0)
    BY <1>8, <1>10, <1>11
  <2>. QED BY <1>4, <2>1, <2>2 DEF DistanceBetweenStopIndices
<1>. QED BY <1>4, <1>7, <1>11, <1>12 DEF TotalRouteDistance

\* The index of a stop is one of its places on the route.
LEMMA IndexIs ==
  ASSUME NEW r, r.stops \in Seq(Stop), NEW id, findStopIndex(r, id) # -1
  PROVE  /\ findStopIndex(r, id) \in Nat /\ findStopIndex(r, id) + 1 \in 1..Len(r.stops)
         /\ r.stops[findStopIndex(r, id) + 1].id = id
<1>1. PICK at : at = {i \in DOMAIN r.stops : r.stops[i].id = id}
  OBVIOUS
<1>2. at # {} /\ findStopIndex(r, id) = Min(at) - 1
  BY <1>1 DEF findStopIndex
<1>3. at \subseteq Nat /\ at \subseteq 1..Len(r.stops)
  BY <1>1
<1>4. Min(at) \in at
  BY <1>2, <1>3, MinOfNumbers
<1>5. PICK m \in at : m = Min(at)
  BY <1>4
<1>6. m \in 1..Len(r.stops) /\ r.stops[m].id = id /\ findStopIndex(r, id) = m - 1
  BY <1>1, <1>2, <1>3, <1>5
<1>7. m - 1 \in Nat /\ (m - 1) + 1 = m
  BY <1>6
<1>. QED BY <1>6, <1>7

\* A stop of the route has an index.
LEMMA IndexFound ==
  ASSUME NEW r, r.stops \in Seq(Stop), NEW i \in DOMAIN r.stops
  PROVE  findStopIndex(r, r.stops[i].id) # -1
<1>1. PICK id : id = r.stops[i].id
  OBVIOUS
<1>2. PICK at : at = {k \in DOMAIN r.stops : r.stops[k].id = id}
  OBVIOUS
<1>3. at # {} /\ at \subseteq Nat /\ at \subseteq 1..Len(r.stops)
  BY <1>1, <1>2
<1>4. Min(at) \in at
  BY <1>3, MinOfNumbers
<1>5. PICK m \in 1..Len(r.stops) : m = Min(at)
  BY <1>3, <1>4
<1>6. findStopIndex(r, id) = m - 1
  BY <1>2, <1>3, <1>5 DEF findStopIndex
<1>7. m - 1 # -1
  BY <1>5
<1>. QED BY <1>1, <1>6, <1>7

\* Two stops of a route that runs both ways are joined in exactly one direction.
LEMMA OneWay ==
  ASSUME NEW r, r.stops \in Seq(Stop), r.direction = "Bidirectional",
         NEW i \in DOMAIN r.stops, NEW j \in DOMAIN r.stops, r.stops[i].id # r.stops[j].id
  PROVE  ValidateJourney(r, r.stops[i].id, r.stops[j].id, "Outbound") = {}
           <=> ValidateJourney(r, r.stops[i].id, r.stops[j].id, "Inbound") # {}
<1>1. PICK a : a = r.stops[i].id
  OBVIOUS
<1>2. PICK b : b = r.stops[j].id
  OBVIOUS
<1>3. PICK o : o = findStopIndex(r, a)
  OBVIOUS
<1>4. PICK d : d = findStopIndex(r, b)
  OBVIOUS
<1>5. o # -1 /\ d # -1
  BY <1>1, <1>2, <1>3, <1>4, IndexFound
<1>6. o \in Nat /\ d \in Nat /\ r.stops[o + 1].id = a /\ r.stops[d + 1].id = b
  BY <1>3, <1>4, <1>5, IndexIs
<1>7. o # d
  BY <1>1, <1>2, <1>6
<1>8. o < d \/ o > d
  BY <1>6, <1>7
<1>9. isValidDirection(r, o, d, "Outbound") <=> ~isValidDirection(r, o, d, "Inbound")
  BY <1>6, <1>8 DEF isValidDirection
<1>10. \A t : ValidateJourney(r, a, b, t) = {} <=> ~isValidDirection(r, o, d, t)
  BY <1>3, <1>4, <1>5 DEF ValidateJourney
<1>. QED BY <1>1, <1>2, <1>9, <1>10

\* The query for active routes and IsActive, on one row.
LEMMA ActiveIs ==
  ASSUME NEW r \in Storable, NEW n, n \in RehydrateRoute(r), NEW t \in Int
  PROVE  FindActiveRoutes({r}, t) # {} <=>
           IsActive(n, t) \/ (t = n.period.from /\ n.status = "Active")
<1>1. RehydrateRoute(r) = {n} /\ n.status = r.status /\ n.period = r.period
  <2>1. PICK c : c = CalculateCumulativeDistances(r.stops)
    OBVIOUS
  <2>2. PICK e : e = setRouteCharacteristics(r.type)
    OBVIOUS
  <2>3. n = [r EXCEPT !.stops = c, !.rate = e] /\ RehydrateRoute(r) = {n}
    BY <2>1, <2>2, LoadedIs
  <2>. QED BY <2>3 DEF Storable
<1>2. FindActiveRoutes({r}, t) =
        {x \in {n} : x.status = "Active" /\ x.period.from <= t /\ x.period.until > t}
  BY <1>1 DEF FindActiveRoutes
<1>3. FindActiveRoutes({r}, t) # {} <=> r.status = "Active" /\ r.period.from <= t /\ r.period.until > t
  BY <1>1, <1>2
<1>4. r.period.from \in Int /\ r.period.until \in Int /\ r.period.from < r.period.until
  <2>1. r.period \in Period /\ r.period.until > r.period.from
    BY DEF Storable
  <2>. QED BY <2>1 DEF Period
<1>5. IsActive(n, t) <=> r.status = "Active" /\ t > r.period.from /\ t < r.period.until
  BY <1>1 DEF IsActive
<1>. QED BY <1>1, <1>3, <1>4, <1>5

\* The property of what is loaded.
LEMMA LoadsFollow == RoutesInv => LoadsAreStable
<1>1. SUFFICES ASSUME RoutesInv, NEW r \in rows
               PROVE
    /\ FindByID({r}) # {}
    /\ \A n \in FindByID({r}) :
         /\ FindByID({n}) = {n}
         /\ TotalRouteDistance(n) = DistanceBetweenStopIndices(n, 0, Len(n.stops) - 1)
         /\ TotalRouteDistance(n) > 0 \/ LineDistance(n.stops, Len(n.stops)) = 0
         /\ n.direction = "Bidirectional" =>
              \A i, j \in DOMAIN n.stops : n.stops[i].id # n.stops[j].id =>
                (ValidateJourney(n, n.stops[i].id, n.stops[j].id, "Outbound") = {}
                   <=> ValidateJourney(n, n.stops[i].id, n.stops[j].id, "Inbound") # {})
         /\ \A t \in (n.period.from - 1)..n.period.until :
              FindActiveRoutes({r}, t) # {} <=> IsActive(n, t) \/ (t = n.period.from /\ n.status = "Active")
  BY DEF LoadsAreStable
<1>2. r \in Storable
  BY <1>1 DEF RoutesInv, RoutesTypeOK
<1>3. FindByID({r}) # {}
  <2>1. \E n : RehydrateRoute(r) = {n}
    BY <1>2, LoadedIs
  <2>. QED BY <2>1, FindOne
<1>4. ASSUME NEW n \in FindByID({r})
      PROVE  n \in RehydrateRoute(r) /\ n \in Storable /\ FindByID({n}) = RehydrateRoute(n)
  BY <1>2, FindOne, LoadedIs
<1>5. ASSUME NEW n \in FindByID({r})
      PROVE  /\ FindByID({n}) = {n}
             /\ TotalRouteDistance(n) = DistanceBetweenStopIndices(n, 0, Len(n.stops) - 1)
             /\ TotalRouteDistance(n) > 0 \/ LineDistance(n.stops, Len(n.stops)) = 0
  BY <1>2, <1>4, LoadIsStable
<1>6. ASSUME NEW n \in FindByID({r}), n.direction = "Bidirectional",
             NEW i \in DOMAIN n.stops, NEW j \in DOMAIN n.stops, n.stops[i].id # n.stops[j].id
      PROVE  ValidateJourney(n, n.stops[i].id, n.stops[j].id, "Outbound") = {}
               <=> ValidateJourney(n, n.stops[i].id, n.stops[j].id, "Inbound") # {}
  <2>1. n.stops \in Seq(Stop)
    BY <1>4 DEF Storable
  <2>. QED BY <1>6, <2>1, OneWay
<1>7. ASSUME NEW n \in FindByID({r}), NEW t \in (n.period.from - 1)..n.period.until
      PROVE  FindActiveRoutes({r}, t) # {} <=> IsActive(n, t) \/ (t = n.period.from /\ n.status = "Active")
  <2>1. n.period \in Period
    BY <1>4 DEF Storable
  <2>2. n.period.from - 1 \in Int /\ n.period.until \in Int
    BY <2>1 DEF Period
  <2>3. t \in Int
    BY <2>2
  <2>. QED BY <1>2, <1>4, <2>3, ActiveIs
<1>. QED BY <1>3, <1>5, <1>6, <1>7

-----------------------------------------------------------------------------
\* What the handlers make of a route can be stored.  The rate that belongs to a type.
LEMMA RateIs ==
  ASSUME NEW type
  PROVE  setRouteCharacteristics(type) \in 12..14
BY DEF setRouteCharacteristics

\* A route with other stops.
LEMMA StopsStorable ==
  ASSUME NEW r \in Storable, NEW s \in Seq(Stop), Len(s) >= 2
  PROVE  [r EXCEPT !.stops = s] \in Storable
BY DEF Storable

\* A route that was just created.
LEMMA CreatedStorable ==
  ASSUME NEW n, n \in CreateRoute
  PROVE  n \in Storable
<1>1. PICK s \in StopLists, d \in Directions, y \in Types, p \in Periods : n \in NewRoute(s, d, y, p)
  BY DEF CreateRoute
<1>2. s \in Seq(Stop) /\ p \in Period
  BY <1>1, RouteAssumption
<1>3. /\ ~(Len(s) < 2) /\ d \in RouteDirection /\ y \in RouteType /\ ~(p.until <= p.from)
      /\ n = [stops |-> CalculateCumulativeDistances(s), direction |-> d, type |-> y,
              rate |-> setRouteCharacteristics(y), status |-> "Active", period |-> p,
              version |-> 1]
  BY <1>1, Zenon DEF NewRoute
<1>4. Len(s) >= 2 /\ p.until > p.from
  <2>1. Len(s) \in Nat /\ p.until \in Int /\ p.from \in Int
    BY <1>2 DEF Period
  <2>. QED BY <1>3, <2>1
<1>5. PICK t : t = CalculateCumulativeDistances(s)
  OBVIOUS
<1>6. t \in Seq(Stop) /\ Len(t) >= 2
  BY <1>2, <1>4, <1>5, CalculatedIs DEF Calculated
<1>7. PICK e : e = setRouteCharacteristics(y)
  OBVIOUS
<1>8. e \in 12..14
  BY <1>7, RateIs
<1>9. n = [stops |-> t, direction |-> d, type |-> y, rate |-> e, status |-> "Active",
           period |-> p, version |-> 1]
  BY <1>3, <1>5, <1>7
<1>. QED BY <1>2, <1>3, <1>4, <1>6, <1>8, <1>9 DEF Storable

\* One stop more.
LEMMA AddedStop ==
  ASSUME NEW s \in Seq(Stop), Len(s) >= 2, NEW e \in Stop, NEW p \in 0..Len(s)
  PROVE  LET t == SubSeq(s, 1, p) \o <<e>> \o SubSeq(s, p + 1, Len(s))
         IN t \in Seq(Stop) /\ Len(t) >= 2
<1>0. Len(s) \in Nat /\ p \in Nat /\ p <= Len(s)
  OBVIOUS
<1>1. PICK a : a = SubSeq(s, 1, p)
  OBVIOUS
<1>2. PICK b : b = SubSeq(s, p + 1, Len(s))
  OBVIOUS
<1>3. a \in Seq(Stop) /\ Len(a) = p
  BY <1>0, <1>1
<1>4. b \in Seq(Stop) /\ Len(b) = Len(s) - p
  BY <1>0, <1>2
<1>5. PICK c : c = a \o <<e>>
  OBVIOUS
<1>6. c \in Seq(Stop) /\ Len(c) = p + 1
  <2>1. <<e>> \in Seq(Stop) /\ Len(<<e>>) = 1
    OBVIOUS
  <2>. QED BY <1>3, <1>5, <2>1, ConcatProperties
<1>7. c \o b \in Seq(Stop) /\ Len(c \o b) = Len(c) + Len(b)
  BY <1>4, <1>6, ConcatProperties
<1>8. Len(c) + Len(b) >= 2
  BY <1>0, <1>4, <1>6
<1>. QED BY <1>1, <1>2, <1>5, <1>7, <1>8

\* One stop less.
LEMMA RemovedStop ==
  ASSUME NEW s \in Seq(Stop), NEW i \in 1..Len(s)
  PROVE  RemoveAt(s, i) \in Seq(Stop) /\ Len(RemoveAt(s, i)) = Len(s) - 1
<1>1. PICK a : a = SubSeq(s, 1, i - 1)
  OBVIOUS
<1>2. PICK b : b = SubSeq(s, i + 1, Len(s))
  OBVIOUS
<1>3. a \in Seq(Stop) /\ Len(a) = i - 1
  BY <1>1
<1>4. b \in Seq(Stop) /\ Len(b) = Len(s) - i
  BY <1>2
<1>5. a \o b \in Seq(Stop) /\ Len(a \o b) = Len(a) + Len(b)
  BY <1>3, <1>4, ConcatProperties
<1>6. Len(a) + Len(b) = Len(s) - 1
  BY <1>3, <1>4
<1>. QED BY <1>1, <1>2, <1>5, <1>6 DEF RemoveAt

\* What a command makes of it.
LEMMA OutcomeStorable ==
  ASSUME NEW op \in RouteOps, NEW r \in Storable, NEW n, n \in RouteOutcome(op, r)
  PROVE  n \in Storable
<1>0. r.stops \in Seq(Stop) /\ Len(r.stops) \in Nat /\ Len(r.stops) >= 2
  BY DEF Storable
<1>1. CASE op = "UpdateRouteStops"
  <2>1. PICK s \in StopLists : n \in UpdateStops(r, s)
    BY <1>1 DEF RouteOutcome
  <2>2. s \in Seq(Stop) /\ ~(Len(s) < 2) /\ n = [r EXCEPT !.stops = s]
    BY <2>1, RouteAssumption DEF UpdateStops
  <2>3. Len(s) >= 2
    BY <2>2
  <2>. QED BY <2>2, <2>3, StopsStorable
<1>2. CASE op = "ChangeRouteStatus"
  <2>1. PICK s \in Statuses : n \in ChangeStatus(r, s)
    BY <1>2 DEF RouteOutcome
  <2>. QED BY <2>1 DEF ChangeStatus, Storable
<1>3. CASE op = "ChangeRouteName"
  BY <1>3 DEF RouteOutcome, ChangeName
<1>4. CASE op = "ChangeRouteType"
  <2>1. PICK y \in Types : n \in ChangeRouteType(r, y)
    BY <1>4 DEF RouteOutcome
  <2>2. PICK e : e = setRouteCharacteristics(y)
    OBVIOUS
  <2>3. y \in RouteType /\ n = [r EXCEPT !.type = y, !.rate = e]
    <3>1. r.type \in RouteType
      BY DEF Storable
    <3>. QED BY <2>1, <2>2, <3>1 DEF ChangeRouteType
  <2>4. e \in 12..14
    BY <2>2, RateIs
  <2>. QED BY <2>3, <2>4 DEF Storable
<1>5. CASE op = "ChangeActivePeriod"
  <2>1. PICK p \in Periods : n \in ChangeActivePeriod(r, p)
    BY <1>5 DEF RouteOutcome
  <2>2. p \in Period /\ p.until \in Int /\ p.from \in Int
    BY <2>1, RouteAssumption DEF Period
  <2>3. p.until > p.from /\ n = [r EXCEPT !.period = p]
    <3>1. r.period.until > r.period.from
      BY DEF Storable
    <3>2. ~(r.period # p /\ p.until <= p.from) /\ n = [r EXCEPT !.period = p]
      BY <2>1 DEF ChangeActivePeriod
    <3>. QED BY <2>2, <3>1, <3>2
  <2>. QED BY <2>2, <2>3 DEF Storable
<1>6. CASE op = "AddStop"
  <2>1. PICK e \in NewStops, p \in -1..(Len(r.stops) + 1) : n \in AddStop(r, e, p)
    BY <1>6 DEF RouteOutcome
  <2>2. PICK t : t = SubSeq(r.stops, 1, p) \o <<e>> \o SubSeq(r.stops, p + 1, Len(r.stops))
    OBVIOUS
  <2>3. ~(p < 0 \/ p > Len(r.stops)) /\ n = [r EXCEPT !.stops = t]
    BY <2>1, <2>2 DEF AddStop
  <2>4. p \in 0..Len(r.stops) /\ e \in Stop
    BY <1>0, <2>1, <2>3, RouteAssumption
  <2>5. t \in Seq(Stop) /\ Len(t) >= 2
    BY <1>0, <2>2, <2>4, AddedStop
  <2>. QED BY <2>3, <2>5, StopsStorable
<1>7. CASE op = "RemoveStop"
  <2>1. PICK id \in StopIDs : n \in RemoveStop(r, id)
    BY <1>7 DEF RouteOutcome
  <2>2. PICK i : i = findStopIndex(r, id) + 1
    OBVIOUS
  <2>3. PICK t : t = RemoveAt(r.stops, i)
    OBVIOUS
  <2>4. findStopIndex(r, id) # -1 /\ ~(Len(r.stops) <= 2) /\ n = [r EXCEPT !.stops = t]
    BY <2>1, <2>2, <2>3 DEF RemoveStop
  <2>5. i \in 1..Len(r.stops)
    BY <1>0, <2>2, <2>4, IndexIs
  <2>6. t \in Seq(Stop) /\ Len(t) = Len(r.stops) - 1
    BY <1>0, <2>3, <2>5, RemovedStop
  <2>7. Len(t) >= 2
    BY <1>0, <2>4, <2>6
  <2>. QED BY <2>4, <2>6, <2>7, StopsStorable
<1>. QED BY <1>1, <1>2, <1>3, <1>4, <1>5, <1>6, <1>7 DEF RouteOps

\* What a handler makes of the row it loads.
LEMMA HandledStorable ==
  ASSUME rows \subseteq Storable, NEW op \in RouteOps, NEW n, n \in Outcome(op, rows)
  PROVE  n \in Storable
<1>1. PICK r \in FindByID(rows) : n \in RouteOutcome(op, r)
  BY DEF Outcome
<1>2. PICK s \in rows : r \in RehydrateRoute(s)
  BY <1>1 DEF FindByID
<1>3. r \in Storable
  BY <1>2, LoadedIs
<1>. QED BY <1>1, <1>3, OutcomeStorable

\* No command changes the version.
LEMMA OutcomeVersion ==
  ASSUME NEW op \in RouteOps, NEW r \in Storable, NEW n, n \in RouteOutcome(op, r)
  PROVE  n.version = r.version
<1>0. r = [stops |-> r.stops, direction |-> r.direction, type |-> r.type, rate |-> r.rate,
           status |-> r.status, period |-> r.period, version |-> r.version]
  BY DEF Storable
<1>1. CASE op = "UpdateRouteStops"
  <2>1. PICK s \in StopLists : n \in UpdateStops(r, s)
    BY <1>1 DEF RouteOutcome
  <2>2. n = [r EXCEPT !.stops = s]
    BY <2>1 DEF UpdateStops
  <2>. QED BY <1>0, <2>2
<1>2. CASE op = "ChangeRouteStatus"
  <2>1. PICK s \in Statuses : n \in ChangeStatus(r, s)
    BY <1>2 DEF RouteOutcome
  <2>. QED BY <1>0, <2>1 DEF ChangeStatus
<1>3. CASE op = "ChangeRouteName"
  BY <1>3 DEF RouteOutcome, ChangeName
<1>4. CASE op = "ChangeRouteType"
  <2>1. PICK y \in Types : n \in ChangeRouteType(r, y)
    BY <1>4 DEF RouteOutcome
  <2>2. PICK e : e = setRouteCharacteristics(y)
    OBVIOUS
  <2>3. n = [r EXCEPT !.type = y, !.rate = e]
    BY <2>1, <2>2 DEF ChangeRouteType
  <2>. QED BY <1>0, <2>3
<1>5. CASE op = "ChangeActivePeriod"
  <2>1. PICK p \in Periods : n \in ChangeActivePeriod(r, p)
    BY <1>5 DEF RouteOutcome
  <2>2. n = [r EXCEPT !.period = p]
    BY <2>1 DEF ChangeActivePeriod
  <2>. QED BY <1>0, <2>2
<1>6. CASE op = "AddStop"
  <2>1. PICK e \in NewStops, p \in -1..(Len(r.stops) + 1) : n \in AddStop(r, e, p)
    BY <1>6 DEF RouteOutcome
  <2>2. PICK t : t = SubSeq(r.stops, 1, p) \o <<e>> \o SubSeq(r.stops, p + 1, Len(r.stops))
    OBVIOUS
  <2>3. n = [r EXCEPT !.stops = t]
    BY <2>1, <2>2 DEF AddStop
  <2>. QED BY <1>0, <2>3
<1>7. CASE op = "RemoveStop"
  <2>1. PICK id \in StopIDs : n \in RemoveStop(r, id)
    BY <1>7 DEF RouteOutcome
  <2>2. PICK t : t = RemoveAt(r.stops, findStopIndex(r, id) + 1)
    OBVIOUS
  <2>3. n = [r EXCEPT !.stops = t]
    BY <2>1, <2>2 DEF RemoveStop
  <2>. QED BY <1>0, <2>3
<1>. QED BY <1>1, <1>2, <1>3, <1>4, <1>5, <1>6, <1>7 DEF RouteOps

\* What a handler makes of the row it loads comes from that row.
LEMMA HandledCurrent ==
  ASSUME rows \subseteq Storable, NEW op \in RouteOps, NEW n, n \in Outcome(op, rows)
  PROVE  Current(n)
<1>1. PICK r \in FindByID(rows) : n \in RouteOutcome(op, r)
  BY DEF Outcome
<1>2. PICK s \in rows : r \in RehydrateRoute(s)
  BY <1>1 DEF FindByID
<1>3. r \in Storable /\ r.version = s.version
  <2>1. PICK c : c = CalculateCumulativeDistances(s.stops)
    OBVIOUS
  <2>2. PICK e : e = setRouteCharacteristics(s.type)
    OBVIOUS
  <2>3. s \in Storable /\ r = [s EXCEPT !.stops = c, !.rate = e] /\ r \in Storable
    BY <1>2, <2>1, <2>2, LoadedIs
  <2>. QED BY <2>3 DEF Storable
<1>4. n.version = s.version
  BY <1>1, <1>3, OutcomeVersion
<1>5. n \in Commanded(rows)
  BY DEF Commanded
<1>. QED BY <1>2, <1>4, <1>5 DEF Current

-----------------------------------------------------------------------------
\* The stops table.  At first there is no row, no entry and no command.
LEMMA RoutesStart == RoutesInit => RoutesInv
<1>1. SUFFICES ASSUME RoutesInit PROVE RoutesInv
  OBVIOUS
<1>2. RoutesTypeOK
  BY <1>1 DEF RoutesInit, RoutesTypeOK
<1>3. Syncing = {}
  BY <1>1 DEF RoutesInit, Syncing
<1>4. LagSound
  BY <1>1, <1>3 DEF RoutesInit, LagSound
<1>5. SavesSound
  BY <1>1 DEF RoutesInit, SavesSound
<1>. QED BY <1>2, <1>4, <1>5 DEF RoutesInv

\* Who waits to save goes on waiting for the same row.
LEMMA WaitingKeeps ==
  ASSUME SavesSound, UNCHANGED rows,
         \A k \in Handlers : \/ held'[k] = held[k]
                             \/ held'[k] = Absent
                             \/ held'[k].pc = "sync"
                             \/ Current(held'[k].next)
  PROVE  SavesSound'
<1>1. ASSUME NEW k \in Handlers, held'[k] # Absent, held'[k].pc = "save"
      PROVE  Current(held'[k].next)
  BY <1>1 DEF SavesSound
<1>2. \A n : Current(n) => Current(n)'
  BY DEF Current, Commanded, Outcome, FindByID
<1>3. \A k \in Handlers : held'[k] # Absent /\ held'[k].pc = "save" => Current(held[k].next)'
  <2>1. ASSUME NEW k \in Handlers, held'[k] # Absent, held'[k].pc = "save"
        PROVE  Current(held[k].next)'
    <3>1. PICK n : n = held'[k].next
      OBVIOUS
    <3>2. Current(n)
      BY <1>1, <2>1, <3>1
    <3>3. Current(n)'
      BY <1>2, <3>2
    <3>. QED BY <3>1, <3>3 DEF Current
  <2>. QED BY <2>1
<1>. QED BY <1>3 DEF SavesSound

\* Who writes stops has a route to write them from.
LEMMA SyncingIs ==
  ASSUME RoutesTypeOK, NEW h \in Syncing
  PROVE  h \in Handlers /\ held[h] \in Syncs
<1>1. h \in Handlers /\ held[h] # Absent /\ held[h].pc = "sync"
  BY DEF Syncing
<1>2. held[h] \in Saves \cup Syncs
  BY <1>1 DEF RoutesTypeOK
<1>. QED BY <1>1, <1>2 DEF Saves

\* A step of a handler that writes no stops, before or after, changes nothing for the others.
LEMMA NotSyncingKeeps ==
  ASSUME RoutesInv, NEW h \in Handlers, h \notin Syncing, NEW x, x \in {Absent} \cup Saves,
         x = Absent \/ Current(x.next),
         held' = [held EXCEPT ![h] = x], UNCHANGED <<rows, geo, gap>>
  PROVE  RoutesInv'
<1>1. RoutesTypeOK'
  BY DEF RoutesInv, RoutesTypeOK
<1>2. held \in [Handlers -> {Absent} \cup Saves \cup Syncs]
  BY DEF RoutesInv, RoutesTypeOK
<1>3. Syncing' = Syncing /\ \A k \in Syncing : held'[k] = held[k]
  <2>1. h \notin Syncing'
    BY <1>2 DEF Syncing, Saves
  <2>2. \A k \in Handlers : k # h => held'[k] = held[k]
    BY <1>2
  <2>. QED BY <2>1, <2>2 DEF Syncing
<1>4. LagSound'
  <2>1. LagSound
    BY DEF RoutesInv
  <2>2. \A s \in StopIDs : geo'[s] # Absent => geo'[s].version = 0 \/ \E r \in rows' : geo'[s].version <= r.version
    BY <2>1 DEF LagSound
  <2>3. \A k \in Syncing' : \E r \in rows' : held'[k].next.version <= r.version
    BY <1>3, <2>1 DEF LagSound
  <2>4. ASSUME NEW k \in Syncing', held'[k].alone
        PROVE  Syncing' = {k} /\ rows' = {held'[k].next} /\ Written(held[k].next, held[k].i)'
    <3>1. k \in Syncing /\ held'[k] = held[k]
      BY <1>3
    <3>2. Syncing = {k} /\ rows = {held[k].next} /\ Written(held[k].next, held[k].i)
      BY <2>1, <2>4, <3>1 DEF LagSound
    <3>3. Written(held[k].next, held[k].i)'
      BY <3>1, <3>2 DEF Written
    <3>. QED BY <1>3, <3>1, <3>2, <3>3
  <2>5. ~gap' => Syncing' = {} /\ \A r \in rows' : Written(r, Len(r.stops) + 1)'
    BY <1>3, <2>1 DEF LagSound, Written
  <2>. QED BY <2>2, <2>3, <2>4, <2>5 DEF LagSound
<1>5. SavesSound'
  <2>1. \A k \in Handlers : held'[k] = held[k] \/ held'[k] = Absent \/ Current(held'[k].next)
    BY <1>2
  <2>2. SavesSound
    BY DEF RoutesInv
  <2>. QED BY <2>1, <2>2, WaitingKeeps
<1>. QED BY <1>1, <1>4, <1>5 DEF RoutesInv

\* One lemma per action.
LEMMA CreateKeeps ==
  ASSUME RoutesInv, NEW h \in Handlers, Create(h)
  PROVE  RoutesInv'
<1>1. PICK r \in CreateRoute : Hold(h, r)
  BY DEF Create
<1>2. r \in Storable
  BY <1>1, CreatedStorable
<1>3. PICK x : x = [pc |-> "save", next |-> r]
  OBVIOUS
<1>4. x \in Saves
  BY <1>2, <1>3 DEF Saves
<1>5. h \notin Syncing
  BY DEF Create, Syncing
<1>6. Current(x.next)
  <2>1. r.version = 1
    BY <1>1 DEF CreateRoute, NewRoute
  <2>. QED BY <1>3, <2>1 DEF Current
<1>. QED BY <1>1, <1>3, <1>4, <1>5, <1>6, NotSyncingKeeps DEF Create, Hold

LEMMA HandleKeeps ==
  ASSUME RoutesInv, NEW h \in Handlers, NEW op \in RouteOps, Handle(h, op)
  PROVE  RoutesInv'
<1>1. PICK r \in Outcome(op, rows) : Hold(h, r)
  BY DEF Handle
<1>2. r \in Storable
  <2>1. rows \subseteq Storable
    BY DEF RoutesInv, RoutesTypeOK
  <2>. QED BY <1>1, <2>1, HandledStorable
<1>3. PICK x : x = [pc |-> "save", next |-> r]
  OBVIOUS
<1>4. x \in Saves
  BY <1>2, <1>3 DEF Saves
<1>5. h \notin Syncing
  BY DEF Handle, Syncing
<1>6. Current(x.next)
  <2>1. rows \subseteq Storable
    BY DEF RoutesInv, RoutesTypeOK
  <2>2. Current(r)
    BY <1>1, <2>1, HandledCurrent
  <2>. QED BY <1>3, <2>2
<1>. QED BY <1>1, <1>3, <1>4, <1>5, <1>6, NotSyncingKeeps DEF Handle, Hold

LEMMA SaveFailsKeeps ==
  ASSUME RoutesInv, NEW h \in Handlers, SaveFails(h)
  PROVE  RoutesInv'
<1>1. h \notin Syncing
  BY DEF SaveFails, Syncing
<1>. QED BY <1>1, NotSyncingKeeps DEF SaveFails

\* Whoever is done with the stops leaves the others to theirs.
LEMMA LeavingKeeps ==
  ASSUME RoutesInv, NEW h \in Syncing, held' = [held EXCEPT ![h] = Absent],
         UNCHANGED <<rows, geo>>, gap' \in BOOLEAN,
         ~gap' => Syncing = {h} /\ \A r \in rows : Written(r, Len(r.stops) + 1)
  PROVE  RoutesInv'
<1>0. h \in Handlers /\ LagSound /\ RoutesTypeOK /\ SavesSound
  BY SyncingIs DEF RoutesInv
<1>1. RoutesTypeOK'
  BY <1>0 DEF RoutesTypeOK
<1>2. Syncing' = Syncing \ {h} /\ \A k \in Syncing : k # h => held'[k] = held[k]
  <2>1. held \in [Handlers -> {Absent} \cup Saves \cup Syncs]
    BY <1>0 DEF RoutesTypeOK
  <2>2. held'[h] = Absent /\ \A k \in Handlers : k # h => held'[k] = held[k]
    BY <1>0, <2>1
  <2>. QED BY <2>2 DEF Syncing
<1>3. \A s \in StopIDs : geo'[s] # Absent => geo'[s].version = 0 \/ \E r \in rows' : geo'[s].version <= r.version
  BY <1>0 DEF LagSound
<1>4. \A k \in Syncing' : \E r \in rows' : held'[k].next.version <= r.version
  BY <1>0, <1>2 DEF LagSound
<1>5. \A k \in Syncing' : ~held'[k].alone
  <2>1. \A k \in Syncing : held[k].alone => Syncing = {k}
    BY <1>0 DEF LagSound
  <2>. QED BY <1>2, <2>1
<1>6. ~gap' => Syncing' = {} /\ \A r \in rows' : Written(r, Len(r.stops) + 1)'
  BY <1>2 DEF Written
<1>7. LagSound'
  BY <1>3, <1>4, <1>5, <1>6 DEF LagSound
<1>8. SavesSound'
  <2>1. \A k \in Handlers : held'[k] = held[k] \/ held'[k] = Absent
    BY <1>0 DEF RoutesTypeOK
  <2>. QED BY <1>0, <2>1, WaitingKeeps
<1>. QED BY <1>1, <1>7, <1>8 DEF RoutesInv

LEMMA SyncFailsKeeps ==
  ASSUME RoutesInv, NEW h \in Handlers, SyncFails(h)
  PROVE  RoutesInv'
<1>1. h \in Syncing /\ held' = [held EXCEPT ![h] = Absent] /\ UNCHANGED <<rows, geo, gap>>
  BY DEF SyncFails
<1>2. gap = TRUE
  BY <1>1 DEF RoutesInv, RoutesTypeOK, LagSound
<1>. QED BY <1>1, <1>2, LeavingKeeps

LEMMA SyncEndsKeeps ==
  ASSUME RoutesInv, NEW h \in Handlers, SyncEnds(h)
  PROVE  RoutesInv'
<1>1. /\ h \in Syncing /\ held' = [held EXCEPT ![h] = Absent] /\ UNCHANGED <<rows, geo>>
      /\ held[h].i > Len(held[h].next.stops) /\ gap' = (gap /\ ~held[h].alone)
  BY DEF SyncEnds
<1>2. held[h] \in Syncs
  BY <1>1, SyncingIs DEF RoutesInv
<1>3. gap = TRUE /\ held[h].alone \in BOOLEAN
  BY <1>1, <1>2 DEF RoutesInv, RoutesTypeOK, LagSound, Syncs
<1>4. gap' \in BOOLEAN /\ (~gap' => held[h].alone)
  BY <1>1, <1>3
<1>5. ASSUME held[h].alone
      PROVE  Syncing = {h} /\ \A r \in rows : Written(r, Len(r.stops) + 1)
  <2>1. PICK r : r = held[h].next
    OBVIOUS
  <2>2. PICK i : i = held[h].i
    OBVIOUS
  <2>3. Syncing = {h} /\ rows = {r} /\ Written(r, i)
    BY <1>1, <1>5, <2>1, <2>2 DEF RoutesInv, LagSound
  <2>4. r \in Storable /\ i \in Nat /\ i > Len(r.stops)
    BY <1>1, <1>2, <2>1, <2>2 DEF Syncs
  <2>5. r.stops \in Seq(Stop) /\ Len(r.stops) \in Nat /\ DOMAIN r.stops = 1..Len(r.stops)
    BY <2>4 DEF Storable
  <2>6. \A k \in DOMAIN r.stops : k \in Nat /\ k < i /\ k < Len(r.stops) + 1
    BY <2>4, <2>5
  <2>7. Written(r, Len(r.stops) + 1)
    BY <2>3, <2>6 DEF Written
  <2>. QED BY <2>3, <2>7
<1>. QED BY <1>1, <1>4, <1>5, LeavingKeeps

\* What a statement leaves is an entry, with what it was given and the routes there were.
LEMMA UpsertIs ==
  ASSUME NEW entry \in {Absent} \cup Entry, NEW stop \in Stop, NEW route \in {"this", "other"},
         NEW v \in Nat
  PROVE  LET e == Upsert(entry, stop, route, v)
         IN /\ e \in Entry /\ e # Absent /\ e.at = stop.at /\ e.cum = stop.cum /\ e.version = v
            /\ route \in e.routes /\ (entry # Absent => entry.routes \subseteq e.routes)
<1>1. PICK w : w = {route} \cup (IF entry = Absent THEN {} ELSE entry.routes)
  OBVIOUS
<1>2. w \in SUBSET {"this", "other"} /\ route \in w /\ (entry # Absent => entry.routes \subseteq w)
  BY <1>1 DEF Entry
<1>3. stop.at \in Nat /\ stop.cum \in Int
  BY DEF Stop
<1>4. PICK e : e = Upsert(entry, stop, route, v)
  OBVIOUS
<1>5. e = [at |-> stop.at, cum |-> stop.cum, routes |-> w, version |-> v]
  BY <1>1, <1>4 DEF Upsert
<1>6. e \in Entry
  BY <1>2, <1>3, <1>5 DEF Entry
<1>7. e # Absent
  BY <1>6, RoutesAssumption
<1>. QED BY <1>2, <1>4, <1>5, <1>6, <1>7

\* One stop more is written.
LEMMA WrittenGrows ==
  ASSUME NEW r \in Storable, geo \in [StopIDs -> {Absent} \cup Entry],
         NEW i \in Nat \ {0}, i <= Len(r.stops), Written(r, i), NEW e, Holds(e, r.stops[i]),
         geo' = [geo EXCEPT ![r.stops[i].id] = e]
  PROVE  Written(r, i + 1)'
<1>1. PICK s : s = r.stops
  OBVIOUS
<1>2. s \in Seq(Stop) /\ Len(s) \in Nat /\ DOMAIN s = 1..Len(s)
  BY <1>1 DEF Storable
<1>3. i \in DOMAIN s /\ \A k \in DOMAIN s : k \in Nat /\ s[k] \in Stop
  BY <1>1, <1>2
<1>4. \A k \in DOMAIN s : s[k].id \in StopIDs
  BY <1>3 DEF Stop
<1>7. geo'[s[i].id] = e /\ \A id \in StopIDs : id # s[i].id => geo'[id] = geo[id]
  BY <1>1, <1>3, <1>4
<1>8. ASSUME NEW k \in DOMAIN s, k < i + 1,
             \A j \in DOMAIN s : k < j /\ j < i + 1 => s[j].id # s[k].id
      PROVE  Holds(geo'[s[k].id], s[k])
  <2>1. CASE k = i
    BY <1>1, <1>7, <2>1
  <2>2. CASE k # i
    <3>1. k < i /\ i < i + 1 /\ \A j \in DOMAIN s : j < i => j < i + 1
      BY <1>3, <1>8, <2>2
    <3>2. s[k].id # s[i].id /\ s[k].id \in StopIDs
      BY <1>3, <1>4, <1>8, <3>1
    <3>3. Holds(geo[s[k].id], s[k])
      BY <1>1, <1>8, <3>1 DEF Written
    <3>. QED BY <1>7, <3>2, <3>3
  <2>. QED BY <2>1, <2>2
<1>. QED BY <1>1, <1>8 DEF Written, Holds

\* What another route writes takes nothing away from what is written.
LEMMA WrittenStays ==
  ASSUME NEW r \in Storable, NEW n, Written(r, n), NEW id \in StopIDs, NEW e,
         geo \in [StopIDs -> {Absent} \cup Entry], geo' = [geo EXCEPT ![id] = e],
         e # Absent, e.version = 0, geo[id] # Absent => geo[id].routes \subseteq e.routes
  PROVE  Written(r, n)'
<1>1. PICK s : s = r.stops
  OBVIOUS
<1>2. s \in Seq(Stop) /\ \A k \in DOMAIN s : s[k] \in Stop
  BY <1>1 DEF Storable
<1>3. \A k \in DOMAIN s : s[k].id \in StopIDs
  BY <1>2 DEF Stop
<1>4. geo'[id] = e /\ \A x \in StopIDs : x # id => geo'[x] = geo[x]
  OBVIOUS
<1>5. ASSUME NEW k \in DOMAIN s, k < n, \A j \in DOMAIN s : k < j /\ j < n => s[j].id # s[k].id
      PROVE  Holds(geo'[s[k].id], s[k])
  <2>1. Holds(geo[s[k].id], s[k])
    BY <1>1, <1>5 DEF Written
  <2>2. CASE s[k].id = id
    BY <1>4, <2>1, <2>2 DEF Holds
  <2>3. CASE s[k].id # id
    BY <1>3, <1>4, <2>1, <2>3
  <2>. QED BY <2>2, <2>3
<1>. QED BY <1>1, <1>5 DEF Written, Holds

\* Another route's save.
LEMMA OtherRouteKeeps ==
  ASSUME RoutesInv, NEW stop \in OtherStops, OtherRouteSyncs(stop)
  PROVE  RoutesInv'
<1>1. RoutesTypeOK /\ LagSound /\ SavesSound
  BY DEF RoutesInv
<1>2. stop \in Stop
  BY RoutesAssumption
<1>3. PICK id \in StopIDs : id = stop.id
  BY <1>2 DEF Stop
<1>4. PICK e : e = Upsert(geo[id], stop, "other", 0)
  OBVIOUS
<1>5. geo \in [StopIDs -> {Absent} \cup Entry]
  BY <1>1 DEF RoutesTypeOK
<1>6. geo' = [geo EXCEPT ![id] = e] /\ UNCHANGED <<rows, held, gap>>
  BY <1>3, <1>4, <1>5 DEF OtherRouteSyncs
<1>7. e \in Entry /\ e # Absent /\ e.version = 0 /\ (geo[id] # Absent => geo[id].routes \subseteq e.routes)
  <2>1. geo[id] \in {Absent} \cup Entry
    BY <1>5
  <2>2. PICK x \in {"this", "other"} : x = "other"
    OBVIOUS
  <2>3. 0 \in Nat
    OBVIOUS
  <2>. QED BY <1>2, <1>4, <2>1, <2>2, <2>3, UpsertIs, Zenon
<1>8. geo'[id] = e /\ \A x \in StopIDs : x # id => geo'[x] = geo[x]
  BY <1>5, <1>6
<1>9. geo' \in [StopIDs -> {Absent} \cup Entry]
  BY <1>5, <1>6, <1>7
<1>10. RoutesTypeOK'
  BY <1>1, <1>6, <1>9 DEF RoutesTypeOK
<1>11. SavesSound'
  BY <1>1, <1>6, WaitingKeeps
<1>12. Syncing' = Syncing
  BY <1>6 DEF Syncing
<1>13. \A s \in StopIDs : geo'[s] # Absent => geo'[s].version = 0 \/ \E r \in rows' : geo'[s].version <= r.version
  <2>1. \A s \in StopIDs : geo[s] # Absent => geo[s].version = 0 \/ \E r \in rows : geo[s].version <= r.version
    BY <1>1 DEF LagSound
  <2>. QED BY <1>6, <1>7, <1>8, <2>1
<1>14. \A k \in Syncing' : \E r \in rows' : held'[k].next.version <= r.version
  BY <1>1, <1>6, <1>12 DEF LagSound
<1>15. ASSUME NEW k \in Syncing', held'[k].alone
       PROVE  Syncing' = {k} /\ rows' = {held'[k].next} /\ Written(held[k].next, held[k].i)'
  <2>1. k \in Syncing /\ held'[k] = held[k]
    BY <1>6, <1>12
  <2>2. PICK r : r = held[k].next
    OBVIOUS
  <2>3. PICK n : n = held[k].i
    OBVIOUS
  <2>4. Syncing = {k} /\ rows = {r} /\ Written(r, n)
    BY <1>1, <1>15, <2>1, <2>2, <2>3 DEF LagSound
  <2>5. r \in Storable
    BY <1>1, <2>4 DEF RoutesTypeOK
  <2>6. Written(r, n)'
    BY <1>5, <1>6, <1>7, <2>4, <2>5, WrittenStays
  <2>7. Written(held[k].next, held[k].i)'
    BY <2>1, <2>2, <2>3, <2>6 DEF Written
  <2>. QED BY <1>6, <1>12, <2>1, <2>2, <2>4, <2>7
<1>16. ASSUME ~gap' PROVE Syncing' = {} /\ \A r \in rows' : Written(r, Len(r.stops) + 1)'
  <2>1. Syncing = {} /\ \A r \in rows : Written(r, Len(r.stops) + 1)
    BY <1>1, <1>6, <1>16 DEF LagSound
  <2>2. ASSUME NEW r \in rows PROVE Written(r, Len(r.stops) + 1)'
    <3>1. r \in Storable
      BY <1>1 DEF RoutesTypeOK
    <3>2. PICK n : n = Len(r.stops) + 1
      OBVIOUS
    <3>3. Written(r, n)
      BY <2>1, <3>2
    <3>4. Written(r, n)'
      BY <1>5, <1>6, <1>7, <3>1, <3>3, WrittenStays
    <3>. QED BY <3>2, <3>4
  <2>. QED BY <1>6, <1>12, <2>1, <2>2
<1>17. LagSound'
  BY <1>13, <1>14, <1>15, <1>16 DEF LagSound
<1>. QED BY <1>10, <1>11, <1>17 DEF RoutesInv

LEMMA SyncStopKeeps ==
  ASSUME RoutesInv, NEW h \in Handlers, SyncStop(h)
  PROVE  RoutesInv'
<1>1. PICK r : r = held[h].next
  OBVIOUS
<1>2. PICK i : i = held[h].i
  OBVIOUS
<1>3. /\ h \in Syncing /\ i <= Len(r.stops) /\ UNCHANGED <<rows, gap>>
      /\ geo' = [geo EXCEPT ![r.stops[i].id] = Upsert(geo[r.stops[i].id], r.stops[i], "this", r.version)]
      /\ held' = [held EXCEPT ![h].i = i + 1]
  BY <1>1, <1>2 DEF SyncStop
<1>4. LagSound /\ RoutesTypeOK /\ SavesSound /\ held[h] \in Syncs
  BY <1>3, SyncingIs DEF RoutesInv
<1>5. r \in Storable /\ i \in Nat \ {0} /\ r.version \in Nat
  BY <1>1, <1>2, <1>4 DEF Syncs, Storable
<1>6. PICK c : c = [held[h] EXCEPT !.i = i + 1]
  OBVIOUS
<1>7. c \in Syncs /\ c.next = r /\ c.i = i + 1 /\ c.alone = held[h].alone
  BY <1>1, <1>4, <1>5, <1>6 DEF Syncs
<1>8. held \in [Handlers -> {Absent} \cup Saves \cup Syncs] /\ held' = [held EXCEPT ![h] = c]
  BY <1>3, <1>4, <1>6 DEF RoutesTypeOK
<1>9. PICK id \in StopIDs : id = r.stops[i].id
  <2>1. r.stops \in Seq(Stop)
    BY <1>5 DEF Storable
  <2>2. r.stops[i] \in Stop
    BY <1>3, <1>5, <2>1
  <2>. QED BY <2>2 DEF Stop
<1>10. PICK e \in Entry : e = Upsert(geo[id], r.stops[i], "this", r.version) /\ e # Absent
                            /\ e.version = r.version /\ Holds(e, r.stops[i])
  <2>1. r.stops \in Seq(Stop)
    BY <1>5 DEF Storable
  <2>2. r.stops[i] \in Stop
    BY <1>3, <1>5, <2>1
  <2>3. geo[id] \in {Absent} \cup Entry
    BY <1>4 DEF RoutesTypeOK
  <2>4. PICK e : e = Upsert(geo[id], r.stops[i], "this", r.version)
    OBVIOUS
  <2>5. /\ e \in Entry /\ e # Absent /\ e.at = r.stops[i].at /\ e.cum = r.stops[i].cum
        /\ e.version = r.version /\ "this" \in e.routes
    <3>1. PICK x \in {"this", "other"} : x = "this"
      OBVIOUS
    <3>2. PICK y \in Stop : y = r.stops[i]
      BY <2>2
    <3>3. PICK v \in Nat : v = r.version
      BY <1>5
    <3>4. PICK g \in {Absent} \cup Entry : g = geo[id]
      BY <2>3
    <3>5. e = Upsert(g, y, x, v)
      BY <2>4, <3>1, <3>2, <3>3, <3>4
    <3>6. e \in Entry /\ e # Absent /\ e.at = y.at /\ e.cum = y.cum /\ e.version = v /\ x \in e.routes
      BY <3>5, UpsertIs
    <3>. QED BY <3>1, <3>2, <3>3, <3>6
  <2>. QED BY <2>4, <2>5 DEF Holds
<1>11. geo \in [StopIDs -> {Absent} \cup Entry] /\ geo' = [geo EXCEPT ![id] = e]
  BY <1>3, <1>4, <1>9, <1>10 DEF RoutesTypeOK
<1>12. RoutesTypeOK'
  <2>1. held' \in [Handlers -> {Absent} \cup Saves \cup Syncs]
    BY <1>7, <1>8
  <2>2. geo' \in [StopIDs -> {Absent} \cup Entry]
    BY <1>11
  <2>. QED BY <1>3, <1>4, <2>1, <2>2 DEF RoutesTypeOK
<1>13. Syncing' \subseteq Syncing /\ held'[h] = c /\ \A k \in Syncing : k # h => held'[k] = held[k]
  <2>1. held'[h] = c /\ \A k \in Handlers : k # h => held'[k] = held[k]
    BY <1>8
  <2>. QED BY <1>3, <2>1 DEF Syncing
<1>14. \A s \in StopIDs : geo'[s] # Absent => geo'[s].version = 0 \/ \E x \in rows' : geo'[s].version <= x.version
  <2>1. \E x \in rows : r.version <= x.version
    BY <1>1, <1>3, <1>4 DEF LagSound
  <2>2. e.version = r.version
    BY <1>10
  <2>3. geo'[id] = e /\ \A s \in StopIDs : s # id => geo'[s] = geo[s]
    BY <1>11
  <2>4. \A s \in StopIDs : geo[s] # Absent => geo[s].version = 0 \/ \E x \in rows : geo[s].version <= x.version
    BY <1>4 DEF LagSound
  <2>. QED BY <1>3, <2>1, <2>2, <2>3, <2>4
<1>15. \A k \in Syncing' : \E x \in rows' : held'[k].next.version <= x.version
  <2>1. \A k \in Syncing : \E x \in rows : held[k].next.version <= x.version
    BY <1>4 DEF LagSound
  <2>2. \A k \in Syncing' : held'[k].next = held[k].next
    BY <1>1, <1>7, <1>13
  <2>. QED BY <1>3, <1>13, <2>1, <2>2
<1>16. ASSUME NEW k \in Syncing', held'[k].alone
       PROVE  Syncing' = {k} /\ rows' = {held'[k].next} /\ Written(held[k].next, held[k].i)'
  <2>1. k = h /\ held[h].alone
    <3>1. held[k].alone /\ k \in Syncing
      BY <1>7, <1>13, <1>16
    <3>2. Syncing = {k}
      BY <1>4, <3>1 DEF LagSound
    <3>. QED BY <1>3, <3>1, <3>2
  <2>2. Syncing = {h} /\ rows = {r} /\ Written(r, i)
    BY <1>1, <1>2, <1>3, <1>4, <2>1 DEF LagSound
  <2>3. Written(r, i + 1)'
    BY <1>3, <1>5, <1>9, <1>10, <1>11, <2>2, WrittenGrows
  <2>4. held'[k].next = r /\ held'[k].i = i + 1
    BY <1>7, <1>13, <2>1
  <2>5. Written(held[k].next, held[k].i)'
    BY <2>3, <2>4 DEF Written
  <2>. QED BY <1>3, <1>13, <1>16, <2>1, <2>2, <2>4, <2>5
<1>17. gap' = TRUE
  BY <1>3, <1>4 DEF RoutesTypeOK, LagSound
<1>18. LagSound'
  BY <1>14, <1>15, <1>16, <1>17 DEF LagSound
<1>19. SavesSound'
  <2>1. held'[h] = c /\ c.pc = "sync" /\ \A k \in Handlers : k # h => held'[k] = held[k]
    BY <1>7, <1>8 DEF Syncs
  <2>2. \A k \in Handlers : held'[k] = held[k] \/ held'[k].pc = "sync"
    BY <2>1
  <2>. QED BY <1>3, <1>4, <2>2, WaitingKeeps
<1>. QED BY <1>12, <1>18, <1>19 DEF RoutesInv

\* A save makes the row newer than everything written before, and nobody else is alone any more.
LEMMA SaveKeeps ==
  ASSUME RoutesInv, NEW h \in Handlers, Save(h)
  PROVE  RoutesInv'
<1>1. PICK n : n = held[h].next
  OBVIOUS
<1>2. PICK r : r = [n EXCEPT !.version = @ + 1]
  OBVIOUS
<1>3. /\ held[h] # Absent /\ held[h].pc = "save" /\ \A x \in rows : x.version = n.version
      /\ rows' = {r} /\ StartSync(h, r) /\ gap' = TRUE /\ UNCHANGED geo
  BY <1>1, <1>2 DEF Save
<1>4. LagSound /\ RoutesTypeOK /\ SavesSound
  BY DEF RoutesInv
<1>5. held[h] \in Saves
  BY <1>3, <1>4 DEF RoutesTypeOK, Syncs
<1>6. n \in Storable
  BY <1>1, <1>5 DEF Saves
<1>7. n.version \in Nat
  BY <1>6 DEF Storable
<1>8. r \in Storable /\ r.version = n.version + 1
  <2>1. n.version + 1 \in Nat \ {0}
    BY <1>7
  <2>2. r = [n EXCEPT !.version = n.version + 1]
    BY <1>2
  <2>. QED BY <1>6, <2>1, <2>2 DEF Storable
<1>9. PICK c : c = [pc |-> "sync", next |-> r, i |-> 1, alone |-> Syncing = {}]
  OBVIOUS
<1>10. c \in Syncs /\ c.next = r /\ c.i = 1 /\ (c.alone <=> Syncing = {})
  <2>1. PICK b \in BOOLEAN : b = (Syncing = {})
    OBVIOUS
  <2>2. c = [pc |-> "sync", next |-> r, i |-> 1, alone |-> b]
    BY <1>9, <2>1
  <2>3. c \in Syncs /\ c.next = r /\ c.i = 1 /\ c.alone = b
    BY <1>8, <2>2 DEF Syncs
  <2>. QED BY <2>1, <2>3
<1>11. held'[h] = c /\ \A k \in Handlers : k # h =>
         held'[k] = IF k \in Syncing THEN [held[k] EXCEPT !.alone = FALSE] ELSE held[k]
  BY <1>3, <1>9 DEF StartSync
<1>12. ASSUME NEW k \in Syncing, k # h
       PROVE  held'[k] \in Syncs /\ held'[k].next = held[k].next /\ held'[k].alone = FALSE
  <2>1. held[k] \in Syncs /\ k \in Handlers
    BY <1>4, SyncingIs
  <2>2. held'[k] = [held[k] EXCEPT !.alone = FALSE]
    BY <1>11, <1>12, <2>1
  <2>. QED BY <2>1, <2>2 DEF Syncs
<1>13. \A k \in Handlers : k # h /\ k \notin Syncing => held'[k] = held[k]
  BY <1>11
<1>14. RoutesTypeOK'
  <2>1. \A k \in Handlers : held'[k] \in {Absent} \cup Saves \cup Syncs
    <3>1. \A k \in Handlers : held[k] \in {Absent} \cup Saves \cup Syncs
      BY <1>4 DEF RoutesTypeOK
    <3>. QED BY <1>10, <1>11, <1>12, <1>13, <3>1
  <2>2. held' = [k \in Handlers |-> held'[k]]
    BY <1>3 DEF StartSync
  <2>3. held' \in [Handlers -> {Absent} \cup Saves \cup Syncs]
    BY <2>1, <2>2
  <2>. QED BY <1>3, <1>4, <1>8, <2>3 DEF RoutesTypeOK
<1>15. Syncing' \subseteq Syncing \cup {h}
  <2>1. \A k \in Handlers : k # h /\ k \notin Syncing => held'[k] = Absent \/ held'[k].pc # "sync"
    BY <1>13 DEF Syncing
  <2>. QED BY <2>1 DEF Syncing
<1>16. \A x \in rows : x.version \in Nat
  BY <1>4 DEF RoutesTypeOK, Storable
<1>17. \A s \in StopIDs : geo'[s] # Absent => geo'[s].version = 0 \/ \E x \in rows' : geo'[s].version <= x.version
  <2>1. ASSUME NEW s \in StopIDs, geo[s] # Absent, geo[s].version # 0 PROVE geo[s].version <= r.version
    <3>1. PICK x \in rows : geo[s].version <= x.version
      BY <1>4, <2>1 DEF LagSound
    <3>2. x.version = n.version
      BY <1>3, <3>1
    <3>3. geo[s].version \in Nat
      <4>1. geo[s] \in Entry
        BY <1>4, <2>1 DEF RoutesTypeOK
      <4>. QED BY <4>1 DEF Entry
    <3>. QED BY <1>7, <1>8, <3>1, <3>2, <3>3
  <2>. QED BY <1>3, <2>1
<1>18. \A k \in Syncing' : \E x \in rows' : held'[k].next.version <= x.version
  <2>1. ASSUME NEW k \in Syncing, k # h PROVE held'[k].next.version <= r.version
    <3>1. PICK x \in rows : held[k].next.version <= x.version
      BY <1>4 DEF LagSound
    <3>2. x.version = n.version
      BY <1>3, <3>1
    <3>3. held[k].next.version \in Nat
      <4>1. held[k] \in Syncs
        BY <1>4, SyncingIs
      <4>2. held[k].next \in Storable
        BY <4>1 DEF Syncs
      <4>. QED BY <4>2 DEF Storable
    <3>4. held'[k].next = held[k].next
      BY <1>12, <2>1
    <3>. QED BY <1>7, <1>8, <3>1, <3>2, <3>3, <3>4
  <2>2. held'[h].next.version <= r.version
    BY <1>7, <1>8, <1>10, <1>11
  <2>. QED BY <1>3, <1>15, <2>1, <2>2
<1>19. ASSUME NEW k \in Syncing', held'[k].alone
       PROVE  Syncing' = {k} /\ rows' = {held'[k].next} /\ Written(held[k].next, held[k].i)'
  <2>1. k = h
    BY <1>12, <1>15, <1>19
  <2>2. Syncing' = {k}
    BY <1>10, <1>11, <1>15, <1>19, <2>1
  <2>3. Written(held[k].next, held[k].i)'
    <3>1. held'[k].i = 1 /\ held'[k].next = r
      BY <1>10, <1>11, <2>1
    <3>2. \A j \in DOMAIN r.stops : ~(j < 1)
      <4>1. r.stops \in Seq(Stop)
        BY <1>8 DEF Storable
      <4>. QED BY <4>1
    <3>. QED BY <3>1, <3>2 DEF Written
  <2>. QED BY <1>3, <1>10, <1>11, <2>1, <2>2, <2>3
<1>20. LagSound'
  BY <1>3, <1>17, <1>18, <1>19 DEF LagSound
<1>21. SavesSound'
  <2>1. \A x \in rows' : x.version > 1
    <3>1. n.version > 0
      BY <1>6 DEF Storable
    <3>. QED BY <1>3, <1>7, <1>8, <3>1
  <2>2. ASSUME NEW k \in Handlers, held'[k] # Absent, held'[k].pc = "save"
        PROVE  Current(held[k].next)'
    <3>1. k # h
      BY <1>10, <1>11, <2>2 DEF Syncs
    <3>2. k \notin Syncing
      <4>1. SUFFICES ASSUME k \in Syncing PROVE FALSE
        OBVIOUS
      <4>2. held'[k] \in Syncs
        BY <1>12, <3>1, <4>1
      <4>. QED BY <2>2, <4>2 DEF Syncs
    <3>3. held'[k] = held[k]
      BY <1>13, <3>1, <3>2
    <3>4. Current(held[k].next)
      BY <1>4, <2>2, <3>3 DEF SavesSound
    <3>5. PICK m : m = held[k].next
      OBVIOUS
    <3>6. m.version \in Nat
      <4>1. held[k] \in Saves
        BY <1>4, <2>2, <3>3 DEF RoutesTypeOK, Syncs
      <4>2. m \in Storable
        BY <3>5, <4>1 DEF Saves
      <4>. QED BY <4>2 DEF Storable
    <3>7. m.version = 1 \/ \E x \in rows : m.version < x.version \/ m.version = x.version
      BY <3>4, <3>5 DEF Current
    <3>8. m.version = 1 \/ m.version < r.version
      BY <1>3, <1>7, <1>8, <3>6, <3>7
    <3>9. held'[k].next = m
      BY <3>3, <3>5
    <3>. QED BY <1>3, <3>8, <3>9 DEF Current
  <2>. QED BY <2>1, <2>2 DEF SavesSound
<1>. QED BY <1>14, <1>20, <1>21 DEF RoutesInv

LEMMA RoutesUnchanged == RoutesInv /\ UNCHANGED routesVars => RoutesInv'
<1>1. SUFFICES ASSUME RoutesInv, UNCHANGED routesVars PROVE RoutesInv'
  OBVIOUS
<1>2. UNCHANGED <<rows, held, geo, gap>>
  BY <1>1 DEF routesVars
<1>3. RoutesTypeOK'
  BY <1>1, <1>2 DEF RoutesInv, RoutesTypeOK
<1>4. Syncing' = Syncing
  BY <1>2 DEF Syncing
<1>5. LagSound'
  BY <1>1, <1>2, <1>4 DEF RoutesInv, LagSound, Written
<1>6. SavesSound'
  BY <1>1, <1>2, WaitingKeeps DEF RoutesInv
<1>. QED BY <1>3, <1>5, <1>6 DEF RoutesInv

\* The inductive invariant of the route repository.
THEOREM RoutesInvHolds == RoutesSpec => []RoutesInv
<1>1. RoutesInv /\ [RoutesNext]_routesVars => RoutesInv'
  <2>1. SUFFICES ASSUME RoutesInv, RoutesNext PROVE RoutesInv'
    BY RoutesUnchanged
  <2>2. ASSUME NEW h \in Handlers, Create(h) PROVE RoutesInv'
    BY <2>1, <2>2, CreateKeeps
  <2>3. ASSUME NEW h \in Handlers, NEW op \in RouteOps, Handle(h, op) PROVE RoutesInv'
    BY <2>1, <2>3, HandleKeeps
  <2>4. ASSUME NEW h \in Handlers, Save(h) PROVE RoutesInv'
    BY <2>1, <2>4, SaveKeeps
  <2>5. ASSUME NEW h \in Handlers, SaveFails(h) PROVE RoutesInv'
    BY <2>1, <2>5, SaveFailsKeeps
  <2>6. ASSUME NEW h \in Handlers, SyncStop(h) PROVE RoutesInv'
    BY <2>1, <2>6, SyncStopKeeps
  <2>7. ASSUME NEW h \in Handlers, SyncEnds(h) PROVE RoutesInv'
    BY <2>1, <2>7, SyncEndsKeeps
  <2>8. ASSUME NEW h \in Handlers, SyncFails(h) PROVE RoutesInv'
    BY <2>1, <2>8, SyncFailsKeeps
  <2>9. ASSUME NEW stop \in OtherStops, OtherRouteSyncs(stop) PROVE RoutesInv'
    BY <2>1, <2>9, OtherRouteKeeps
  <2>. QED BY <2>1, <2>2, <2>3, <2>4, <2>5, <2>6, <2>7, <2>8, <2>9 DEF RoutesNext
<1>. QED BY <1>1, RoutesStart, PTL DEF RoutesSpec

\* Whatever was stored is loaded, once loaded stays as it is, and is judged alike by all
\* who ask.
THEOREM LoadsStayAsTheyAre == RoutesSpec => []LoadsAreStable
BY RoutesInvHolds, LoadsFollow, PTL

\* A step that replaces the row stores what a command made of it.
LEMMA StepIsSerial ==
  ASSUME RoutesInv, RoutesNext, rows' # rows, rows # {}
  PROVE  \E n \in Commanded(rows) : rows' = {[n EXCEPT !.version = @ + 1]}
<1>1. PICK h \in Handlers : Save(h)
  BY DEF RoutesNext, Create, Handle, SaveFails, SyncStop, SyncEnds, SyncFails, OtherRouteSyncs
<1>2. PICK n : n = held[h].next
  OBVIOUS
<1>3. /\ held[h] # Absent /\ held[h].pc = "save" /\ \A x \in rows : x.version = n.version
      /\ rows' = {[n EXCEPT !.version = @ + 1]}
  BY <1>1, <1>2 DEF Save
<1>4. Current(n) /\ \A x \in rows : x.version > 1 /\ x.version \in Nat
  BY <1>2, <1>3 DEF RoutesInv, SavesSound, RoutesTypeOK, Storable
<1>5. n.version # 1
  BY <1>3, <1>4
<1>6. PICK x \in rows : n.version < x.version \/ n \in Commanded(rows)
  BY <1>4, <1>5 DEF Current
<1>7. ~(n.version < x.version)
  BY <1>3, <1>4, <1>6
<1>. QED BY <1>3, <1>6, <1>7

\* No update of a route is lost.
THEOREM RouteSavesAreSerial == RoutesSpec => SavesAreSerial
<1>1. RoutesInv /\ [RoutesNext]_routesVars =>
        [rows' # rows /\ rows # {} =>
           \E n \in Commanded(rows) : rows' = {[n EXCEPT !.version = @ + 1]}]_routesVars
  BY StepIsSerial
<1>. QED BY <1>1, RoutesInvHolds, PTL DEF RoutesSpec, SavesAreSerial

\* Without a gap the last place of each identifier is in the table.
LEMMA GeoFollows == RoutesInv => GeoFollowsRoute
<1>1. SUFFICES ASSUME RoutesInv, NEW r \in rows
               PROVE  /\ \A s \in StopIDs : geo[s] # Absent => geo[s].version <= r.version
                      /\ ~gap => \A i \in DOMAIN r.stops :
                           LET s == r.stops[i].id
                               last == LastWritten(r, s)
                           IN /\ geo[s] # Absent /\ "this" \in geo[s].routes
                              /\ geo[s].version = 0 \/ last \in FindNearbyStops(last.at, 0)
  BY DEF GeoFollowsRoute
<1>2. r \in Storable /\ rows = {r} /\ LagSound /\ RoutesTypeOK
  BY <1>1 DEF RoutesInv, RoutesTypeOK
<1>3. \A s \in StopIDs : geo[s] # Absent => geo[s].version <= r.version
  <2>1. r.version \in Nat
    BY <1>2 DEF Storable
  <2>2. \A s \in StopIDs : geo[s] # Absent => geo[s].version = 0 \/ geo[s].version <= r.version
    BY <1>2 DEF LagSound
  <2>. QED BY <2>1, <2>2
<1>4. ASSUME ~gap, NEW i \in DOMAIN r.stops
      PROVE  LET s == r.stops[i].id
                 last == LastWritten(r, s)
             IN /\ geo[s] # Absent /\ "this" \in geo[s].routes
                /\ geo[s].version = 0 \/ last \in FindNearbyStops(last.at, 0)
  <2>1. r.stops \in Seq(Stop) /\ Len(r.stops) \in Nat /\ DOMAIN r.stops = 1..Len(r.stops)
    BY <1>2 DEF Storable
  <2>2. PICK id : id = r.stops[i].id
    OBVIOUS
  <2>3. PICK at : at = {k \in DOMAIN r.stops : r.stops[k].id = id}
    OBVIOUS
  <2>4. at \subseteq 1..Len(r.stops) /\ at # {}
    BY <1>4, <2>1, <2>2, <2>3
  <2>5. Max(at) \in at /\ \A y \in at : Max(at) >= y
    BY <2>1, <2>4, MaxOfPlaces
  <2>6. PICK m \in at : m = Max(at)
    BY <2>5
  <2>7. m \in 1..Len(r.stops) /\ r.stops[m].id = id /\ r.stops[m] \in Stop /\ LastWritten(r, id) = r.stops[m]
    <3>1. m \in 1..Len(r.stops) /\ r.stops[m].id = id
      BY <2>1, <2>3, <2>6
    <3>2. r.stops[m] \in Stop
      BY <2>1, <3>1
    <3>3. LastWritten(r, id) = r.stops[m]
      BY <2>3, <2>6 DEF LastWritten
    <3>. QED BY <3>1, <3>2, <3>3
  <2>8. Written(r, Len(r.stops) + 1)
    BY <1>2, <1>4 DEF LagSound
  <2>9. m < Len(r.stops) + 1 /\ \A j \in DOMAIN r.stops : m < j => r.stops[j].id # r.stops[m].id
    <3>1. \A y \in at : y \in Nat /\ ~(m < y)
      BY <2>4, <2>5, <2>6
    <3>. QED BY <2>1, <2>3, <2>7, <3>1
  <2>10. Holds(geo[id], r.stops[m])
    BY <2>1, <2>7, <2>8, <2>9 DEF Written
  <2>11. geo[id] # Absent /\ "this" \in geo[id].routes
    BY <2>10 DEF Holds
  <2>12. ASSUME geo[id].version # 0
         PROVE  r.stops[m] \in FindNearbyStops(r.stops[m].at, 0)
    <3>1. geo[id].at = r.stops[m].at /\ geo[id].cum = r.stops[m].cum
      BY <2>10, <2>12 DEF Holds
    <3>2. id \in StopIDs /\ r.stops[m].at \in Nat
          /\ r.stops[m] = [id |-> id, at |-> geo[id].at, cum |-> geo[id].cum]
      BY <2>7, <3>1 DEF Stop
    <3>3. r.stops[m] \in FindAllStops
      BY <2>11, <3>2 DEF FindAllStops, FindStopByID
    <3>4. PICK x : x = r.stops[m]
      OBVIOUS
    <3>5. x \in FindAllStops /\ x.at - x.at <= 0
      BY <3>2, <3>3, <3>4
    <3>6. x \in FindNearbyStops(x.at, 0)
      BY <3>5 DEF FindNearbyStops
    <3>. QED BY <3>4, <3>6
  <2>. QED BY <2>2, <2>7, <2>11, <2>12
<1>. QED BY <1>3, <1>4

\* The stops table follows the route.
THEOREM TableFollowsRoute == RoutesSpec => []GeoFollowsRoute
BY RoutesInvHolds, GeoFollows, PTL

=============================================================================
