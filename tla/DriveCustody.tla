------------------------------ MODULE DriveCustody ------------------------------
(***************************************************************************)
(* Custody of a five-member producer package on a remote Drive:            *)
(* RcloneDriveStorageBackend.store_package, which hashes the source files  *)
(* (_mbe_members) and hands them to RcloneDrivePublisher.publish.          *)
(*                                                                         *)
(* Each writer is a process running one store_package call after another.  *)
(* A writer takes one step per rclone command or file read.  Between two   *)
(* steps, source files may be edited, a process may be killed, and every   *)
(* rclone command may fail, with or without its remote effect.             *)
(***************************************************************************)
EXTENDS Naturals, FiniteSets

CONSTANTS
  Packages, Members, Json, Bytes, Bound, NoDir, Missing,
  Writers,    \* processes that publish
  Locks,      \* lock files: one per host
  LockOf,     \* LockOf[w]: the lock file writer w opens
  None,       \* "no writer" (a free lock), "no package", "no UUID"
  StageIds,   \* the UUIDs that uuid4 may return (bound: at most this many calls stage)
  MaxFaults,  \* bound: commands that fail, and damage done by the store
  MaxCrashes, \* bound: processes killed
  MaxEdits,   \* bound: source files changed or removed during a call
  MaxCalls,   \* bound: calls of one writer
  WeakRemote  \* may the remote finish an abandoned move, or list an old view?

ASSUME DriveAssumption ==
  /\ Json \in Members
  /\ Bound \in [Packages -> [Members -> SUBSET Bytes]]
  /\ Missing \notin Bytes
  /\ NoDir \notin [Members -> Bytes \cup {Missing}]
  /\ LockOf \in [Writers -> Locks]
  /\ None \notin Writers
  /\ {MaxFaults, MaxCrashes, MaxEdits, MaxCalls} \subseteq Nat
  /\ WeakRemote \in BOOLEAN

(* All writers share one lock: the deployment the publisher is meant for.  *)
OneLock == \A v, w \in Writers : LockOf[v] = LockOf[w]

(* The remote does nothing behind the writers' backs.                      *)
Cooperating == OneLock /\ ~WeakRemote

Directories == [Members -> Bytes \cup {Missing}]
EmptyDir == [m \in Members |-> Missing]

(* Where a call is: the step it is about to take.                          *)
Unlocked == {"idle", "bind", "hash", "lock", "rejected"}
Staging  == {"copy", "recheck", "move", "purge"}
Locked   == {"parent", "list", "replay", "mkstage", "vfinal", "unlock"} \cup Staging
Steps    == Unlocked \cup Locked

VARIABLES
  source,     \* source[w]: the local package directory of w's call
  pkg,        \* pkg[w]: the package version w publishes
  want,       \* want[w]: member -> bytes hashed for it (the RemoteMember tuple)
  pc,         \* pc[w]: the next step of w
  stageOf,    \* stageOf[w]: the UUID of w's staging directory
  outcome,    \* outcome[w]: how w's call ends
  lock,       \* lock[l]: the writer that holds flock l
  stages,     \* stages[s]: the remote directory _staging/s
  used,       \* UUIDs already drawn
  final,      \* final[p]: the remote final directory of p
  late,       \* moves <<s, p>> still under way although their rclone is given up
  damaged,    \* packages whose final directory the store has damaged
  acked,      \* history: directories reported as stored and verified
  clean,      \* history: w's call met no fault, edit or damage so far
  calls, faults, crashes, edits   \* what is spent of the bounds

locals  == <<source, pkg, want, stageOf>>
remote  == <<stages, used, final, late, damaged>>
history == <<acked, calls>>
vars == <<source, pkg, want, pc, stageOf, outcome, lock, stages, used, final,
          late, damaged, acked, clean, calls, faults, crashes, edits>>

TypeOK ==
  /\ source \in [Writers -> Directories]
  /\ pkg \in [Writers -> Packages \cup {None}]
  /\ want \in [Writers -> Directories]
  /\ pc \in [Writers -> Steps]
  /\ stageOf \in [Writers -> StageIds \cup {None}]
  /\ outcome \in [Writers -> {"none", "created", "replayed", "failed"}]
  /\ lock \in [Locks -> Writers \cup {None}]
  /\ stages \in [StageIds -> Directories \cup {NoDir}]
  /\ used \subseteq StageIds
  /\ final \in [Packages -> Directories \cup {NoDir}]
  /\ late \subseteq StageIds \X Packages
  /\ damaged \subseteq Packages
  /\ acked \in [Packages -> SUBSET Directories]
  /\ clean \in [Writers -> BOOLEAN]
  /\ calls \in [Writers -> Nat]
  /\ faults \in Nat /\ crashes \in Nat /\ edits \in Nat

Init ==
  /\ source = [w \in Writers |-> EmptyDir]
  /\ pkg = [w \in Writers |-> None]
  /\ want = [w \in Writers |-> EmptyDir]
  /\ pc = [w \in Writers |-> "idle"]
  /\ stageOf = [w \in Writers |-> None]
  /\ outcome = [w \in Writers |-> "none"]
  /\ lock = [l \in Locks |-> None]
  /\ stages = [s \in StageIds |-> NoDir]
  /\ used = {}
  /\ final = [p \in Packages |-> NoDir]
  /\ late = {}
  /\ damaged = {}
  /\ acked = [p \in Packages |-> {}]
  /\ clean = [w \in Writers |-> TRUE]
  /\ calls = [w \in Writers |-> 0]
  /\ faults = 0 /\ crashes = 0 /\ edits = 0

---------------------------------------------------------------------------------
(* Control: where the call goes next, and how it fails.                    *)

Goto(w, step) == pc' = [pc EXCEPT ![w] = step]

Continue(w, step) == Goto(w, step) /\ UNCHANGED outcome

(* An exception: the call will report failure after the cleanup at step.   *)
Raise(w, step) ==
  /\ Goto(w, step)
  /\ outcome' = [outcome EXCEPT ![w] = "failed"]

(* The command just run did not report what the remote then holds.         *)
Fault(w) ==
  /\ faults < MaxFaults
  /\ faults' = faults + 1
  /\ clean' = [clean EXCEPT ![w] = FALSE]

NoFault == UNCHANGED <<faults, clean>>

(* Mutant: a directory with all its members is accepted by size alone.     *)
VerifiedBySize(w, d) == d # NoDir /\ \A m \in Members : d[m] # Missing

(* An exact directory: every expected member, with the expected bytes.     *)
Verified(w, d) == d = want[w]

Acknowledge(w) == acked' = [acked EXCEPT ![pkg[w]] = @ \cup {want[w]}]

(* JSON goes last in the member list.                                      *)
NextMember(m, d) ==
  /\ d[m] = Missing
  /\ m = Json => \A n \in Members \ {Json} : d[n] # Missing

Complete(d) == \A m \in Members : d[m] # Missing

(* Mutant: a lock that outlives its holder, as a lock file would.          *)
EndCallKeepsLock(w) ==
  /\ Goto(w, "idle")
  /\ source' = [source EXCEPT ![w] = EmptyDir]
  /\ pkg' = [pkg EXCEPT ![w] = None]
  /\ want' = [want EXCEPT ![w] = EmptyDir]
  /\ stageOf' = [stageOf EXCEPT ![w] = None]
  /\ outcome' = [outcome EXCEPT ![w] = "none"]
  /\ clean' = [clean EXCEPT ![w] = TRUE]
  /\ UNCHANGED lock

(* The call is over: its locals are gone.                                  *)
EndCall(w) ==
  /\ Goto(w, "idle")
  /\ source' = [source EXCEPT ![w] = EmptyDir]
  /\ pkg' = [pkg EXCEPT ![w] = None]
  /\ want' = [want EXCEPT ![w] = EmptyDir]
  /\ stageOf' = [stageOf EXCEPT ![w] = None]
  /\ outcome' = [outcome EXCEPT ![w] = "none"]
  /\ clean' = [clean EXCEPT ![w] = TRUE]
  /\ lock' = [l \in Locks |-> IF lock[l] = w THEN None ELSE lock[l]]

---------------------------------------------------------------------------------
(* _mbe_members: bind the JSON to the metadata, then hash every file.      *)

(* The package passed readiness and validation, so its files agree with    *)
(* the metadata when the call starts.                                      *)
Begin(w) ==
  /\ pc[w] = "idle"
  /\ calls[w] < MaxCalls
  /\ calls' = [calls EXCEPT ![w] = @ + 1]
  /\ \E p \in Packages, d \in [Members -> Bytes] :
       /\ \A m \in Members : d[m] \in Bound[p][m]
       /\ pkg' = [pkg EXCEPT ![w] = p]
       /\ source' = [source EXCEPT ![w] = d]
  /\ Continue(w, "bind")
  /\ UNCHANGED <<want, stageOf, lock, acked, crashes, edits>>
  /\ UNCHANGED remote /\ NoFault

BindJson(w) ==
  /\ pc[w] = "bind"
  /\ IF source[w][Json] \in Bound[pkg[w]][Json]
       THEN Continue(w, "hash")
       ELSE Raise(w, "rejected")
  /\ UNCHANGED <<lock, crashes, edits>>
  /\ UNCHANGED locals /\ UNCHANGED remote /\ UNCHANGED history /\ NoFault

(* Mutant: the hash is recorded without comparing it to the producer's.    *)
HashUnchecked(w, m) ==
  /\ pc[w] = "hash"
  /\ NextMember(m, want[w])
  /\ source[w][m] # Missing
  /\ want' = [want EXCEPT ![w][m] = source[w][m]]
  /\ Continue(w, "hash")
  /\ UNCHANGED <<source, pkg, stageOf, lock, crashes, edits>>
  /\ UNCHANGED remote /\ UNCHANGED history /\ NoFault

(* Fingerprint-bound members must hash to the producer's SHA-256; for the  *)
(* JSON any bytes are taken ("expected_hash" is empty).                    *)
HashMember(w, m) ==
  /\ pc[w] = "hash"
  /\ NextMember(m, want[w])
  /\ IF /\ source[w][m] # Missing
        /\ m # Json => source[w][m] \in Bound[pkg[w]][m]
       THEN /\ want' = [want EXCEPT ![w][m] = source[w][m]]
            /\ Continue(w, "hash")
       ELSE /\ Raise(w, "rejected")
            /\ UNCHANGED want
  /\ UNCHANGED <<source, pkg, stageOf, lock, crashes, edits>>
  /\ UNCHANGED remote /\ UNCHANGED history /\ NoFault

(* _validate_publish_inputs compares sizes again: a changed file is        *)
(* noticed here if its size changed too.                                   *)
ValidateInputs(w) ==
  /\ pc[w] = "hash"
  /\ Complete(want[w])
  /\ \/ Complete(source[w]) /\ Continue(w, "lock")
     \/ source[w] # want[w] /\ Raise(w, "rejected")
  /\ UNCHANGED <<lock, crashes, edits>>
  /\ UNCHANGED locals /\ UNCHANGED remote /\ UNCHANGED history /\ NoFault

---------------------------------------------------------------------------------
(* publish: under the host's writer lock.                                  *)

(* Mutant: a shared lock where an exclusive one is needed.                 *)
AcquireShared(w) ==
  /\ pc[w] = "lock"
  /\ lock' = [lock EXCEPT ![LockOf[w]] = w]
  /\ Continue(w, "parent")
  /\ UNCHANGED <<crashes, edits>>
  /\ UNCHANGED locals /\ UNCHANGED remote /\ UNCHANGED history /\ NoFault

(* The lock file may be impossible to create or to open.                   *)
AcquireLock(w) ==
  /\ pc[w] = "lock"
  /\ \/ /\ lock[LockOf[w]] = None
        /\ lock' = [lock EXCEPT ![LockOf[w]] = w]
        /\ Continue(w, "parent") /\ NoFault
     \/ UNCHANGED lock /\ Raise(w, "rejected") /\ Fault(w)
  /\ UNCHANGED <<crashes, edits>>
  /\ UNCHANGED locals /\ UNCHANGED remote /\ UNCHANGED history

(* mkdir of the final parent is idempotent; only its failure matters.      *)
MkdirFinalParent(w) ==
  /\ pc[w] = "parent"
  /\ \/ Continue(w, "list") /\ NoFault
     \/ Raise(w, "unlock") /\ Fault(w)
  /\ UNCHANGED <<lock, crashes, edits>>
  /\ UNCHANGED locals /\ UNCHANGED remote /\ UNCHANGED history

(* _exists lists the parent directory, which may be an old view of it.     *)
ListFinal(w) ==
  /\ pc[w] = "list"
  /\ \/ Continue(w, IF final[pkg[w]] = NoDir THEN "mkstage" ELSE "replay") /\ NoFault
     \/ WeakRemote /\ Continue(w, "mkstage") /\ Fault(w)
     \/ Raise(w, "unlock") /\ Fault(w)
  /\ UNCHANGED <<lock, crashes, edits>>
  /\ UNCHANGED locals /\ UNCHANGED remote /\ UNCHANGED history

(* Return success, or raise, after verifying the final directory.          *)
VerifyFinal(w, success) ==
  /\ \/ /\ Verified(w, final[pkg[w]])
        /\ Goto(w, "unlock")
        /\ outcome' = [outcome EXCEPT ![w] = success]
        /\ Acknowledge(w)
        /\ NoFault
     \/ ~Verified(w, final[pkg[w]]) /\ Raise(w, "unlock") /\ UNCHANGED acked /\ NoFault
     \/ Raise(w, "unlock") /\ UNCHANGED acked /\ Fault(w)
  /\ UNCHANGED <<lock, calls, crashes, edits>>
  /\ UNCHANGED locals /\ UNCHANGED remote

VerifyReplay(w) == pc[w] = "replay" /\ VerifyFinal(w, "replayed")

VerifyPromoted(w) == pc[w] = "vfinal" /\ VerifyFinal(w, "created")

---------------------------------------------------------------------------------
(* publish, new version: stage, verify, promote.                           *)

SetStage(s, d) == stages' = [stages EXCEPT ![s] = d]

(* Mutant: one staging directory for all calls; mkdir of it is idempotent. *)
MkdirSharedStaging(w) ==
  /\ pc[w] = "mkstage"
  /\ LET s == CHOOSE t \in StageIds : TRUE
     IN  /\ used' = used \cup {s}
         /\ stageOf' = [stageOf EXCEPT ![w] = s]
         /\ SetStage(s, IF stages[s] = NoDir THEN EmptyDir ELSE stages[s])
  /\ Continue(w, "copy") /\ NoFault
  /\ UNCHANGED <<source, pkg, want, lock, final, late, damaged, crashes, edits>>
  /\ UNCHANGED history

(* This mkdir precedes the try block: when it fails nothing is purged.     *)
MkdirStaging(w) ==
  /\ pc[w] = "mkstage"
  /\ \E s \in StageIds \ used :
       /\ used' = used \cup {s}
       /\ stageOf' = [stageOf EXCEPT ![w] = s]
       /\ \/ SetStage(s, EmptyDir) /\ Continue(w, "copy") /\ NoFault
          \/ SetStage(s, EmptyDir) /\ Raise(w, "unlock") /\ Fault(w)
          \/ UNCHANGED stages /\ Raise(w, "unlock") /\ Fault(w)
  /\ UNCHANGED <<source, pkg, want, lock, final, late, damaged, crashes, edits>>
  /\ UNCHANGED history

(* copyto re-reads the source; what arrives may also be damaged on the way. *)
CopyMember(w, m) ==
  LET s == stageOf[w]
      upload(b) == SetStage(s, [stages[s] EXCEPT ![m] = b])
  IN  /\ pc[w] = "copy"
      /\ NextMember(m, stages[s])
      /\ IF source[w][m] = Missing
           THEN UNCHANGED stages /\ Raise(w, "purge") /\ NoFault
           ELSE \/ upload(source[w][m]) /\ Continue(w, "copy") /\ NoFault
                \/ /\ \E b \in Bytes \ {source[w][m]} : upload(b)
                   /\ Continue(w, "copy") /\ Fault(w)
                \/ upload(source[w][m]) /\ Raise(w, "purge") /\ Fault(w)
                \/ UNCHANGED stages /\ Raise(w, "purge") /\ Fault(w)
      /\ UNCHANGED <<lock, used, final, late, damaged, crashes, edits>>
      /\ UNCHANGED locals /\ UNCHANGED history

(* Mutant: a mismatch forgets the staging directory.                       *)
VerifyStagingNoPurge(w) ==
  /\ pc[w] = "copy"
  /\ Complete(stages[stageOf[w]])
  /\ \/ Verified(w, stages[stageOf[w]]) /\ Continue(w, "recheck") /\ NoFault
     \/ ~Verified(w, stages[stageOf[w]]) /\ Raise(w, "unlock") /\ NoFault
  /\ UNCHANGED <<lock, crashes, edits>>
  /\ UNCHANGED locals /\ UNCHANGED remote /\ UNCHANGED history

VerifyStaging(w) ==
  /\ pc[w] = "copy"
  /\ Complete(stages[stageOf[w]])
  /\ \/ Verified(w, stages[stageOf[w]]) /\ Continue(w, "recheck") /\ NoFault
     \/ ~Verified(w, stages[stageOf[w]]) /\ Raise(w, "purge") /\ NoFault
     \/ Raise(w, "purge") /\ Fault(w)
  /\ UNCHANGED <<lock, crashes, edits>>
  /\ UNCHANGED locals /\ UNCHANGED remote /\ UNCHANGED history

RecheckAbsent(w) ==
  /\ pc[w] = "recheck"
  /\ \/ final[pkg[w]] = NoDir /\ Continue(w, "move") /\ NoFault
     \/ final[pkg[w]] # NoDir /\ Raise(w, "purge") /\ NoFault
     \/ WeakRemote /\ Continue(w, "move") /\ Fault(w)
     \/ Raise(w, "purge") /\ Fault(w)
  /\ UNCHANGED <<lock, crashes, edits>>
  /\ UNCHANGED locals /\ UNCHANGED remote /\ UNCHANGED history

(* rclone moveto: a server-side rename when the destination is absent,     *)
(* else a file-by-file move that replaces the files already there.         *)
RemoteMove(s, p) ==
  /\ final' = [final EXCEPT ![p] =
       IF @ = NoDir THEN stages[s]
       ELSE [m \in Members |-> IF stages[s][m] = Missing THEN @[m] ELSE stages[s][m]]]
  /\ SetStage(s, NoDir)

(* The caller no longer waits for its moveto; the remote may still do it.  *)
AbandonMove(w) ==
  \/ UNCHANGED late
  \/ WeakRemote /\ late' = late \cup {<<stageOf[w], pkg[w]>>}

(* A moveto that fails is taken as not promoted, even when it was applied  *)
(* or is still to be.                                                      *)
MoveToFinal(w) ==
  /\ pc[w] = "move"
  /\ \/ RemoteMove(stageOf[w], pkg[w]) /\ Continue(w, "vfinal") /\ UNCHANGED late /\ NoFault
     \/ RemoteMove(stageOf[w], pkg[w]) /\ Raise(w, "purge") /\ UNCHANGED late /\ Fault(w)
     \/ UNCHANGED <<stages, final>> /\ Raise(w, "purge") /\ AbandonMove(w) /\ Fault(w)
  /\ UNCHANGED <<lock, used, damaged, crashes, edits>>
  /\ UNCHANGED locals /\ UNCHANGED history

(* Mutant: cleaning up also removes the final directory.                   *)
PurgeFinalToo(w) ==
  /\ pc[w] = "purge"
  /\ SetStage(stageOf[w], NoDir)
  /\ final' = [final EXCEPT ![pkg[w]] = NoDir]
  /\ Continue(w, "unlock") /\ NoFault
  /\ UNCHANGED <<lock, used, late, damaged, crashes, edits>>
  /\ UNCHANGED locals /\ UNCHANGED history

(* Best effort: a failing purge is swallowed.                              *)
PurgeStaging(w) ==
  /\ pc[w] = "purge"
  /\ \/ SetStage(stageOf[w], NoDir) /\ NoFault
     \/ SetStage(stageOf[w], NoDir) /\ Fault(w)
     \/ UNCHANGED stages /\ Fault(w)
  /\ Continue(w, "unlock")
  /\ UNCHANGED <<lock, used, final, late, damaged, crashes, edits>>
  /\ UNCHANGED locals /\ UNCHANGED history

Return(w) ==
  /\ pc[w] \in {"unlock", "rejected"}
  /\ EndCall(w)
  /\ UNCHANGED <<faults, crashes, edits>>
  /\ UNCHANGED remote /\ UNCHANGED history

---------------------------------------------------------------------------------
(* The environment.                                                        *)

(* A killed process: the kernel drops its flock, staging stays behind, and *)
(* so may the rclone child that was moving it.                             *)
Crash(w) ==
  /\ pc[w] # "idle"
  /\ crashes < MaxCrashes
  /\ crashes' = crashes + 1
  /\ IF pc[w] = "move" THEN AbandonMove(w) ELSE UNCHANGED late
  /\ EndCall(w)
  /\ UNCHANGED <<stages, used, final, damaged, faults, edits>>
  /\ UNCHANGED history

(* An abandoned move is carried out, unless staging was purged before.     *)
LateMove(s, p) ==
  /\ <<s, p>> \in late
  /\ late' = late \ {<<s, p>>}
  /\ IF stages[s] = NoDir THEN UNCHANGED <<stages, final>> ELSE RemoteMove(s, p)
  /\ UNCHANGED <<pc, outcome, lock, used, damaged, clean, faults, crashes, edits>>
  /\ UNCHANGED locals /\ UNCHANGED history

(* A source file is replaced or removed while the call may still read it.  *)
EditSource(w) ==
  /\ pc[w] \in {"bind", "hash", "lock", "parent", "list", "mkstage", "copy"}
  /\ edits < MaxEdits
  /\ edits' = edits + 1
  /\ \E m \in Members, b \in Bytes \cup {Missing} :
       source' = [source EXCEPT ![w][m] = b]
  /\ clean' = [clean EXCEPT ![w] = FALSE]
  /\ UNCHANGED <<pkg, want, pc, stageOf, outcome, lock, faults, crashes>>
  /\ UNCHANGED remote /\ UNCHANGED history

(* The store loses or corrupts a member of a final directory.              *)
DamageFinal(p) ==
  /\ final[p] # NoDir
  /\ faults < MaxFaults
  /\ faults' = faults + 1
  /\ \E m \in Members, b \in Bytes \cup {Missing} :
       final' = [final EXCEPT ![p][m] = b]
  /\ damaged' = damaged \cup {p}
  /\ UNCHANGED <<pc, outcome, lock, stages, used, late, clean, crashes, edits>>
  /\ UNCHANGED locals /\ UNCHANGED history

---------------------------------------------------------------------------------
Step(w) ==
  \/ BindJson(w) \/ ValidateInputs(w) \/ AcquireLock(w) \/ MkdirFinalParent(w)
  \/ ListFinal(w) \/ VerifyReplay(w) \/ MkdirStaging(w)
  \/ VerifyStaging(w) \/ RecheckAbsent(w) \/ MoveToFinal(w) \/ VerifyPromoted(w)
  \/ PurgeStaging(w) \/ Return(w)
  \/ \E m \in Members : HashMember(w, m) \/ CopyMember(w, m)

Next ==
  \/ \E w \in Writers : Begin(w) \/ Step(w) \/ Crash(w) \/ EditSource(w)
  \/ \E p \in Packages : DamageFinal(p) \/ \E s \in StageIds : LateMove(s, p)

Spec == Init /\ [][Next]_vars

(* A started process keeps running unless killed; flock eventually grants  *)
(* a lock that is free.  Nothing makes an operator start another call.     *)
FairSpec == Spec /\ \A w \in Writers : WF_vars(Step(w))

---------------------------------------------------------------------------------
(* Properties.                                                             *)

Running(w, p) == pc[w] # "idle" /\ pkg[w] = p

(* The lock file excludes: of the writers of one host, at most one is      *)
(* between _writer_lock's entry and its exit, crashes included.            *)
LockExcludes ==
  \A v, w \in Writers :
    LockOf[v] = LockOf[w] /\ {pc[v], pc[w]} \subseteq Locked => v = w

(* Content addressing: whatever failed, crashed, was edited or raced, on   *)
(* any number of hosts, a final directory the store has not damaged is     *)
(* complete and its media are the bytes its fingerprint binds.             *)
Faithful(p, d) ==
  /\ d \in [Members -> Bytes]
  /\ \A m \in Members \ {Json} : d[m] \in Bound[p][m]

FinalFaithful ==
  \A p \in Packages \ damaged : final[p] = NoDir \/ Faithful(p, final[p])

(* The docstring of _bind_producer_json: the uploaded producer JSON is the *)
(* source of the normalized asset, so it parses to that asset's metadata.  *)
FinalJsonBound ==
  \A p \in Packages \ damaged : final[p] = NoDir \/ final[p][Json] \in Bound[p][Json]

(* Every caller that was told "stored and verified" was told of the bytes  *)
(* the final directory still holds, so all such callers agree.             *)
AckedAreThere ==
  \A p \in Packages \ damaged : \A d \in acked[p] : final[p] = d

(* Cooperating writers never merge, repair, overwrite or remove a final    *)
(* directory, not even a damaged one.                                      *)
FinalUntouched ==
  [][(\E w \in Writers : Step(w)) =>
       \A p \in Packages : final[p] # NoDir => final'[p] = final[p]]_vars

(* Replay is the recovery: whatever earlier calls left behind, a call that *)
(* meets no fault, edit or damage of its own fails only if other bytes     *)
(* (another rendering of the JSON) are already in custody.                 *)
CleanCallSucceeds ==
  \A w \in Writers :
    (/\ pc[w] \in {"unlock", "rejected"}
     /\ clean[w] /\ pkg[w] \notin damaged
     /\ outcome[w] = "failed") => final[pkg[w]] \notin {NoDir, want[w]}

(* Staging is not leaked: each staging directory that no running call owns *)
(* is paid for by a failed command or a killed process.                    *)
Orphans == {s \in StageIds : stages[s] # NoDir /\ \A w \in Writers : stageOf[w] # s}

StagingAccounted == Cardinality(Orphans) <= faults + crashes

(* Every call ends: no writer waits for ever for a lock, although holders  *)
(* fail and crash.                                                         *)
CallsEnd == \A w \in Writers : pc[w] # "idle" ~> pc[w] = "idle"

(* The publisher implements the custody it promises.                       *)
Custody == INSTANCE ImmutableCustody WITH
  Packages <- Packages, Members <- Members, Json <- Json, Bytes <- Bytes,
  Bound <- Bound, NoDir <- NoDir, Missing <- Missing,
  final <- final, acked <- acked, damaged <- damaged

ImplementsCustody == Custody!Spec

---------------------------------------------------------------------------------
(* Why the properties hold: the inductive invariant of the proofs.         *)

(* A call knows its package; its hashes are bound as they are collected.   *)
CallState ==
  \A w \in Writers :
    /\ IF pc[w] = "idle" THEN want[w] = EmptyDir ELSE pkg[w] \in Packages
    /\ \A m \in Members \ {Json} :
         want[w][m] # Missing => want[w][m] \in Bound[pkg[w]][m]
    /\ pc[w] \in {"lock"} \cup Locked => Complete(want[w])

LockHeld == \A w \in Writers : pc[w] \in Locked <=> lock[LockOf[w]] = w

(* A UUID is drawn once, so nobody else touches a call's staging.          *)
StagingPrivate ==
  /\ \A w \in Writers : pc[w] \in Staging => stageOf[w] \in used
  /\ \A v, w \in Writers :
       {pc[v], pc[w]} \subseteq Staging /\ stageOf[v] = stageOf[w] => v = w

(* What VerifyStaging saw is what MoveToFinal promotes.                    *)
StagedVerified ==
  \A w \in Writers :
    /\ pc[w] = "copy" => stages[stageOf[w]] \in Directories
    /\ pc[w] \in {"recheck", "move"} => stages[stageOf[w]] = want[w]

(* A move still under way moves a verified directory that no call stages   *)
(* into any more.                                                          *)
LateStaged ==
  \A l \in late :
    /\ l[1] \in used
    /\ stages[l[1]] = NoDir \/ Faithful(l[2], stages[l[1]])
    /\ \A w \in Writers : pc[w] \in Staging \ {"purge"} => stageOf[w] # l[1]

(* Staging directories that no call is going to move or purge any more:    *)
(* each was left by a failed command or a killed process of its own.       *)
Owed ==
  {s \in StageIds :
     stages[s] # NoDir /\ \A w \in Writers : pc[w] \in Staging => stageOf[w] # s}

(* Stronger than StagingAccounted: it also counts the directories of calls  *)
(* that have given up on theirs but not returned yet.                      *)
OwedPaid == IsFiniteSet(Owed) /\ Cardinality(Owed) <= faults + crashes

IndInv ==
  /\ TypeOK
  /\ CallState
  /\ LockHeld
  /\ StagingPrivate
  /\ StagedVerified
  /\ LateStaged
  /\ FinalFaithful
  /\ OwedPaid

(* With one lock and a remote that does what it says when it says so, what *)
(* RecheckAbsent saw still holds at MoveToFinal.                           *)
PromotesToAbsent == \A w \in Writers : pc[w] = "move" => final[pkg[w]] = NoDir

(* What an undisturbed call has seen so far still holds while it runs: its *)
(* hashes, its staging and the final directory are those of its source.    *)
Undisturbed(w) == pc[w] # "idle" /\ clean[w] /\ pkg[w] \notin damaged

CleanCall(w) ==
  /\ pc[w] = "idle" => outcome[w] = "none"
  /\ Undisturbed(w) =>
       /\ \A m \in Members : /\ source[w][m] \in Bound[pkg[w]][m]
                            /\ want[w][m] \in {Missing, source[w][m]}
       /\ pc[w] = "copy" =>
            \A m \in Members : stages[stageOf[w]][m] \in {Missing, source[w][m]}
       /\ pc[w] \in {"mkstage", "copy", "recheck"} => final[pkg[w]] = NoDir
       /\ pc[w] = "replay" => final[pkg[w]] # NoDir
       /\ pc[w] = "vfinal" => final[pkg[w]] = want[w]
       /\ pc[w] \notin {"purge", "rejected"}
       /\ outcome[w] = "failed" =>
            pc[w] = "unlock" /\ final[pkg[w]] \notin {NoDir, want[w]}

CleanCalls == \A w \in Writers : CleanCall(w)

OneLockInv == IndInv /\ late = {} /\ PromotesToAbsent /\ AckedAreThere /\ CleanCalls
=================================================================================
