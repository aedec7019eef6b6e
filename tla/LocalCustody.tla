------------------------------ MODULE LocalCustody ------------------------------
(***************************************************************************)
(* Custody of a five-member producer package in an Atlas-owned directory:  *)
(* LocalStorageBackend.store_package.                                      *)
(*                                                                         *)
(* Every writer takes the flock of the root directory, so one call is in   *)
(* its critical section at a time; kills, source edits, failing file       *)
(* operations and interrupts still come between any two of its steps.      *)
(* Unlike the Drive publisher, the media hashes are the producer's, taken  *)
(* from the metadata, and a promoted directory is reported as verified     *)
(* without being read again.                                               *)
(***************************************************************************)
EXTENDS Naturals

CONSTANTS
  Packages, Members, Json, Bytes, Bound, NoDir, Missing,
  Writers,    \* processes that store packages
  None,       \* "no writer", "no package"
  MaxFaults,  \* bound: failing file operations, interrupts, damaged directories
  MaxCrashes, \* bound: processes killed
  MaxEdits,   \* bound: source files changed or removed during a call
  MaxCalls    \* bound: calls of one writer

ASSUME LocalAssumption ==
  /\ Json \in Members
  /\ Bound \in [Packages -> [Members -> SUBSET Bytes]]
  /\ Missing \notin Bytes
  /\ NoDir \notin [Members -> Bytes \cup {Missing}]
  /\ None \notin Writers
  /\ {MaxFaults, MaxCrashes, MaxEdits, MaxCalls} \subseteq Nat

Directories == [Members -> Bytes \cup {Missing}]
EmptyDir == [m \in Members |-> Missing]

Locked == {"look", "replay", "mkstage", "copy", "rename", "rmtree", "unlock"}
Steps == {"idle", "hash", "lock", "rejected"} \cup Locked

VARIABLES
  source,     \* source[w]: the local package directory of w's call
  pkg,        \* pkg[w]: the package version w stores
  json,       \* json[w]: the JSON bytes w hashed
  pc,         \* pc[w]: the next step of w
  stage,      \* stage[w]: the directory .staging/<uuid> of w's call
  root,       \* the writer that holds the flock of the root
  final,      \* final[p]: the directory assets/<asset_uid>/<fingerprint>
  damaged,    \* packages whose final directory was damaged
  abandoned,  \* staging directories left behind by calls that are over
  acked,      \* history: directories reported as stored and verified
  failed,     \* history: w's call will raise
  clean,      \* history: w's call met no fault, edit or damage so far
  calls, faults, crashes, edits   \* what is spent of the bounds

disk == <<final, damaged, abandoned>>
bounds == <<calls, faults, crashes, edits>>
vars == <<source, pkg, json, pc, stage, root, final, damaged, abandoned, acked,
          failed, clean, calls, faults, crashes, edits>>

TypeOK ==
  /\ source \in [Writers -> Directories]
  /\ pkg \in [Writers -> Packages \cup {None}]
  /\ json \in [Writers -> Bytes \cup {Missing}]
  /\ pc \in [Writers -> Steps]
  /\ stage \in [Writers -> Directories \cup {NoDir}]
  /\ \A w \in Writers :
       /\ pc[w] \in {"lock"} \cup Locked => json[w] # Missing
       /\ pc[w] \in {"copy", "rename"} => stage[w] # NoDir
  /\ root \in Writers \cup {None}
  /\ final \in [Packages -> Directories \cup {NoDir}]
  /\ damaged \subseteq Packages
  /\ abandoned \in Nat
  /\ acked \in [Packages -> SUBSET Directories]
  /\ failed \in [Writers -> BOOLEAN] /\ clean \in [Writers -> BOOLEAN]
  /\ calls \in [Writers -> Nat]
  /\ faults \in Nat /\ crashes \in Nat /\ edits \in Nat

Init ==
  /\ source = [w \in Writers |-> EmptyDir]
  /\ pkg = [w \in Writers |-> None]
  /\ json = [w \in Writers |-> Missing]
  /\ pc = [w \in Writers |-> "idle"]
  /\ stage = [w \in Writers |-> NoDir]
  /\ root = None
  /\ final = [p \in Packages |-> NoDir]
  /\ damaged = {} /\ abandoned = 0
  /\ acked = [p \in Packages |-> {}]
  /\ failed = [w \in Writers |-> FALSE] /\ clean = [w \in Writers |-> TRUE]
  /\ calls = [w \in Writers |-> 0]
  /\ faults = 0 /\ crashes = 0 /\ edits = 0

---------------------------------------------------------------------------------
Goto(w, step) == pc' = [pc EXCEPT ![w] = step]
Continue(w, step) == Goto(w, step) /\ UNCHANGED failed
Raise(w, step) == Goto(w, step) /\ failed' = [failed EXCEPT ![w] = TRUE]

NoFault == UNCHANGED <<faults, clean>>
Fault(w) ==
  /\ faults < MaxFaults
  /\ faults' = faults + 1
  /\ clean' = [clean EXCEPT ![w] = FALSE]

(* Mutant: only the presence of the files is checked.                      *)
VerifiedByName(w, d) == d # NoDir /\ \A m \in Members : d[m] # Missing

(* Exactly the five files, with the producer's hashes and the JSON's hash. *)
Verified(w, d) ==
  /\ d \in [Members -> Bytes]
  /\ d[Json] = json[w]
  /\ \A m \in Members \ {Json} : d[m] \in Bound[pkg[w]][m]

(* members is filled with the JSON last.                                   *)
NextMember(m, d) ==
  /\ d[m] = Missing
  /\ m = Json => \A n \in Members \ {Json} : d[n] # Missing

(* Mutant: the flock is not that of an open descriptor.                    *)
EndCallKeepsRoot(w) ==
  /\ Goto(w, "idle")
  /\ abandoned' = IF stage[w] = NoDir THEN abandoned ELSE abandoned + 1
  /\ source' = [source EXCEPT ![w] = EmptyDir]
  /\ pkg' = [pkg EXCEPT ![w] = None]
  /\ json' = [json EXCEPT ![w] = Missing]
  /\ stage' = [stage EXCEPT ![w] = NoDir]
  /\ failed' = [failed EXCEPT ![w] = FALSE]
  /\ clean' = [clean EXCEPT ![w] = TRUE]
  /\ UNCHANGED root

(* The call is over: descriptors, and with them the flock, are closed.     *)
EndCall(w) ==
  /\ Goto(w, "idle")
  /\ root' = IF root = w THEN None ELSE root
  /\ abandoned' = IF stage[w] = NoDir THEN abandoned ELSE abandoned + 1
  /\ source' = [source EXCEPT ![w] = EmptyDir]
  /\ pkg' = [pkg EXCEPT ![w] = None]
  /\ json' = [json EXCEPT ![w] = Missing]
  /\ stage' = [stage EXCEPT ![w] = NoDir]
  /\ failed' = [failed EXCEPT ![w] = FALSE]
  /\ clean' = [clean EXCEPT ![w] = TRUE]

---------------------------------------------------------------------------------
(* The package was validated: its files agree with its metadata.           *)
Begin(w) ==
  /\ pc[w] = "idle"
  /\ calls[w] < MaxCalls
  /\ calls' = [calls EXCEPT ![w] = @ + 1]
  /\ \E p \in Packages, d \in [Members -> Bytes] :
       /\ \A m \in Members : d[m] \in Bound[p][m]
       /\ pkg' = [pkg EXCEPT ![w] = p]
       /\ source' = [source EXCEPT ![w] = d]
  /\ Continue(w, "hash") /\ NoFault
  /\ UNCHANGED <<json, stage, root, acked, crashes, edits>> /\ UNCHANGED disk

(* All sources must be regular files; only the JSON is read and hashed.    *)
HashJson(w) ==
  /\ pc[w] = "hash"
  /\ IF \E m \in Members : source[w][m] = Missing
       THEN Raise(w, "rejected") /\ UNCHANGED json
       ELSE Continue(w, "lock") /\ json' = [json EXCEPT ![w] = source[w][Json]]
  /\ UNCHANGED <<source, pkg, stage, root, acked, clean>>
  /\ UNCHANGED disk /\ UNCHANGED bounds

(* Mutant: the flock is shared.                                            *)
AcquireShared(w) ==
  /\ pc[w] = "lock"
  /\ root' = w
  /\ Continue(w, "look")
  /\ UNCHANGED <<source, pkg, json, stage, acked, clean>>
  /\ UNCHANGED disk /\ UNCHANGED bounds

(* The root may be impossible to create or to open.                        *)
AcquireRoot(w) ==
  /\ pc[w] = "lock"
  /\ \/ root = None /\ root' = w /\ Continue(w, "look") /\ NoFault
     \/ UNCHANGED root /\ Raise(w, "rejected") /\ Fault(w)
  /\ UNCHANGED <<source, pkg, json, stage, acked, calls, crashes, edits>>
  /\ UNCHANGED disk

LookFinal(w) ==
  /\ pc[w] = "look"
  /\ \/ Continue(w, IF final[pkg[w]] = NoDir THEN "mkstage" ELSE "replay") /\ NoFault
     \/ Raise(w, "unlock") /\ Fault(w)
  /\ UNCHANGED <<source, pkg, json, stage, root, acked, calls, crashes, edits>>
  /\ UNCHANGED disk

VerifyReplay(w) ==
  /\ pc[w] = "replay"
  /\ \/ /\ Verified(w, final[pkg[w]])
        /\ acked' = [acked EXCEPT ![pkg[w]] = @ \cup {final[pkg[w]]}]
        /\ Continue(w, "unlock") /\ NoFault
     \/ ~Verified(w, final[pkg[w]]) /\ Raise(w, "unlock") /\ UNCHANGED acked /\ NoFault
     \/ Raise(w, "unlock") /\ UNCHANGED acked /\ Fault(w)
  /\ UNCHANGED <<source, pkg, json, stage, root, calls, crashes, edits>>
  /\ UNCHANGED disk

MkdirStage(w) ==
  /\ pc[w] = "mkstage"
  /\ \/ stage' = [stage EXCEPT ![w] = EmptyDir] /\ Continue(w, "copy") /\ NoFault
     \/ UNCHANGED stage /\ Raise(w, "unlock") /\ Fault(w)
  /\ UNCHANGED <<source, pkg, json, root, acked, calls, crashes, edits>>
  /\ UNCHANGED disk

(* The source is opened again, long after it was validated or hashed.      *)
CopyMember(w, m) ==
  /\ pc[w] = "copy"
  /\ NextMember(m, stage[w])
  /\ \/ /\ source[w][m] # Missing
        /\ stage' = [stage EXCEPT ![w][m] = source[w][m]]
        /\ Continue(w, "copy") /\ NoFault
     \/ source[w][m] = Missing /\ Raise(w, "rmtree") /\ UNCHANGED stage /\ NoFault
     \/ Raise(w, "rmtree") /\ UNCHANGED stage /\ Fault(w)
  /\ UNCHANGED <<source, pkg, json, root, acked, calls, crashes, edits>>
  /\ UNCHANGED disk

(* Mutant: an exception of the verification is outside the try block.      *)
VerifyStageOutside(w) ==
  /\ pc[w] = "copy" /\ \A m \in Members : stage[w][m] # Missing
  /\ \/ Verified(w, stage[w]) /\ Continue(w, "rename") /\ NoFault
     \/ ~Verified(w, stage[w]) /\ Raise(w, "unlock") /\ NoFault
     \/ Raise(w, "rmtree") /\ Fault(w)
  /\ UNCHANGED <<source, pkg, json, stage, root, acked, calls, crashes, edits>>
  /\ UNCHANGED disk

VerifyStage(w) ==
  /\ pc[w] = "copy" /\ \A m \in Members : stage[w][m] # Missing
  /\ \/ Verified(w, stage[w]) /\ Continue(w, "rename") /\ NoFault
     \/ ~Verified(w, stage[w]) /\ Raise(w, "rmtree") /\ NoFault
     \/ Raise(w, "rmtree") /\ Fault(w)
  /\ UNCHANGED <<source, pkg, json, stage, root, acked, calls, crashes, edits>>
  /\ UNCHANGED disk

(* rename(2) refuses a destination that is not empty.  An interrupt may    *)
(* arrive after it was applied and still inside the try block.             *)
Rename(w) ==
  /\ pc[w] = "rename"
  /\ \/ /\ final[pkg[w]] \in {NoDir, EmptyDir}
        /\ final' = [final EXCEPT ![pkg[w]] = stage[w]]
        /\ stage' = [stage EXCEPT ![w] = NoDir]
        /\ \/ /\ acked' = [acked EXCEPT ![pkg[w]] = @ \cup {stage[w]}]
              /\ Continue(w, "unlock") /\ NoFault
           \/ UNCHANGED acked /\ Raise(w, "rmtree") /\ Fault(w)
     \/ /\ Raise(w, "rmtree")
        /\ IF final[pkg[w]] \in {NoDir, EmptyDir} THEN Fault(w) ELSE NoFault
        /\ UNCHANGED <<final, stage, acked>>
  /\ UNCHANGED <<source, pkg, json, root, damaged, abandoned, calls, crashes, edits>>

(* Cleanup of this call's staging directory; it may fail in its turn.      *)
RemoveStage(w) ==
  /\ pc[w] = "rmtree"
  /\ \/ stage' = [stage EXCEPT ![w] = NoDir] /\ NoFault
     \/ UNCHANGED stage /\ Fault(w)
  /\ Continue(w, "unlock")
  /\ UNCHANGED <<source, pkg, json, root, acked, calls, crashes, edits>>
  /\ UNCHANGED disk

Return(w) ==
  /\ pc[w] \in {"unlock", "rejected"}
  /\ EndCall(w)
  /\ UNCHANGED <<final, damaged, acked>> /\ UNCHANGED bounds

---------------------------------------------------------------------------------
(* The environment.                                                        *)

(* A killed process runs no exception handler: staging stays.              *)
Crash(w) ==
  /\ pc[w] # "idle"
  /\ crashes < MaxCrashes
  /\ crashes' = crashes + 1
  /\ EndCall(w)
  /\ UNCHANGED <<final, damaged, acked, calls, faults, edits>>

EditSource(w) ==
  /\ pc[w] \in {"hash", "lock", "look", "mkstage", "copy"}
  /\ edits < MaxEdits
  /\ edits' = edits + 1
  /\ \E m \in Members, b \in Bytes \cup {Missing} :
       source' = [source EXCEPT ![w][m] = b]
  /\ clean' = [clean EXCEPT ![w] = FALSE]
  /\ UNCHANGED <<pkg, json, pc, stage, root, acked, failed, calls, faults, crashes>>
  /\ UNCHANGED disk

(* Somebody else, or a power loss before the data reached the disk,        *)
(* changes a published directory.                                          *)
DamageFinal(p) ==
  /\ final[p] # NoDir
  /\ faults < MaxFaults
  /\ faults' = faults + 1
  /\ \E m \in Members, b \in Bytes \cup {Missing} :
       final' = [final EXCEPT ![p][m] = b]
  /\ damaged' = damaged \cup {p}
  /\ UNCHANGED <<source, pkg, json, pc, stage, root, abandoned, acked, failed, clean,
                 calls, crashes, edits>>

Step(w) ==
  \/ HashJson(w) \/ AcquireRoot(w) \/ LookFinal(w) \/ VerifyReplay(w)
  \/ MkdirStage(w) \/ VerifyStage(w) \/ Rename(w) \/ RemoveStage(w) \/ Return(w)
  \/ \E m \in Members : CopyMember(w, m)

Next ==
  \/ \E w \in Writers : Begin(w) \/ Step(w) \/ Crash(w) \/ EditSource(w)
  \/ \E p \in Packages : DamageFinal(p)

Spec == Init /\ [][Next]_vars

(* A started process keeps running unless killed, and flock grants a free  *)
(* root to a writer that waits for it.                                     *)
FairSpec == Spec /\ \A w \in Writers : WF_vars(Step(w))

---------------------------------------------------------------------------------
(* Properties.                                                             *)

(* Replay is the recovery: a call that meets no fault, edit or damage of   *)
(* its own raises only when another rendering of the JSON is in custody,   *)
(* whatever killed or failed calls left in the root.                       *)
CleanCallSucceeds ==
  \A w \in Writers :
    (pc[w] \in {"unlock", "rejected"} /\ failed[w] /\ clean[w] /\ pkg[w] \notin damaged) =>
      final[pkg[w]] # NoDir /\ final[pkg[w]][Json] # source[w][Json]

(* A staging directory outlives its call only if the process was killed or *)
(* a file operation failed: every other way out of the try block cleans.   *)
(* Every variable keeps its type.                                          *)
StagingAccounted == TypeOK /\ abandoned <= faults + crashes

(* Every call ends: nobody waits for ever for the root.                    *)
CallsEnd == \A w \in Writers : pc[w] # "idle" ~> pc[w] = "idle"

Custody == INSTANCE ImmutableCustody WITH
  Packages <- Packages, Members <- Members, Json <- Json, Bytes <- Bytes,
  Bound <- Bound, NoDir <- NoDir, Missing <- Missing,
  final <- final, acked <- acked, damaged <- damaged

(* The local backend implements the custody that the Drive publisher also  *)
(* implements: finals appear whole, stay, and are acknowledged truthfully. *)
ImplementsCustody == Custody!Spec
=================================================================================
