--------------------------- MODULE OutputStorage ----------------------------
(***************************************************************************)
(* Outputs too large to be answered inline, and the sweeper that shares a  *)
(* directory with them.                                                    *)
(*                                                                         *)
(* LocalFileStorageService.SaveAsync creates LocalStoragePath and writes   *)
(* one file into it; the client gets a URL that is to live for             *)
(* SignedUrlTtlMinutes.  JobSweepService deletes every directory below     *)
(* TempBasePath that is older than 15 minutes, every JobSweepInterval.     *)
(* With the shipped settings LocalStoragePath is such a directory.         *)
(*                                                                         *)
(* The file system gives each call its own step: a save and a sweep        *)
(* interleave between them.  Deleting a directory recursively is unlinking *)
(* what is found in it, and then rmdir.  Either may fail, for want of a    *)
(* permission or because a file is held open; rmdir does if a file is left *)
(* or has come in between.  Unlinking a file that is being written does    *)
(* not disturb the writer.  Time is counted in ticks; a sweep takes none.  *)
(***************************************************************************)
EXTENDS Integers, FiniteSets

CONSTANTS
  Saves,              (* calls of SaveAsync, each with its own file        *)
  Orphans,            (* temp directories left behind by something else    *)
  Output,             (* LocalStoragePath                                  *)
  SweepInterval,      (* ApiOptions.JobSweepIntervalMinutes                *)
  OrphanAge,          (* the 15 minutes of SweepOrphanedTempDirs           *)
  SignedUrlTtl        (* StorageOptions.SignedUrlTtlMinutes                *)

ASSUME StorageAssumption ==
  /\ Output \notin Orphans
  /\ {SweepInterval, OrphanAge, SignedUrlTtl} \subseteq Nat \ {0}

VARIABLES
  config,   (* how the server is deployed; never changes                   *)
  age,      (* age[d]: ticks since the timestamp of directory d            *)
  exists,   (* the directories there are                                   *)
  save,     (* save[s]: how far the call has come                          *)
  file,     (* file[s]: what is on disk under its key                      *)
  urlAge,   (* urlAge[s]: ticks since the URL was handed out               *)
  sweeper,  (* what ExecuteAsync is doing                                  *)
  todo,     (* directories of the current sweep it has not looked at       *)
  timer,    (* ticks until Task.Delay ends                                 *)
  resisted  (* history; resisted[d]: ticks since a deletion of the orphan  *)
            (* d has failed                                                *)

vars == <<config, age, exists, save, file, urlAge, sweeper, todo, timer, resisted>>
disk == <<age, exists, file, resisted>>

Directories == Orphans \cup {Output}

(* A bound on the ages the model tells apart; older is as old as that.     *)
MaxAge == OrphanAge + SweepInterval + 1

(* No deletion of it has failed, or so long ago that it does not matter.   *)
LongAgo == SweepInterval + 1

Older(n, bound) == IF n < bound THEN n + 1 ELSE bound

TypeOK ==
  /\ config \in [outputInTemp : BOOLEAN, timestamp : {"birth", "change"}]
  /\ age \in [Directories -> 0..MaxAge]
  /\ exists \subseteq Directories
  /\ save \in [Saves -> {"new", "dirReady", "writing", "returned",
                     "failed", "cancelled"}]
  /\ file \in [Saves -> {"none", "partial", "complete", "deleted"}]
  /\ urlAge \in [Saves -> 0..SignedUrlTtl]
  /\ sweeper \in {<<"delay">>, <<"looking">>} \cup ({"unlink", "rmdir"} \X Directories)
  /\ todo \subseteq Directories
  /\ sweeper = <<"delay">> => todo = {}
  /\ timer \in 0..SweepInterval
  /\ resisted \in [Orphans -> 0..LongAgo]

(* The directories GetDirectories(TempBasePath) lists.                     *)
Listed == IF config.outputInTemp THEN exists ELSE exists \ {Output}

-----------------------------------------------------------------------------
(* Whether outputs are stored below TempBasePath is a setting; whether     *)
(* GetCreationTimeUtc is the birth of a directory or its last change       *)
(* depends on what the file system records.                                *)
Init ==
  /\ config \in [outputInTemp : BOOLEAN, timestamp : {"birth", "change"}]
  /\ age = [d \in Directories |-> 0]
  /\ exists = {}
  /\ save = [s \in Saves |-> "new"]
  /\ file = [s \in Saves |-> "none"]
  /\ urlAge = [s \in Saves |-> 0]
  /\ sweeper = <<"delay">>
  /\ todo = {}
  /\ timer = SweepInterval
  /\ resisted = [d \in Orphans |-> LongAgo]

(* Directory.CreateDirectory: does nothing if the directory is there.      *)
CreateDirectory(s) ==
  /\ save[s] = "new"
  /\ save' = [save EXCEPT ![s] = "dirReady"]
  /\ exists' = exists \cup {Output}
  /\ age' = IF Output \in exists THEN age ELSE [age EXCEPT ![Output] = 0]
  /\ UNCHANGED <<config, file, urlAge, sweeper, todo, timer, resisted>>

(* File.WriteAllBytesAsync opens the file, which needs the directory.      *)
OpenFile(s) ==
  /\ save[s] = "dirReady"
  /\ IF Output \in exists
     THEN /\ save' = [save EXCEPT ![s] = "writing"]
          /\ file' = [file EXCEPT ![s] = "partial"]
          /\ age' = IF config.timestamp = "change"
                    THEN [age EXCEPT ![Output] = 0] ELSE age
     ELSE /\ save' = [save EXCEPT ![s] = "failed"]
          /\ UNCHANGED <<file, age>>
  /\ UNCHANGED <<config, exists, urlAge, sweeper, todo, timer, resisted>>

(* The last byte is written, and GetSignedUrlAsync makes a URL of the key. *)
FinishWrite(s) ==
  /\ save[s] = "writing"
  /\ save' = [save EXCEPT ![s] = "returned"]
  /\ file' = [file EXCEPT ![s] = IF @ = "partial" THEN "complete" ELSE @]
  /\ UNCHANGED <<config, age, exists, urlAge, sweeper, todo, timer, resisted>>

(* Mutant: the cancelled write is taken for a finished one.                *)
CancelIgnored(s) ==
  /\ save[s] = "writing"
  /\ save' = [save EXCEPT ![s] = "returned"]
  /\ UNCHANGED <<config, disk, urlAge, sweeper, todo, timer>>

(* The request is aborted in the middle: nothing removes what was written. *)
CancelWrite(s) ==
  /\ save[s] = "writing"
  /\ save' = [save EXCEPT ![s] = "cancelled"]
  /\ UNCHANGED <<config, disk, urlAge, sweeper, todo, timer>>

(* Outside this code: a temp directory is left below TempBasePath.         *)
LeaveOrphan(d) ==
  /\ d \in Orphans \ exists
  /\ exists' = exists \cup {d}
  /\ age' = [age EXCEPT ![d] = 0]
  /\ resisted' = [resisted EXCEPT ![d] = LongAgo]
  /\ UNCHANGED <<config, save, file, urlAge, sweeper, todo, timer>>

-----------------------------------------------------------------------------
(* Task.Delay ends: the directories there are now will be looked at.       *)
BeginSweep ==
  /\ sweeper = <<"delay">> /\ timer = 0
  /\ sweeper' = <<"looking">>
  /\ todo' = Listed
  /\ UNCHANGED <<config, disk, save, urlAge, timer>>

(* Mutant: the first directory that is young enough ends the sweep.        *)
LookAndStop(d) ==
  /\ sweeper = <<"looking">> /\ d \in todo
  /\ todo' = IF age[d] > OrphanAge THEN todo \ {d} ELSE {}
  /\ sweeper' = IF age[d] > OrphanAge THEN <<"unlink", d>> ELSE <<"looking">>
  /\ UNCHANGED <<config, disk, save, urlAge, timer>>

(* GetCreationTimeUtc(dir) < cutoff.                                       *)
LookAt(d) ==
  /\ sweeper = <<"looking">> /\ d \in todo
  /\ todo' = todo \ {d}
  /\ sweeper' = IF age[d] > OrphanAge THEN <<"unlink", d>> ELSE <<"looking">>
  /\ UNCHANGED <<config, disk, save, urlAge, timer>>

OnDisk == {s \in Saves : file[s] \in {"partial", "complete"}}

(* Any of the files that are found may resist; the others go all the      *)
(* same.  What is in an orphan is not modelled, only that its timestamp    *)
(* may change when something in it is unlinked.                            *)
UnlinkFiles(d) ==
  /\ sweeper = <<"unlink", d>>
  /\ \E gone \in SUBSET (IF d = Output THEN OnDisk ELSE {}) :
       /\ file' = [s \in Saves |-> IF s \in gone THEN "deleted" ELSE file[s]]
       /\ \/ /\ config.timestamp = "change" /\ (d = Output => gone # {})
             /\ age' = [age EXCEPT ![d] = 0]
          \/ /\ config.timestamp = "birth" \/ gone = {}
             /\ UNCHANGED age
  /\ sweeper' = <<"rmdir", d>>
  /\ UNCHANGED <<config, exists, save, urlAge, todo, timer, resisted>>

(* Mutant: the exception of a directory that is not empty ends the loop.   *)
RemoveOrCrash(d) ==
  /\ sweeper = <<"rmdir", d>>
  /\ ~(d = Output /\ OnDisk # {})
  /\ exists' = exists \ {d}
  /\ sweeper' = <<"looking">>
  /\ UNCHANGED <<config, age, file, save, urlAge, todo, timer, resisted>>

(* The directory goes, or it stays, for a file in it or any other reason,  *)
(* and the exception is logged, no more.                                   *)
RemoveDirectory(d) ==
  /\ sweeper = <<"rmdir", d>>
  /\ \/ /\ d = Output => OnDisk = {}
        /\ exists' = exists \ {d}
        /\ resisted' = [e \in Orphans |-> IF e = d THEN LongAgo ELSE resisted[e]]
     \/ /\ UNCHANGED exists
        /\ resisted' = [e \in Orphans |-> IF e = d THEN 0 ELSE resisted[e]]
  /\ sweeper' = <<"looking">>
  /\ UNCHANGED <<config, age, file, save, urlAge, todo, timer>>

(* Mutant: a directory that is kept ends the sweep.                        *)
EndSweepEarly ==
  /\ sweeper = <<"looking">>
  /\ sweeper' = <<"delay">>
  /\ timer' = SweepInterval
  /\ UNCHANGED <<config, disk, save, urlAge, todo>>

EndSweep ==
  /\ sweeper = <<"looking">> /\ todo = {}
  /\ sweeper' = <<"delay">>
  /\ timer' = SweepInterval
  /\ UNCHANGED <<config, disk, save, urlAge, todo>>

Sweep ==
  \/ BeginSweep \/ EndSweep
  \/ \E d \in Directories : LookAt(d) \/ UnlinkFiles(d) \/ RemoveDirectory(d)

Tick ==
  /\ sweeper = <<"delay">> /\ timer > 0
  /\ timer' = timer - 1
  /\ age' = [d \in Directories |-> IF d \in exists THEN Older(age[d], MaxAge) ELSE age[d]]
  /\ resisted' = [d \in Orphans |-> Older(resisted[d], LongAgo)]
  /\ urlAge' = [s \in Saves |->
       IF save[s] = "returned" THEN Older(urlAge[s], SignedUrlTtl) ELSE urlAge[s]]
  /\ UNCHANGED <<config, exists, save, file, sweeper, todo>>

Saving(s) == CreateDirectory(s) \/ OpenFile(s) \/ FinishWrite(s) \/ CancelWrite(s)

Next ==
  \/ \E s \in Saves : Saving(s)
  \/ \E d \in Orphans : LeaveOrphan(d)
  \/ Sweep
  \/ Tick

Spec == Init /\ [][Next]_vars

(* The background service is not suspended for ever and time passes.       *)
Fairness == WF_vars(Sweep) /\ WF_vars(Tick)

FairSpec == Spec /\ Fairness

-----------------------------------------------------------------------------
(* docs/architecture/02-job-model.md: "R2 signed URL, 30-min TTL".  Until  *)
(* its URL expires, an output is on disk, whole, for whoever serves it.    *)
SignedUrlsServed ==
  \A s \in Saves : save[s] = "returned" /\ urlAge[s] < SignedUrlTtl =>
    file[s] = "complete"

(* That much is true of a server whose outputs are kept elsewhere, also of *)
(* one whose requests are aborted in the middle of a write; nor does a     *)
(* save fail there because its directory has vanished.                     *)
StorageElsewhereIsSafe ==
  ~config.outputInTemp =>
    SignedUrlsServed /\ \A s \in Saves : save[s] # "failed"

(* An orphaned temp directory is gone one sweep after it has become too    *)
(* old, or has resisted a deletion in the last sweep: whatever happens to  *)
(* it and to the other directories, each sweep tries again.                *)
OrphansRemovedInTime ==
  \A d \in Orphans \cap exists :
    age[d] > OrphanAge + SweepInterval => resisted[d] =< SweepInterval

(* The service outlives every sweep, also one that could not delete what   *)
(* it wanted to: there is always another.                                  *)
SweepsGoOn == []<>(sweeper = <<"looking">>) /\ []<>(sweeper = <<"delay">>)
=============================================================================
