------------------------ MODULE OutputStorageProofs -------------------------
(***************************************************************************)
(* For any number of saves and orphans, and any interval, age and lifetime *)
(* of the sweeper's: outputs kept away from TempBasePath are safe, and     *)
(* orphans below it are gone in time or have just resisted.                *)
(***************************************************************************)
EXTENDS OutputStorage, TLAPS

(* The sweeper's places are told apart by their first and second element.  *)
LEMMA Places ==
  ASSUME NEW d, NEW e
  PROVE  /\ <<"delay">> # <<"looking">>
         /\ <<"unlink", d>> \notin {<<"delay">>, <<"looking">>}
         /\ <<"rmdir", d>> \notin {<<"delay">>, <<"looking">>}
         /\ <<"unlink", d>> # <<"rmdir", e>>
         /\ <<"unlink", d>> = <<"unlink", e>> => d = e
         /\ <<"rmdir", d>> = <<"rmdir", e>> => d = e
OBVIOUS

LEMMA InitTyped == Init => TypeOK
<1> SUFFICES ASSUME Init
             PROVE  TypeOK
  OBVIOUS
<1>1. MaxAge \in Nat /\ SweepInterval \in Nat /\ SignedUrlTtl \in Nat /\ LongAgo \in Nat
  BY StorageAssumption DEF MaxAge, LongAgo
<1>2. QED
  BY <1>1 DEF Init, TypeOK, Directories

LEMMA OlderIsBounded ==
  ASSUME NEW bound \in Nat, NEW n \in 0..bound
  PROVE  Older(n, bound) \in 0..bound /\ Older(n, bound) =< n + 1
BY DEF Older

LEMMA NextTyped == TypeOK /\ [Next]_vars => TypeOK'
<1> SUFFICES ASSUME TypeOK, [Next]_vars
             PROVE  TypeOK'
  OBVIOUS
<1>a. MaxAge \in Nat /\ SweepInterval \in Nat /\ SignedUrlTtl \in Nat /\ LongAgo \in Nat
  BY StorageAssumption DEF MaxAge, LongAgo
<1>b. Output \in Directories /\ Orphans \subseteq Directories
  BY DEF Directories
<1> HIDE DEF MaxAge, LongAgo
<1>1. ASSUME NEW s \in Saves, CreateDirectory(s)
      PROVE  TypeOK'
  BY <1>1, <1>a, <1>b DEF TypeOK, CreateDirectory
<1>2. ASSUME NEW s \in Saves, OpenFile(s)
      PROVE  TypeOK'
  BY <1>2, <1>a, <1>b DEF TypeOK, OpenFile
<1>3. ASSUME NEW s \in Saves, FinishWrite(s) \/ CancelWrite(s)
      PROVE  TypeOK'
  BY <1>3 DEF TypeOK, FinishWrite, CancelWrite, disk
<1>4. ASSUME NEW d \in Orphans, LeaveOrphan(d)
      PROVE  TypeOK'
  BY <1>4, <1>a, <1>b DEF TypeOK, LeaveOrphan
<1>5. CASE BeginSweep
  BY <1>5, Places DEF TypeOK, BeginSweep, Listed, disk
<1>6. ASSUME NEW d \in Directories, LookAt(d)
      PROVE  TypeOK'
  <2>1. todo' \subseteq Directories
    BY <1>6 DEF TypeOK, LookAt
  <2>2. /\ sweeper' \in {<<"looking">>} \cup ({"unlink", "rmdir"} \X Directories)
        /\ sweeper' # <<"delay">>
    BY <1>6, Places DEF LookAt
  <2>3. QED
    BY <1>6, <2>1, <2>2 DEF TypeOK, LookAt, disk
<1>7. ASSUME NEW d \in Directories, UnlinkFiles(d)
      PROVE  TypeOK'
  <2>1. /\ sweeper' \in {"unlink", "rmdir"} \X Directories
        /\ sweeper' # <<"delay">>
    BY <1>7, Places DEF UnlinkFiles
  <2>2. file' \in [Saves -> {"none", "partial", "complete", "deleted"}]
    BY <1>7 DEF TypeOK, UnlinkFiles
  <2>3. age' \in [Directories -> 0..MaxAge]
    BY <1>7, <1>a DEF TypeOK, UnlinkFiles
  <2>4. QED
    BY <1>7, <2>1, <2>2, <2>3 DEF TypeOK, UnlinkFiles
<1>8. ASSUME NEW d \in Directories, RemoveDirectory(d)
      PROVE  TypeOK'
  <2>1. resisted' \in [Orphans -> 0..LongAgo]
    BY <1>8, <1>a DEF TypeOK, RemoveDirectory
  <2>2. QED
    BY <1>8, <2>1, Places DEF TypeOK, RemoveDirectory
<1>9. CASE EndSweep
  BY <1>9, <1>a DEF TypeOK, EndSweep, disk
<1>10. CASE Tick
  <2>1. \A d \in Directories : Older(age[d], MaxAge) \in 0..MaxAge
    BY <1>a, OlderIsBounded DEF TypeOK
  <2>2. \A s \in Saves : Older(urlAge[s], SignedUrlTtl) \in 0..SignedUrlTtl
    BY <1>a, OlderIsBounded DEF TypeOK
  <2>3. timer' \in 0..SweepInterval
    BY <1>10, <1>a DEF TypeOK, Tick
  <2>4. \A d \in Orphans : Older(resisted[d], LongAgo) \in 0..LongAgo
    BY <1>a, OlderIsBounded DEF TypeOK
  <2>5. QED
    BY <1>10, <2>1, <2>2, <2>3, <2>4 DEF TypeOK, Tick
<1>11. CASE UNCHANGED vars
  BY <1>11 DEF vars, TypeOK
<1>12. QED
  BY <1>1, <1>2, <1>3, <1>4, <1>5, <1>6, <1>7, <1>8, <1>9, <1>10, <1>11
     DEF Next, Saving, Sweep

(* Every save, directory and age of LocalFileStorageService and            *)
(* JobSweepService stays of its type.                                      *)
THEOREM StorageTyped == Spec => []TypeOK
BY InitTyped, NextTyped, PTL DEF Spec

-----------------------------------------------------------------------------
(* Outputs elsewhere: the sweeper never comes near the output directory,   *)
(* so a directory a save has made stays and a file is what was written.    *)
AwayInv ==
  ~config.outputInTemp =>
    /\ Output \notin todo
    /\ sweeper \notin {<<"unlink", Output>>, <<"rmdir", Output>>}
    /\ \A s \in Saves :
         /\ save[s] # "failed"
         /\ save[s] = "dirReady" => Output \in exists
         /\ save[s] = "writing" => file[s] = "partial"
         /\ save[s] = "returned" => file[s] = "complete"

LEMMA InitAway == Init => AwayInv
BY Places DEF Init, AwayInv

LEMMA NextAway == TypeOK /\ AwayInv /\ [Next]_vars => AwayInv'
<1> SUFFICES ASSUME TypeOK, AwayInv, [Next]_vars, ~config'.outputInTemp
             PROVE  AwayInv'
  BY DEF AwayInv
<1>a. config' = config /\ ~config.outputInTemp
  BY DEF Next, Saving, CreateDirectory, OpenFile, FinishWrite, CancelWrite, LeaveOrphan,
         Sweep, BeginSweep, LookAt, UnlinkFiles, RemoveDirectory, EndSweep, Tick, vars
<1>b. Output \notin Orphans
  BY StorageAssumption
<1>1. ASSUME NEW s \in Saves, CreateDirectory(s)
      PROVE  AwayInv'
  BY <1>1, <1>a DEF TypeOK, AwayInv, CreateDirectory
<1>2. ASSUME NEW s \in Saves, OpenFile(s)
      PROVE  AwayInv'
  BY <1>2, <1>a DEF TypeOK, AwayInv, OpenFile
<1>3. ASSUME NEW s \in Saves, FinishWrite(s) \/ CancelWrite(s)
      PROVE  AwayInv'
  BY <1>3, <1>a DEF TypeOK, AwayInv, FinishWrite, CancelWrite, disk
<1>4. ASSUME NEW d \in Orphans, LeaveOrphan(d)
      PROVE  AwayInv'
  BY <1>4, <1>a DEF AwayInv, LeaveOrphan
<1>5. CASE BeginSweep
  BY <1>5, <1>a, Places DEF AwayInv, BeginSweep, Listed, disk
<1>6. ASSUME NEW d \in Directories, LookAt(d)
      PROVE  AwayInv'
  BY <1>6, <1>a, Places DEF AwayInv, LookAt, disk
<1>7. ASSUME NEW d \in Directories, UnlinkFiles(d)
      PROVE  AwayInv'
  <2>1. d # Output
    BY <1>7, <1>a DEF AwayInv, UnlinkFiles
  <2>2. file' = [s \in Saves |-> file[s]] /\ sweeper' \notin {<<"unlink", Output>>, <<"rmdir", Output>>}
    BY <1>7, <2>1, Places, Zenon DEF UnlinkFiles
  <2>3. QED
    BY <1>7, <1>a, <2>2 DEF AwayInv, UnlinkFiles
<1>8. ASSUME NEW d \in Directories, RemoveDirectory(d)
      PROVE  AwayInv'
  <2>1. d # Output
    BY <1>8, <1>a DEF AwayInv, RemoveDirectory
  <2>2. exists \ {d} \subseteq exists' /\ sweeper' \notin {<<"unlink", Output>>, <<"rmdir", Output>>}
    BY <1>8, <2>1, Places DEF RemoveDirectory
  <2>3. QED
    BY <1>8, <1>a, <2>1, <2>2 DEF AwayInv, RemoveDirectory
<1>9. CASE EndSweep
  BY <1>9, <1>a, Places DEF AwayInv, EndSweep, disk
<1>10. CASE Tick
  BY <1>10, <1>a DEF AwayInv, Tick
<1>11. CASE UNCHANGED vars
  BY <1>11, <1>a DEF vars, AwayInv
<1>12. QED
  BY <1>1, <1>2, <1>3, <1>4, <1>5, <1>6, <1>7, <1>8, <1>9, <1>10, <1>11
     DEF Next, Saving, Sweep

(* A server that keeps its outputs away from TempBasePath has each of them *)
(* on disk until its URL expires, and no save fails for want of a          *)
(* directory, however saves and sweeps interleave.                         *)
THEOREM ElsewhereIsSafe == Spec => []StorageElsewhereIsSafe
<1>1. Init => TypeOK /\ AwayInv
  BY InitTyped, InitAway
<1>2. TypeOK /\ AwayInv /\ [Next]_vars => TypeOK' /\ AwayInv'
  BY NextTyped, NextAway
<1>3. AwayInv => StorageElsewhereIsSafe
  BY DEF AwayInv, StorageElsewhereIsSafe, SignedUrlsServed
<1>4. QED
  BY <1>1, <1>2, <1>3, PTL DEF Spec

-----------------------------------------------------------------------------
(* An orphan's age and the rest of the delay together stay within the      *)
(* bound, or else the time since it has resisted does; in a sweep, one     *)
(* that is too old is still to be looked at, is the one being deleted, or  *)
(* has resisted this very sweep.                                           *)
Late(d) == age[d] > OrphanAge + SweepInterval

OrphanInv ==
  \A d \in Orphans \cap exists :
    IF sweeper = <<"delay">>
    THEN \/ age[d] + timer =< OrphanAge + SweepInterval
         \/ resisted[d] + timer =< SweepInterval
    ELSE /\ Late(d) => resisted[d] =< SweepInterval
         /\ d \notin todo /\ sweeper \notin {<<"unlink", d>>, <<"rmdir", d>>}
              => age[d] =< OrphanAge \/ resisted[d] = 0

LEMMA InitOrphans == Init => OrphanInv
BY StorageAssumption DEF Init, OrphanInv

LEMMA NextOrphans == TypeOK /\ OrphanInv /\ [Next]_vars => OrphanInv'
<1> SUFFICES ASSUME TypeOK, OrphanInv, [Next]_vars
             PROVE  OrphanInv'
  OBVIOUS
<1>a. /\ Output \notin Orphans /\ Orphans \subseteq Directories
      /\ OrphanAge \in Nat /\ SweepInterval \in Nat
      /\ MaxAge \in Nat /\ MaxAge = OrphanAge + SweepInterval + 1
      /\ LongAgo \in Nat /\ LongAgo = SweepInterval + 1
  BY StorageAssumption DEF Directories, MaxAge, LongAgo
<1>b. /\ timer \in 0..SweepInterval
      /\ \A d \in Orphans : age[d] \in 0..MaxAge /\ resisted[d] \in 0..LongAgo
  BY <1>a DEF TypeOK
<1> HIDE DEF MaxAge, LongAgo
<1>1. ASSUME NEW s \in Saves, Saving(s)
      PROVE  OrphanInv'
  <2>1. /\ \A d \in Orphans : age'[d] = age[d] /\ (d \in exists' <=> d \in exists)
        /\ UNCHANGED <<sweeper, todo, timer, resisted>>
    BY <1>1, <1>a DEF TypeOK, Saving, CreateDirectory, OpenFile, FinishWrite, CancelWrite, disk
  <2>2. QED
    BY <2>1 DEF OrphanInv, Late
<1>2. ASSUME NEW d \in Orphans, LeaveOrphan(d)
      PROVE  OrphanInv'
  <2>1. age'[d] = 0 /\ \A e \in Orphans \ {d} : age'[e] = age[e] /\ resisted'[e] = resisted[e]
    BY <1>2, <1>a DEF TypeOK, LeaveOrphan
  <2>2. exists' = exists \cup {d} /\ UNCHANGED <<sweeper, todo, timer>>
    BY <1>2 DEF LeaveOrphan
  <2>3. QED
    BY <1>a, <1>b, <2>1, <2>2 DEF OrphanInv, Late
<1>3. CASE BeginSweep
  <2>1. Orphans \cap exists \subseteq todo'
    BY <1>3, <1>a DEF BeginSweep, Listed
  <2>2. \A d \in Orphans \cap exists : Late(d) => resisted[d] =< SweepInterval
    BY <1>3, <1>a, <1>b DEF BeginSweep, OrphanInv, Late
  <2>3. sweeper' # <<"delay">> /\ UNCHANGED <<exists, age, resisted>>
    BY <1>3, Places DEF BeginSweep, disk
  <2>4. QED
    BY <2>1, <2>2, <2>3 DEF OrphanInv, Late
<1>4. ASSUME NEW d \in Directories, LookAt(d)
      PROVE  OrphanInv'
  <2>1. /\ sweeper # <<"delay">> /\ sweeper' # <<"delay">>
        /\ \A e : sweeper \notin {<<"unlink", e>>, <<"rmdir", e>>}
    BY <1>4, Places DEF LookAt
  <2>2. todo' = todo \ {d} /\ (sweeper' = <<"unlink", d>> \/ ~(age[d] > OrphanAge))
    BY <1>4 DEF LookAt
  <2>3. UNCHANGED <<exists, age, resisted>>
    BY <1>4 DEF LookAt, disk
  <2>4. QED
    BY <1>a, <1>b, <2>1, <2>2, <2>3 DEF OrphanInv, Late
<1>5. ASSUME NEW d \in Directories, UnlinkFiles(d)
      PROVE  OrphanInv'
  <2>1. /\ sweeper = <<"unlink", d>> /\ sweeper' = <<"rmdir", d>>
        /\ UNCHANGED <<exists, todo, resisted>>
    BY <1>5 DEF UnlinkFiles
  <2>2. \A e \in Orphans : age'[e] = age[e] \/ age'[e] = 0
    BY <1>5, <1>a DEF UnlinkFiles, TypeOK
  <2>3. QED
    BY <1>a, <1>b, <2>1, <2>2, Places DEF OrphanInv, Late
<1>6. ASSUME NEW d \in Directories, RemoveDirectory(d)
      PROVE  OrphanInv'
  <2>1. /\ sweeper = <<"rmdir", d>> /\ sweeper' = <<"looking">>
        /\ UNCHANGED <<age, todo>>
        /\ \A e \in Orphans \ {d} : resisted'[e] = resisted[e]
        /\ exists' \subseteq exists
    BY <1>6 DEF RemoveDirectory
  <2>2. d \in Orphans \cap exists' => resisted'[d] = 0
    BY <1>6, <1>a DEF RemoveDirectory
  <2>3. QED
    BY <1>a, <1>b, <2>1, <2>2, Places DEF OrphanInv, Late
<1>7. CASE EndSweep
  <2>1. /\ sweeper = <<"looking">> /\ todo = {} /\ timer' = SweepInterval
        /\ sweeper' = <<"delay">> /\ UNCHANGED <<exists, age, resisted>>
    BY <1>7 DEF EndSweep, disk
  <2>2. \A d \in Orphans \cap exists : age[d] =< OrphanAge \/ resisted[d] = 0
    BY <2>1, Places DEF OrphanInv
  <2>3. QED
    BY <1>a, <1>b, <2>1, <2>2 DEF OrphanInv
<1>8. CASE Tick
  <2>1. \A d \in Orphans \cap exists :
          /\ age'[d] =< age[d] + 1 /\ age'[d] \in 0..MaxAge
          /\ resisted'[d] =< resisted[d] + 1 /\ resisted'[d] \in 0..LongAgo
    BY <1>8, <1>a, <1>b, OlderIsBounded DEF Tick
  <2>2. timer' = timer - 1 /\ sweeper = <<"delay">> /\ UNCHANGED <<exists, sweeper>>
    BY <1>8 DEF Tick
  <2>3. QED
    BY <1>a, <1>b, <2>1, <2>2 DEF OrphanInv
<1>9. CASE UNCHANGED vars
  BY <1>9 DEF vars, OrphanInv, Late
<1>10. QED
  BY <1>1, <1>2, <1>3, <1>4, <1>5, <1>6, <1>7, <1>8, <1>9 DEF Next, Sweep

(* SweepOrphanedTempDirs removes an orphan within one interval of its      *)
(* becoming too old, unless Directory.Delete has just failed for it: it is *)
(* tried in every sweep, whatever became of the directories before it.     *)
THEOREM OrphansGoInTime == Spec => []OrphansRemovedInTime
<1>1. Init => TypeOK /\ OrphanInv
  BY InitTyped, InitOrphans
<1>2. TypeOK /\ OrphanInv /\ [Next]_vars => TypeOK' /\ OrphanInv'
  BY NextTyped, NextOrphans
<1>3. TypeOK /\ OrphanInv => OrphansRemovedInTime
  <2> SUFFICES ASSUME TypeOK, OrphanInv, NEW d \in Orphans \cap exists, Late(d)
               PROVE  resisted[d] =< SweepInterval
    BY DEF OrphansRemovedInTime, Late
  <2>1. timer \in 0..SweepInterval /\ age[d] \in 0..MaxAge /\ resisted[d] \in 0..LongAgo
    BY DEF TypeOK, Directories
  <2>2. QED
    BY <2>1, StorageAssumption DEF OrphanInv, Late, MaxAge, LongAgo
<1>4. QED
  BY <1>1, <1>2, <1>3, PTL DEF Spec
=============================================================================
