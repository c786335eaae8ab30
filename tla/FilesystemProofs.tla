-------------------------- MODULE FilesystemProofs --------------------------
(***************************************************************************)
(* What holds of the start of any number of server processes that share    *)
(* the directories: who changed them last, and who was not disturbed,      *)
(* knows of the directories what its next step relies on.                  *)
(***************************************************************************)
EXTENDS Filesystem, TLAPS

\* The directories are still as the last check of p has found them.
Steady(p) ==
  /\ at[p] # "aborted"
  /\ at[p] \in {"check", "create"} => HasParent(dir[p])
  /\ at[p] = "create" => dir[p] \notin dirs
  /\ at[p] = "iterate" => Plugins \in dirs

\* p has all the directories it has come by.
Made(p) ==
  /\ at[p] \in {"check", "create"} => \A d \in Directory : d < dir[p] => d \in dirs
  /\ at[p] \in {"list", "iterate"} => dirs = Directory

\* The inductive invariant.
FilesInv ==
  /\ FilesTypeOK
  /\ last = NoProcess => \A p \in Process : ~disturbed[p]
  /\ \A p \in Process : p = last \/ ~disturbed[p] => Steady(p)
  /\ \A p \in Process : ~disturbed[p] => Made(p)

LEMMA ParentValues ==
  /\ Parent[2] = 1 /\ Parent[3] = 2 /\ Parent[4] = 2
  /\ Directory = {1, 2, 3, 4}
  BY SMT DEF Parent, Directory

\* Where the directory of p is there, so is the parent of the next one, and p
\* has all the directories up to it.
LEMMA NextHasParent ==
  ASSUME NEW p \in Process, dir[p] \in Directory, dir[p] # 4,
         HasParent(dir[p]), NEW D, dirs \subseteq D, dir[p] \in D
  PROVE  dir[p] + 1 \in Directory /\ Parent[dir[p] + 1] \in D
<1>1. CASE dir[p] = 1 \/ dir[p] = 2
  BY <1>1, ParentValues
<1>2. CASE dir[p] = 3
  BY <1>2, ParentValues DEF HasParent
<1> QED
  BY <1>1, <1>2, ParentValues

LEMMA InitFilesInv == FilesInit => FilesInv
<1> SUFFICES ASSUME FilesInit PROVE FilesInv
  OBVIOUS
<1>1. FilesTypeOK
  BY ParentValues DEF FilesInit, FilesTypeOK, Steps
<1>2. \A p \in Process : Steady(p) /\ Made(p)
  BY DEF FilesInit, Steady, Made
<1> QED
  BY <1>1, <1>2 DEF FilesInit, FilesInv

\* A step of q that leaves the directories alone disturbs nobody: it is enough
\* to look at q.
LEMMA KeepSuffices ==
  ASSUME FilesInv, FilesTypeOK', Keep, NEW q \in Process,
         \A p \in Process \ {q} : at'[p] = at[p] /\ dir'[p] = dir[p],
         q = last \/ ~disturbed[q] => Steady(q)',
         ~disturbed[q] => Made(q)'
  PROVE  FilesInv'
<1>1. \A p \in Process : p = last' \/ ~disturbed'[p] => Steady(p)'
  BY DEF FilesInv, Keep, Steady, HasParent
<1>2. \A p \in Process : ~disturbed'[p] => Made(p)'
  BY DEF FilesInv, Keep, Made
<1> QED
  BY <1>1, <1>2 DEF FilesInv, Keep

\* After a change by q everybody else is disturbed.
LEMMA ChangeSuffices ==
  ASSUME FilesInv, FilesTypeOK', NEW q \in Process, NEW D, Change(q, D),
         Steady(q)', ~disturbed[q] => Made(q)'
  PROVE  FilesInv'
<1>1. last' = q /\ \A p \in Process : disturbed'[p] = (p # q \/ disturbed[p])
  BY DEF Change
<1>2. q # NoProcess
  BY ProcessAssumption
<1> QED
  BY <1>1, <1>2 DEF FilesInv

\* create_dir returns to Initialize, with the directories D.
LEMMA DoneKeeps ==
  ASSUME FilesTypeOK, NEW q \in Process, at[q] \in {"check", "create"},
         DirectoryDone(q), dirs \subseteq dirs', dir[q] \in dirs',
         dirs' \subseteq Directory
  PROVE  /\ at' \in [Process -> Steps] /\ dir' \in [Process -> Directory]
         /\ \A p \in Process \ {q} : at'[p] = at[p] /\ dir'[p] = dir[p]
         /\ HasParent(dir[q]) => Steady(q)'
         /\ HasParent(dir[q]) /\ Made(q) => Made(q)'
<1>0. dir[q] \in Directory /\ at \in [Process -> Steps] /\ dir \in [Process -> Directory]
  BY DEF FilesTypeOK
<1>1. CASE dir[q] = 4
  <2>1. at' = [at EXCEPT ![q] = "list"] /\ dir' = dir
    BY <1>1 DEF DirectoryDone, Goes
  <2>2. at'[q] = "list" /\ \A p \in Process \ {q} : at'[p] = at[p]
    BY <2>1, <1>0
  <2>3. Made(q) => dirs' = Directory
    <3>1. \A d \in Directory : d = 4 \/ d < 4
      BY ParentValues
    <3>2. Made(q) => \A d \in Directory : d < 4 => d \in dirs
      BY <1>1 DEF Made
    <3> QED
      BY <3>1, <3>2, <1>1
  <2> QED
    BY <2>1, <2>2, <2>3, <1>0 DEF Steady, Made, Steps
<1>2. CASE dir[q] # 4
  <2>1. at' = [at EXCEPT ![q] = "check"] /\ dir' = [dir EXCEPT ![q] = @ + 1]
    BY <1>2 DEF DirectoryDone, Goes
  <2>2. at'[q] = "check" /\ dir'[q] = dir[q] + 1
    BY <2>1, <1>0
  <2>3. dir[q] + 1 \in Directory
    BY <1>0, <1>2, ParentValues
  <2>4. \A p \in Process \ {q} : at'[p] = at[p] /\ dir'[p] = dir[p]
    BY <2>1, <1>0
  <2>5. HasParent(dir[q]) => Steady(q)'
    BY <2>2, <1>0, <1>2, NextHasParent DEF Steady, HasParent
  <2>6. Made(q) => Made(q)'
    BY <2>2, <1>0, ParentValues DEF Made
  <2> QED
    BY <2>1, <2>3, <2>4, <2>5, <2>6, <1>0 DEF Steps
<1> QED
  BY <1>1, <1>2

LEMMA StepFilesInv == FilesInv /\ [FilesNext]_fileVars => FilesInv'
<1> SUFFICES ASSUME FilesInv, [FilesNext]_fileVars PROVE FilesInv'
  OBVIOUS
<1> USE DEF Goes
<1>0. /\ dirs \subseteq Directory /\ at \in [Process -> Steps]
      /\ dir \in [Process -> Directory] /\ disturbed \in [Process -> BOOLEAN]
      /\ last \in Process \cup {NoProcess} /\ FilesTypeOK
  BY DEF FilesInv, FilesTypeOK
<1>1. ASSUME NEW q \in Process, Launch(q) PROVE FilesInv'
  <2>1. /\ at' = [at EXCEPT ![q] = "check"] /\ dir' = [dir EXCEPT ![q] = 1]
        /\ disturbed' = [disturbed EXCEPT ![q] = FALSE]
        /\ dirs' = dirs /\ last' = last
    BY <1>1 DEF Launch
  <2>2. FilesTypeOK'
    BY <2>1, <1>0, ParentValues DEF FilesTypeOK, Steps
  <2>3. Steady(q)' /\ Made(q)'
    <3>1. at'[q] = "check" /\ dir'[q] = 1
      BY <2>1, <1>0
    <3> QED
      BY <3>1, ParentValues DEF Steady, Made, HasParent
  <2>4. \A p \in Process \ {q} :
          /\ at'[p] = at[p] /\ dir'[p] = dir[p] /\ disturbed'[p] = disturbed[p]
          /\ Steady(p) => Steady(p)'
          /\ Made(p) => Made(p)'
    BY <2>1, <1>0 DEF Steady, Made, HasParent
  <2> QED
    BY <2>1, <2>2, <2>3, <2>4, <1>0 DEF FilesInv
<1>2. ASSUME NEW q \in Process, Kill(q) PROVE FilesInv'
  <2>1. at' = [at EXCEPT ![q] = "off"] /\ dir' = dir /\ Keep
    BY <1>2 DEF Kill
  <2>2. FilesTypeOK' /\ at'[q] = "off" /\ \A p \in Process \ {q} : at'[p] = at[p]
    BY <2>1, <1>0 DEF FilesTypeOK, Steps, Keep
  <2>3. Steady(q)' /\ Made(q)'
    BY <2>2 DEF Steady, Made
  <2> QED
    BY <2>1, <2>2, <2>3, KeepSuffices
<1>3. ASSUME NEW q \in Process, CheckDirectory(q) PROVE FilesInv'
  <2>1. Keep /\ at[q] = "check" /\ dirs' = dirs
    BY <1>3 DEF CheckDirectory, Keep
  <2>2. CASE dir[q] \in dirs
    <3>1. DirectoryDone(q)
      BY <1>3, <2>2 DEF CheckDirectory
    <3>2. /\ at' \in [Process -> Steps] /\ dir' \in [Process -> Directory]
          /\ \A p \in Process \ {q} : at'[p] = at[p] /\ dir'[p] = dir[p]
          /\ HasParent(dir[q]) => Steady(q)'
          /\ HasParent(dir[q]) /\ Made(q) => Made(q)'
      BY <3>1, <2>1, <2>2, <1>0, DoneKeeps
    <3>3. FilesTypeOK'
      BY <3>2, <2>1, <1>0 DEF FilesTypeOK, Keep
    <3>4. q = last \/ ~disturbed[q] => HasParent(dir[q])
      BY <2>1 DEF FilesInv, Steady
    <3>5. ~disturbed[q] => Made(q)
      BY DEF FilesInv
    <3> QED
      BY <3>2, <3>3, <3>4, <3>5, <2>1, KeepSuffices
  <2>3. CASE dir[q] \notin dirs
    <3>1. at' = [at EXCEPT ![q] = "create"] /\ dir' = dir
      BY <1>3, <2>3 DEF CheckDirectory
    <3>2. FilesTypeOK' /\ at'[q] = "create" /\ \A p \in Process \ {q} : at'[p] = at[p]
      BY <3>1, <2>1, <1>0 DEF FilesTypeOK, Steps, Keep
    <3>3. q = last \/ ~disturbed[q] => Steady(q)'
      BY <3>1, <3>2, <2>1, <2>3 DEF FilesInv, Steady, HasParent
    <3>4. ~disturbed[q] => Made(q)'
      BY <3>1, <3>2, <2>1 DEF FilesInv, Made
    <3> QED
      BY <3>1, <3>2, <3>3, <3>4, <2>1, KeepSuffices
  <2> QED
    BY <2>2, <2>3
<1>4. ASSUME NEW q \in Process, CreateDirectory(q) PROVE FilesInv'
  <2>0. at[q] = "create"
    BY <1>4 DEF CreateDirectory
  <2>1. CASE dir[q] \notin dirs /\ HasParent(dir[q])
    <3>1. DirectoryDone(q) /\ Change(q, dirs \cup {dir[q]})
      BY <1>4, <2>1 DEF CreateDirectory
    <3>2. dirs' = dirs \cup {dir[q]} /\ dir[q] \in Directory
      BY <3>1, <1>0 DEF Change
    <3>3. /\ at' \in [Process -> Steps] /\ dir' \in [Process -> Directory]
          /\ Steady(q)'
          /\ Made(q) => Made(q)'
      BY <3>1, <3>2, <2>0, <2>1, <1>0, DoneKeeps
    <3>4. FilesTypeOK'
      BY <3>1, <3>2, <3>3, <1>0 DEF FilesTypeOK, Change
    <3>5. ~disturbed[q] => Made(q)'
      BY <3>3 DEF FilesInv
    <3> QED
      BY <3>1, <3>3, <3>4, <3>5, ChangeSuffices
  <2>2. CASE dir[q] \in dirs \/ ~HasParent(dir[q])
    <3>1. at' = [at EXCEPT ![q] = "aborted"] /\ dir' = dir /\ Keep
      BY <1>4, <2>2 DEF CreateDirectory
    <3>2. ~(q = last \/ ~disturbed[q])
      BY <2>0, <2>2 DEF FilesInv, Steady
    <3>3. FilesTypeOK' /\ \A p \in Process \ {q} : at'[p] = at[p]
      BY <3>1, <1>0 DEF FilesTypeOK, Steps, Keep
    <3> QED
      BY <3>1, <3>2, <3>3, KeepSuffices
  <2> QED
    BY <2>1, <2>2
<1>5. ASSUME NEW q \in Process, CreationFails(q) PROVE FilesInv'
  <2>1. at' = [at EXCEPT ![q] = "failed"] /\ dir' = dir /\ Keep
    BY <1>5 DEF CreationFails
  <2>2. FilesTypeOK' /\ at'[q] = "failed" /\ \A p \in Process \ {q} : at'[p] = at[p]
    BY <2>1, <1>0 DEF FilesTypeOK, Steps, Keep
  <2>3. Steady(q)' /\ Made(q)'
    BY <2>2 DEF Steady, Made
  <2> QED
    BY <2>1, <2>2, <2>3, KeepSuffices
<1>6. ASSUME NEW q \in Process, CheckList(q) PROVE FilesInv'
  <2>1. /\ at[q] = "list" /\ dir' = dir /\ Keep /\ dirs' = dirs
        /\ at' = [at EXCEPT ![q] = IF Plugins \in dirs THEN "iterate" ELSE "serving"]
    BY <1>6 DEF CheckList, Keep
  <2>2. /\ FilesTypeOK' /\ \A p \in Process \ {q} : at'[p] = at[p]
        /\ at'[q] = IF Plugins \in dirs THEN "iterate" ELSE "serving"
    BY <2>1, <1>0 DEF FilesTypeOK, Steps, Keep
  <2>3. Steady(q)' /\ (~disturbed[q] => Made(q)')
    BY <2>1, <2>2 DEF FilesInv, Steady, Made
  <2> QED
    BY <2>1, <2>2, <2>3, KeepSuffices
<1>7. ASSUME NEW q \in Process, Iterate(q) PROVE FilesInv'
  <2>1. /\ at[q] = "iterate" /\ dir' = dir /\ Keep /\ dirs' = dirs
        /\ at' = [at EXCEPT ![q] = IF Plugins \in dirs THEN "serving" ELSE "aborted"]
    BY <1>7 DEF Iterate, Keep
  <2>2. /\ FilesTypeOK' /\ \A p \in Process \ {q} : at'[p] = at[p]
        /\ at'[q] = IF Plugins \in dirs THEN "serving" ELSE "aborted"
    BY <2>1, <1>0 DEF FilesTypeOK, Steps, Keep
  <2>3. q = last \/ ~disturbed[q] => at'[q] = "serving"
    BY <2>1, <2>2 DEF FilesInv, Steady
  <2>4. q = last \/ ~disturbed[q] => Steady(q)' /\ Made(q)'
    BY <2>3 DEF Steady, Made
  <2> QED
    BY <2>1, <2>2, <2>4, KeepSuffices
<1>8. ASSUME NEW q \in Process, DeleteFile(q) \/ RenameFile(q) PROVE FilesInv'
  <2>1. PICK D \in SUBSET Directory : Change(q, D)
    <3>1. CASE DeleteFile(q)
      <4>1. PICK d \in dirs : Change(q, dirs \ {d})
        BY <3>1 DEF DeleteFile
      <4>2. dirs \ {d} \in SUBSET Directory
        BY <1>0
      <4> QED
        BY <4>1, <4>2
    <3>2. CASE RenameFile(q)
      <4>1. CASE \E d \in dirs : Change(q, dirs \ Under(d))
        <5>1. PICK d \in dirs : Change(q, dirs \ Under(d))
          BY <4>1
        <5>2. dirs \ Under(d) \in SUBSET Directory
          BY <1>0
        <5> QED
          BY <5>1, <5>2
      <4>2. CASE \E d \in dirs, e \in Directory : Change(q, (dirs \ {d}) \cup {e})
        <5>1. PICK d \in dirs, e \in Directory : Change(q, (dirs \ {d}) \cup {e})
          BY <4>2
        <5>2. (dirs \ {d}) \cup {e} \in SUBSET Directory
          BY <1>0
        <5> QED
          BY <5>1, <5>2
      <4>3. CASE \E e \in Directory : Change(q, dirs \cup {e})
        <5>1. PICK e \in Directory : Change(q, dirs \cup {e})
          BY <4>3
        <5>2. dirs \cup {e} \in SUBSET Directory
          BY <1>0
        <5> QED
          BY <5>1, <5>2
      <4>4. 3..4 \subseteq Directory
        BY ParentValues
      <4> QED
        BY <3>2, <4>1, <4>2, <4>3, <4>4 DEF RenameFile
    <3> QED
      BY <1>8, <3>1, <3>2
  <2>2. at[q] = "serving" /\ at' = at /\ dir' = dir
    BY <1>8 DEF DeleteFile, RenameFile
  <2>3. FilesTypeOK'
    BY <2>1, <2>2, <1>0 DEF FilesTypeOK, Change
  <2>4. Steady(q)' /\ Made(q)'
    BY <2>2 DEF Steady, Made
  <2> QED
    BY <2>1, <2>3, <2>4, ChangeSuffices
<1>9. CASE UNCHANGED fileVars
  BY <1>9 DEF fileVars, FilesInv, FilesTypeOK, Steady, Made, HasParent
<1> QED
  BY <1>1, <1>2, <1>3, <1>4, <1>5, <1>6, <1>7, <1>8, <1>9 DEF FilesNext, ProcessStep

\* The inductive invariant holds of any number of processes.
THEOREM FilesInvariant == FilesSpec => []FilesInv
  BY InitFilesInv, StepFilesInv, PTL DEF FilesSpec

\* Directories, steps and histories keep their types.
THEOREM FilesTypeCorrect == FilesSpec => []FilesTypeOK
<1>1. FilesInv => FilesTypeOK
  BY DEF FilesInv
<1> QED
  BY <1>1, FilesInvariant, PTL

\* However many servers start, are killed and start again, the races between
\* them never abort them all: if nobody has changed the directories, nobody was
\* disturbed, and otherwise the process that did so last goes on.
THEOREM NotAllAborted == FilesSpec => []OneGetsThrough
<1>1. FilesInv => OneGetsThrough
  <2> SUFFICES ASSUME FilesInv PROVE OneGetsThrough
    OBVIOUS
  <2>1. CASE last \in Process
    BY <2>1 DEF FilesInv, Steady, OneGetsThrough
  <2>2. CASE last = NoProcess
    BY <2>2, ProcessAssumption DEF FilesInv, Steady, OneGetsThrough
  <2> QED
    BY <2>1, <2>2 DEF FilesInv, FilesTypeOK
<1> QED
  BY <1>1, FilesInvariant, PTL

\* A start that no other process disturbs gets through, whatever earlier ones
\* have left behind, and has every directory when Initialize returns.
THEOREM LeftoversHarmless == FilesSpec => []UndisturbedStart
<1>1. FilesInv => UndisturbedStart
  BY DEF FilesInv, Steady, Made, UndisturbedStart
<1> QED
  BY <1>1, FilesInvariant, PTL

=============================================================================
