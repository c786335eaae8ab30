----------------------------- MODULE Filesystem -----------------------------
(***************************************************************************)
(* src/services/filesystem.cc: the directories of the application, which   *)
(* every server process of a user creates when it starts, lists for its    *)
(* plugins, and may delete or rename for its plugins' commands.  Nothing   *)
(* locks them: processes start at the same time, are killed between any    *)
(* two steps and are started again.                                        *)
(***************************************************************************)
EXTENDS Naturals

CONSTANTS
  Process,      \* server processes
  NoProcess     \* not one of them

ASSUME ProcessAssumption == Process # {} /\ NoProcess \notin Process

VARIABLES
  dirs,         \* the directories that exist
  at,           \* at[p]: how far the start of process p has come
  dir,          \* dir[p]: the `path` of its create_dir
  last,         \* history: the process that changed dirs last
  disturbed     \* history: disturbed[p], another one did since p was started

fileVars == <<dirs, at, dir, last, disturbed>>

\* In the order of the calls of create_dir: ezTech, ezTech/ezServer, and in it
\* plugins and data.
Directory == 1..4
Plugins == 3

Parent == [d \in Directory |-> CASE d <= 2 -> d - 1 [] d > 2 -> 2]

HasParent(d) == d = 1 \/ Parent[d] \in dirs

\* d and the directories in it.
Under(d) == {e \in Directory : e = d \/ Parent[e] = d \/ d = 1}

\* "check", "create": create_dir; "list", "iterate": ListDirectory, called by
\* LoadPlugins; "aborted": something was thrown because of what other processes
\* did; "failed": because of the disk.
Steps == {"off", "check", "create", "list", "iterate", "serving", "aborted", "failed"}

FilesTypeOK ==
  /\ dirs \subseteq Directory
  /\ at \in [Process -> Steps]
  /\ dir \in [Process -> Directory]
  /\ last \in Process \cup {NoProcess}
  /\ disturbed \in [Process -> BOOLEAN]

Goes(p, step) == at' = [at EXCEPT ![p] = step]

Keep == UNCHANGED <<dirs, last, disturbed>>

\* Process p makes the directories what they are then.
Change(p, after) ==
  /\ dirs' = after
  /\ last' = p
  /\ disturbed' = [q \in Process |-> q # p \/ disturbed[q]]

FaultyDirectoryDone(p) ==
  /\ Goes(p, IF dir[p] = 2 THEN "list" ELSE "check")
  /\ dir' = [dir EXCEPT ![p] = IF @ = 2 THEN 1 ELSE @ + 1]

\* create_dir returns: the next directory, or Initialize returns.
DirectoryDone(p) ==
  IF dir[p] = 4
  THEN Goes(p, "list") /\ UNCHANGED dir
  ELSE Goes(p, "check") /\ dir' = [dir EXCEPT ![p] = @ + 1]

-----------------------------------------------------------------------------
Launch(p) ==
  /\ at[p] \in {"off", "aborted", "failed"}
  /\ Goes(p, "check")
  /\ dir' = [dir EXCEPT ![p] = 1]
  /\ disturbed' = [disturbed EXCEPT ![p] = FALSE]
  /\ UNCHANGED <<dirs, last>>

\* A process ends or is killed, at any time.
Kill(p) ==
  /\ at[p] # "off"
  /\ Goes(p, "off")
  /\ UNCHANGED dir
  /\ Keep

FaultyCheckDirectory(p) ==
  /\ at[p] = "check"
  /\ Goes(p, "create")
  /\ UNCHANGED dir
  /\ Keep

\* create_dir: exists(path), ...
CheckDirectory(p) ==
  /\ at[p] = "check"
  /\ IF dir[p] \in dirs THEN DirectoryDone(p)
                        ELSE Goes(p, "create") /\ UNCHANGED dir
  /\ Keep

FaultyCreateDirectory(p) ==
  /\ at[p] = "create"
  /\ HasParent(dir[p])
  /\ Goes(p, "check")
  /\ dir' = [dir EXCEPT ![p] = @ + 1]
  /\ Change(p, dirs \cup {dir[p]})

\* ... and create_directory(path), which returns false if it is there by now,
\* and throws if the parent is not.
CreateDirectory(p) ==
  /\ at[p] = "create"
  /\ \/ /\ dir[p] \notin dirs /\ HasParent(dir[p])
        /\ DirectoryDone(p)
        /\ Change(p, dirs \cup {dir[p]})
     \/ /\ dir[p] \in dirs \/ ~HasParent(dir[p])
        /\ Goes(p, "aborted")
        /\ UNCHANGED dir
        /\ Keep

\* The disk is full, the directory not writable, ...
CreationFails(p) ==
  /\ at[p] = "create"
  /\ Goes(p, "failed")
  /\ UNCHANGED dir
  /\ Keep

\* ListDirectory of plugins returns an empty vector if it does not exist, ...
CheckList(p) ==
  /\ at[p] = "list"
  /\ Goes(p, IF Plugins \in dirs THEN "iterate" ELSE "serving")
  /\ UNCHANGED dir
  /\ Keep

\* ... and throws if it does not exist any more; LoadPlugins then fails.
Iterate(p) ==
  /\ at[p] = "iterate"
  /\ Goes(p, IF Plugins \in dirs THEN "serving" ELSE "aborted")
  /\ UNCHANGED dir
  /\ Keep

\* The commands of plugins call the service: remove() deletes a directory that
\* is empty, ...
DeleteFile(p) ==
  /\ at[p] = "serving"
  /\ \E d \in dirs : Under(d) \cap dirs = {d} /\ Change(p, dirs \ {d})
  /\ UNCHANGED <<at, dir>>

\* ... rename() moves one away, in the place of another one, or back.
RenameFile(p) ==
  /\ at[p] = "serving"
  /\ \/ \E d \in dirs : Change(p, dirs \ Under(d))
     \/ \E d \in dirs \cap 3..4 : \E e \in 3..4 \ {d} : Change(p, (dirs \ {d}) \cup {e})
     \/ \E e \in Directory \ dirs : HasParent(e) /\ Change(p, dirs \cup {e})
  /\ UNCHANGED <<at, dir>>

-----------------------------------------------------------------------------
FilesInit ==
  /\ dirs = {}
  /\ at = [p \in Process |-> "off"]
  /\ dir = [p \in Process |-> 1]
  /\ last = NoProcess
  /\ disturbed = [p \in Process |-> FALSE]

ProcessStep(p) ==
  \/ Launch(p) \/ Kill(p) \/ CheckDirectory(p) \/ CreateDirectory(p)
  \/ CreationFails(p) \/ CheckList(p) \/ Iterate(p)
  \/ DeleteFile(p) \/ RenameFile(p)

FilesNext == \E p \in Process : ProcessStep(p)

FilesSpec == FilesInit /\ [][FilesNext]_fileVars

-----------------------------------------------------------------------------
(* Properties. *)

\* Starts that race do abort each other, but never all of them, though
\* processes are killed and started again at any time: the one that changed
\* the directories last is not aborted.
OneGetsThrough == \E p \in Process : at[p] # "aborted"

\* What a killed or aborted start has left never hinders a later one: a start
\* aborts only if another process changed the directories during it, and
\* otherwise it has them all when Initialize returns.
UndisturbedStart ==
  \A p \in Process :
    ~disturbed[p] =>
      /\ at[p] # "aborted"
      /\ at[p] \in {"list", "iterate"} => dirs = Directory

=============================================================================
