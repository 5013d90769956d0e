------------------------------ MODULE Storage ------------------------------
(***************************************************************************)
(* The cache file on disk: save and clear of src/src/storage.rs, run by    *)
(* threads of several processes that share the cache path, with crashes.   *)
(*                                                                         *)
(* A save has a number, and so has the file it writes; a directory entry   *)
(* (the cache path or a temporary name) holds a file.  What a file says is *)
(* abstracted to whether it is written out in full: load accepts a whole   *)
(* file and nothing else.  A temporary name is the pid and the process's   *)
(* COUNTER, as in `json.<pid>.<counter>.tmp`.                              *)
(***************************************************************************)
EXTENDS Integers

CONSTANTS
  Processes, Threads,
  ProcessOf,            \* the process of each thread
  Pids,                 \* what std::process::id() may answer
  PidsUnique,           \* whether live processes always have different pids
  DiskFaults,           \* whether a file operation may fail for other reasons
  MaxSaves, MaxCrashes  \* bounds

ASSUME StorageAssumption ==
  /\ ProcessOf \in [Threads -> Processes]
  /\ PidsUnique \in BOOLEAN /\ DiskFaults \in BOOLEAN
  /\ MaxSaves \in Nat /\ MaxCrashes \in Nat

Missing == 0
Files == 1 .. MaxSaves
Names == Pids \X (0 .. MaxSaves)

VARIABLES
  path,       \* the file at the cache path, or Missing
  tmp,        \* the file at each temporary name, or Missing
  whole,      \* the files written out in full
  pid, counter,     \* each process's pid and COUNTER
  pc, save, seq,    \* each thread's place, its save and the counter it drew
  saves, crashes,   \* how many saves began and how many crashes there were
  retired     \* history: files that were at the cache path and left it

disk == <<path, tmp, whole, retired>>
vars == <<disk, pid, counter, pc, save, seq, saves, crashes>>

AllowedPids == {f \in [Processes -> Pids] :
                  PidsUnique => \A p, q \in Processes : p # q => f[p] # f[q]}

Init ==
  /\ path = Missing /\ whole = {} /\ retired = {}
  /\ tmp = [n \in Names |-> Missing]
  /\ pid \in AllowedPids
  /\ counter = [p \in Processes |-> 0]
  /\ pc = [t \in Threads |-> "idle"]
  /\ save = [t \in Threads |-> 0] /\ seq = [t \in Threads |-> 0]
  /\ saves = 0 /\ crashes = 0

Goto(t, l) == pc' = [pc EXCEPT ![t] = l]

\* Definitions named Faulty... are bugs the code could have had (README.md).
FaultyTmpName(t) == <<pid[ProcessOf[t]], 0>>

\* path.with_extension(..), drawn once per save.
TmpName(t) == <<pid[ProcessOf[t]], seq[t]>>

Retire == retired' = IF path = Missing THEN retired ELSE retired \cup {path}

FaultySaveBegin(t) ==
  LET p == ProcessOf[t] IN
  /\ pc[t] = "idle" /\ saves < MaxSaves
  /\ saves' = saves + 1
  /\ save' = [save EXCEPT ![t] = saves + 1]
  /\ seq' = [seq EXCEPT ![t] = counter[p]]
  /\ counter' = [counter EXCEPT ![p] = @ + 2]
  /\ Goto(t, "create")
  /\ UNCHANGED <<disk, pid, crashes>>

\* save draws its temporary name; COUNTER is shared by the process's threads.
SaveBegin(t) ==
  LET p == ProcessOf[t] IN
  /\ pc[t] = "idle" /\ saves < MaxSaves
  /\ saves' = saves + 1
  /\ save' = [save EXCEPT ![t] = saves + 1]
  /\ seq' = [seq EXCEPT ![t] = counter[p]]
  /\ counter' = [counter EXCEPT ![p] = @ + 1]
  /\ Goto(t, "create")
  /\ UNCHANGED <<disk, pid, crashes>>

\* create_new: the name must be free.
Create(t) ==
  /\ pc[t] = "create" /\ tmp[TmpName(t)] = Missing
  /\ tmp' = [tmp EXCEPT ![TmpName(t)] = save[t]]
  /\ Goto(t, "write")
  /\ UNCHANGED <<path, whole, retired, pid, counter, save, seq, saves, crashes>>

FaultyWrite(t) ==
  /\ pc[t] = "write"
  /\ whole' \in {whole, whole \cup {save[t]}}
  /\ Goto(t, "rename")
  /\ UNCHANGED <<path, tmp, retired, pid, counter, save, seq, saves, crashes>>

\* write_all has put the last byte in the file this save opened.
Write(t) ==
  /\ pc[t] = "write"
  /\ whole' = whole \cup {save[t]}
  /\ Goto(t, "rename")
  /\ UNCHANGED <<path, tmp, retired, pid, counter, save, seq, saves, crashes>>

\* rename moves whatever file is at the temporary name into place.
Rename(t) ==
  /\ pc[t] = "rename" /\ tmp[TmpName(t)] # Missing
  /\ path' = tmp[TmpName(t)]
  /\ tmp' = [tmp EXCEPT ![TmpName(t)] = Missing]
  /\ Retire
  /\ Goto(t, "idle")
  /\ UNCHANGED <<whole, pid, counter, save, seq, saves, crashes>>

\* A step of save fails: the name is taken or gone, or the disk refuses.
Fail(t) ==
  /\ \/ pc[t] = "create" /\ tmp[TmpName(t)] # Missing
     \/ pc[t] = "rename" /\ tmp[TmpName(t)] = Missing
     \/ pc[t] \in {"create", "write", "rename"} /\ DiskFaults
  /\ Goto(t, "cleanup")
  /\ UNCHANGED <<disk, pid, counter, save, seq, saves, crashes>>

\* After any failure remove_file(tmp_path), whoever created it.
Cleanup(t) ==
  /\ pc[t] = "cleanup"
  /\ \/ tmp' = [tmp EXCEPT ![TmpName(t)] = Missing]
     \/ DiskFaults /\ UNCHANGED tmp
  /\ Goto(t, "idle")
  /\ UNCHANGED <<path, whole, retired, pid, counter, save, seq, saves, crashes>>

\* clear: the path is unlinked; a missing file is no error.
Clear(t) ==
  /\ pc[t] = "idle"
  /\ path' = Missing
  /\ Retire
  /\ UNCHANGED <<tmp, whole, pid, counter, pc, save, seq, saves, crashes>>

\* A process dies and starts again; what it had on disk stays.
Crash(p) ==
  /\ crashes < MaxCrashes
  /\ crashes' = crashes + 1
  /\ pc' = [t \in Threads |-> IF ProcessOf[t] = p THEN "idle" ELSE pc[t]]
  /\ counter' = [counter EXCEPT ![p] = 0]
  /\ pid' \in {f \in AllowedPids : \A q \in Processes \ {p} : f[q] = pid[q]}
  /\ UNCHANGED <<disk, save, seq, saves>>

Step(t) == Create(t) \/ Write(t) \/ Rename(t) \/ Fail(t) \/ Cleanup(t)

Next == \/ \E t \in Threads : SaveBegin(t) \/ Step(t) \/ Clear(t)
        \/ \E p \in Processes : Crash(p)

Spec == Init /\ [][Next]_vars

-----------------------------------------------------------------------------
(* Properties *)

\* Types, with the counters no further than the saves that drew from them.
TypeOK ==
  /\ path \in Files \cup {Missing}
  /\ tmp \in [Names -> Files \cup {Missing}]
  /\ whole \subseteq Files /\ retired \subseteq Files
  /\ pid \in AllowedPids
  /\ counter \in [Processes -> 0 .. saves]
  /\ pc \in [Threads -> {"idle", "create", "write", "rename", "cleanup"}]
  /\ save \in [Threads -> 0 .. MaxSaves] /\ seq \in [Threads -> 0 .. MaxSaves]
  /\ saves \in 0 .. MaxSaves /\ crashes \in 0 .. MaxCrashes

\* A reader never finds a half-written file, whatever saves overlap and
\* wherever a process dies.
NeverHalfWritten == path # Missing => path \in whole

\* Between creating its temporary file and renaming it, a save finds its own
\* file under that name: no other save, cleanup or restart disturbs it.
OwnTemporary ==
  \A t \in Threads : pc[t] \in {"write", "rename"} => tmp[TmpName(t)] = save[t]

\* Readers see versions change as CacheFile says: whole, and never back to one
\* that was replaced or deleted.
Readers == INSTANCE CacheFile WITH Versions <- Files,
                                  content <- path, complete <- whole
ReadersSeeVersions == Readers!Spec
=============================================================================
