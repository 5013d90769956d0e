--------------------------- MODULE StorageProofs ---------------------------
(***************************************************************************)
(* Proofs about Storage, for any number of processes, threads, saves and   *)
(* crashes, failing disks included.                                        *)
(***************************************************************************)
EXTENDS Storage, TLAPS

\* What a thread in the middle of a save has drawn is its own.
Drawn ==
  \A t \in Threads : pc[t] # "idle" =>
    /\ seq[t] < counter[ProcessOf[t]]
    /\ save[t] \in 1 .. saves /\ save[t] # path /\ save[t] \notin retired
    /\ pc[t] = "rename" => save[t] \in whole

\* Only saves that have begun were ever visible.
Past == path <= saves /\ \A v \in retired : v <= saves

\* Two saves under way share neither a file nor, in one process, a counter.
Apart ==
  \A t, u \in Threads : t # u /\ pc[t] # "idle" /\ pc[u] # "idle" =>
    save[t] # save[u] /\ (ProcessOf[t] = ProcessOf[u] => seq[t] # seq[u])

Inv == TypeOK /\ Drawn /\ Past /\ Apart /\ OwnTemporary /\ NeverHalfWritten

-----------------------------------------------------------------------------
\* TypeOK is not inductive: what is written out in full must be a file.
Saving == \A t \in Threads : pc[t] # "idle" => save[t] # Missing
TypeInv == TypeOK /\ Saving

LEMMA TypeInit == Init => TypeInv
BY StorageAssumption DEF Init, TypeInv, TypeOK, Saving, Files, Missing

LEMMA NameTyped ==
  ASSUME TypeOK, NEW t \in Threads
  PROVE  TmpName(t) \in Names
BY StorageAssumption DEF TypeOK, TmpName, Names, AllowedPids

LEMMA TypeStep ==
  ASSUME TypeOK, Saving, [Next]_vars
  PROVE  TypeOK'
<1> USE StorageAssumption DEF TypeOK, Files, Missing, Goto, Retire
<1>1. ASSUME NEW t \in Threads, SaveBegin(t) PROVE TypeOK'
  <2>1. counter[ProcessOf[t]] \in 0 .. saves /\ saves' \in 0 .. MaxSaves
        BY <1>1 DEF SaveBegin
  <2>2. counter' \in [Processes -> 0 .. saves']
        BY <1>1, <2>1 DEF SaveBegin
  <2>3. /\ seq' \in [Threads -> 0 .. MaxSaves]
        /\ save' \in [Threads -> 0 .. MaxSaves]
        BY <1>1, <2>1 DEF SaveBegin
  <2> QED BY <1>1, <2>1, <2>2, <2>3 DEF SaveBegin, disk
<1>2. ASSUME NEW t \in Threads, Create(t) PROVE TypeOK'
  <2>1. save[t] \in Files \cup {Missing}
        OBVIOUS
  <2>2. tmp' \in [Names -> Files \cup {Missing}]
        BY <1>2, <2>1 DEF Create
  <2>3. pc' \in [Threads -> {"idle", "create", "write", "rename", "cleanup"}]
        BY <1>2 DEF Create
  <2>4. UNCHANGED <<path, whole, retired, pid, counter, save, seq, saves, crashes>>
        BY <1>2 DEF Create
  <2> QED BY <2>2, <2>3, <2>4
<1>3. ASSUME NEW t \in Threads, Write(t) PROVE TypeOK'
  <2>1. save[t] \in Files
        BY <1>3 DEF Write, Saving
  <2> QED BY <1>3, <2>1 DEF Write
<1>4. ASSUME NEW t \in Threads, Rename(t) PROVE TypeOK'
  <2>1. tmp[TmpName(t)] \in Files \cup {Missing}
        BY NameTyped
  <2>2. tmp' \in [Names -> Files \cup {Missing}]
        BY <1>4 DEF Rename
  <2> QED BY <1>4, <2>1, <2>2 DEF Rename
<1>5. ASSUME NEW t \in Threads, Fail(t) PROVE TypeOK'
      BY <1>5 DEF Fail, disk
<1>6. ASSUME NEW t \in Threads, Cleanup(t) PROVE TypeOK'
      BY <1>6 DEF Cleanup
<1>7. ASSUME NEW t \in Threads, Clear(t) PROVE TypeOK'
      BY <1>7 DEF Clear
<1>8. ASSUME NEW p \in Processes, Crash(p) PROVE TypeOK'
  <2>1. counter' \in [Processes -> 0 .. saves] /\ crashes' \in 0 .. MaxCrashes
        BY <1>8 DEF Crash
  <2> QED BY <1>8, <2>1 DEF Crash, disk
<1>9. CASE UNCHANGED vars
      BY <1>9 DEF vars, disk
<1> QED BY <1>1, <1>2, <1>3, <1>4, <1>5, <1>6, <1>7, <1>8, <1>9 DEF Next, Step

LEMMA SavingStep ==
  ASSUME TypeOK, Saving, [Next]_vars
  PROVE  Saving'
<1> USE DEF Saving, TypeOK, Missing, Goto
<1>1. ASSUME NEW t \in Threads, SaveBegin(t) PROVE Saving'
      BY <1>1 DEF SaveBegin
<1>2. ASSUME NEW t \in Threads, Step(t) PROVE Saving'
      BY <1>2 DEF Step, Create, Write, Rename, Fail, Cleanup
<1>3. ASSUME NEW t \in Threads, Clear(t) PROVE Saving'
      BY <1>3 DEF Clear
<1>4. ASSUME NEW p \in Processes, Crash(p) PROVE Saving'
      BY <1>4 DEF Crash
<1>5. CASE UNCHANGED vars
      BY <1>5 DEF vars
<1> QED BY <1>1, <1>2, <1>3, <1>4, <1>5 DEF Next

\* Types and counters hold in every reachable state, whatever the pids.
THEOREM Typed == Spec => []TypeOK
<1>1. TypeInv /\ [Next]_vars => TypeInv'
      BY TypeStep, SavingStep DEF TypeInv
<1> QED BY <1>1, TypeInit, PTL DEF Spec, TypeInv

-----------------------------------------------------------------------------
\* Different pids and one counter per process: no two saves under way have one
\* temporary name.
LEMMA NamesApart ==
  ASSUME PidsUnique, TypeOK, Apart, NEW t \in Threads, NEW u \in Threads,
         t # u, pc[t] # "idle", pc[u] # "idle"
  PROVE  TmpName(t) # TmpName(u)
<1>1. CASE ProcessOf[t] = ProcessOf[u]
      BY <1>1 DEF Apart, TmpName
<1>2. CASE ProcessOf[t] # ProcessOf[u]
      BY <1>2, StorageAssumption DEF TmpName, TypeOK, AllowedPids
<1> QED BY <1>1, <1>2

LEMMA InvInit == Init => Inv
BY TypeInit
   DEF Init, Inv, TypeInv, Drawn, Past, Apart, OwnTemporary, NeverHalfWritten, Missing

\* The file a save puts in place is its own, and written out.
LEMMA RenameOwn ==
  ASSUME Inv, NEW t \in Threads, Rename(t)
  PROVE  /\ path' = save[t] /\ save[t] \in whole /\ save[t] \in Files
         /\ save[t] # path /\ save[t] \notin retired
BY DEF Inv, Rename, OwnTemporary, Drawn, TypeOK, Files

LEMMA InvStep ==
  ASSUME PidsUnique, Inv, [Next]_vars
  PROVE  Inv'
<1> USE StorageAssumption DEF Inv, Goto
<1>0. TypeOK'
  <2>1. Saving
        BY DEF Drawn, Saving, Missing
  <2> QED BY <2>1, TypeStep
<1>1. ASSUME NEW t \in Threads, SaveBegin(t) PROVE Inv'
  <2>1. /\ save' = [save EXCEPT ![t] = saves + 1]
        /\ seq' = [seq EXCEPT ![t] = counter[ProcessOf[t]]]
        /\ counter' = [counter EXCEPT ![ProcessOf[t]] = @ + 1]
        /\ pc' = [pc EXCEPT ![t] = "create"] /\ saves' = saves + 1
        /\ UNCHANGED <<path, tmp, whole, retired, pid>>
        BY <1>1 DEF SaveBegin, disk
  <2>2. /\ saves \in Nat /\ counter \in [Processes -> Nat]
        /\ save \in [Threads -> Nat] /\ seq \in [Threads -> Nat]
        /\ path \in Nat /\ retired \subseteq Nat
        /\ pc \in [Threads -> {"idle", "create", "write", "rename", "cleanup"}]
        BY DEF TypeOK, Files, Missing
  <2>3. Drawn'
        BY <2>1, <2>2 DEF Drawn, Past
  <2>4. Past'
        BY <2>1, <2>2 DEF Past
  <2>5. Apart'
        BY <2>1, <2>2 DEF Apart, Drawn
  <2>6. OwnTemporary'
        BY <2>1, <2>2 DEF OwnTemporary, TmpName
  <2>7. NeverHalfWritten'
        BY <2>1 DEF NeverHalfWritten
  <2> QED BY <1>0, <2>3, <2>4, <2>5, <2>6, <2>7
<1>2. ASSUME NEW t \in Threads, Create(t) PROVE Inv'
  <2>1. /\ Drawn' /\ Past' /\ Apart' /\ NeverHalfWritten'
        BY <1>2 DEF Create, Drawn, Past, Apart, NeverHalfWritten, TypeOK
  <2>2. \A u \in Threads : u # t /\ pc[u] # "idle" => TmpName(u) # TmpName(t)
        BY <1>2, NamesApart DEF Create
  <2>3. OwnTemporary'
        BY <1>2, <2>2, NameTyped DEF Create, OwnTemporary, TmpName, TypeOK
  <2> QED BY <1>0, <2>1, <2>3
<1>3. ASSUME NEW t \in Threads, Write(t) PROVE Inv'
  <2>1. Drawn' /\ Past' /\ Apart' /\ NeverHalfWritten'
        BY <1>3 DEF Write, Drawn, Past, Apart, NeverHalfWritten, TypeOK
  <2>2. OwnTemporary'
        BY <1>3 DEF Write, OwnTemporary, TmpName, TypeOK
  <2> QED BY <1>0, <2>1, <2>2
<1>4. ASSUME NEW t \in Threads, Rename(t) PROVE Inv'
  <2>1. /\ path' = save[t] /\ pc[t] = "rename" /\ pc' = [pc EXCEPT ![t] = "idle"]
        /\ retired' \subseteq retired \cup {path}
        /\ tmp' = [tmp EXCEPT ![TmpName(t)] = Missing]
        /\ UNCHANGED <<whole, pid, counter, save, seq, saves>>
        BY <1>4, RenameOwn DEF Rename, Retire
  <2>2. \A u \in Threads : u # t /\ pc[u] # "idle" => TmpName(u) # TmpName(t)
        BY <2>1, NamesApart
  <2>3. Drawn'
        BY <2>1 DEF Drawn, Apart, TypeOK
  <2>4. Past'
        BY <2>1 DEF Past, Drawn, TypeOK
  <2>5. Apart'
        BY <2>1 DEF Apart, TypeOK
  <2>6. OwnTemporary'
        BY <2>1, <2>2, NameTyped DEF OwnTemporary, TmpName, TypeOK
  <2>7. NeverHalfWritten'
        BY <1>4, <2>1, RenameOwn DEF NeverHalfWritten
  <2> QED BY <1>0, <2>3, <2>4, <2>5, <2>6, <2>7
<1>5. ASSUME NEW t \in Threads, Fail(t) PROVE Inv'
  <2>1. Drawn' /\ Past' /\ Apart' /\ NeverHalfWritten'
        BY <1>5 DEF Fail, disk, Drawn, Past, Apart, NeverHalfWritten, TypeOK
  <2>2. OwnTemporary'
        BY <1>5 DEF Fail, disk, OwnTemporary, TmpName, TypeOK
  <2> QED BY <1>0, <2>1, <2>2
<1>6. ASSUME NEW t \in Threads, Cleanup(t) PROVE Inv'
  <2>1. Drawn' /\ Past' /\ Apart' /\ NeverHalfWritten'
        BY <1>6 DEF Cleanup, Drawn, Past, Apart, NeverHalfWritten, TypeOK
  <2>2. \A u \in Threads : u # t /\ pc[u] # "idle" => TmpName(u) # TmpName(t)
        BY <1>6, NamesApart DEF Cleanup
  <2>3. OwnTemporary'
        BY <1>6, <2>2, NameTyped DEF Cleanup, OwnTemporary, TmpName, TypeOK
  <2> QED BY <1>0, <2>1, <2>3
<1>7. ASSUME NEW t \in Threads, Clear(t) PROVE Inv'
  <2>1. path' = Missing /\ retired' \subseteq retired \cup {path}
        BY <1>7 DEF Clear, Retire
  <2>2. UNCHANGED <<tmp, whole, pid, counter, pc, save, seq, saves>>
        BY <1>7 DEF Clear
  <2>3. Drawn' /\ Past' /\ Apart' /\ NeverHalfWritten'
        BY <2>1, <2>2 DEF Drawn, Past, Apart, NeverHalfWritten, TypeOK, Missing
  <2>4. OwnTemporary'
        BY <2>2 DEF OwnTemporary, TmpName
  <2> QED BY <1>0, <2>3, <2>4
<1>8. ASSUME NEW p \in Processes, Crash(p) PROVE Inv'
  <2>1. /\ pc' = [t \in Threads |-> IF ProcessOf[t] = p THEN "idle" ELSE pc[t]]
        /\ counter' = [counter EXCEPT ![p] = 0]
        /\ \A q \in Processes \ {p} : pid'[q] = pid[q]
        /\ UNCHANGED <<path, tmp, whole, retired, save, seq, saves>>
        BY <1>8 DEF Crash, disk
  <2>2. \A t \in Threads : pc'[t] # "idle" => ProcessOf[t] # p /\ pc'[t] = pc[t]
        BY <2>1
  <2>3. Drawn' /\ Past' /\ Apart' /\ NeverHalfWritten'
        BY <2>1, <2>2 DEF Drawn, Past, Apart, NeverHalfWritten, TypeOK
  <2>4. OwnTemporary'
        BY <2>1, <2>2 DEF OwnTemporary, TmpName
  <2> QED BY <1>0, <2>3, <2>4
<1>9. CASE UNCHANGED vars
      BY <1>0, <1>9 DEF vars, disk, Drawn, Past, Apart, OwnTemporary, TmpName,
         NeverHalfWritten
<1> QED BY <1>1, <1>2, <1>3, <1>4, <1>5, <1>6, <1>7, <1>8, <1>9 DEF Next, Step

LEMMA InvHolds ==
  ASSUME PidsUnique PROVE Spec => []Inv
<1>1. Inv /\ [Next]_vars => Inv'
      BY InvStep
<1> QED BY <1>1, InvInit, PTL DEF Spec

\* As long as live processes have different pids, no save, cleanup or restart
\* disturbs the temporary file of another save.
THEOREM TemporariesAreOwn ==
  ASSUME PidsUnique PROVE Spec => []OwnTemporary
BY InvHolds, PTL DEF Inv

\* Under the same condition readers only ever find files written to the end.
THEOREM WholeFilesOnly ==
  ASSUME PidsUnique PROVE Spec => []NeverHalfWritten
BY InvHolds, PTL DEF Inv

-----------------------------------------------------------------------------
\* A step of the disk is a publication, a removal, a version finished, or
\* nothing a reader sees.
LEMMA ReadersStep ==
  ASSUME Inv, [Next]_vars
  PROVE  [Readers!Next]_Readers!vars
<1> USE DEF Readers!vars
<1>1. ASSUME NEW t \in Threads, Write(t) PROVE Readers!Next
  <2>1. save[t] \in Files
        BY <1>1 DEF Write, Inv, Drawn, TypeOK, Files
  <2> QED BY <1>1, <2>1 DEF Write, Readers!Next, Readers!Finish
<1>2. ASSUME NEW t \in Threads, Rename(t) PROVE Readers!Next
  <2>1. Readers!Publish(save[t]) /\ save[t] \in Files
        BY <1>2, RenameOwn DEF Rename, Retire, Readers!Publish, Readers!Retire
  <2> QED BY <2>1 DEF Readers!Next
<1>3. ASSUME NEW t \in Threads, Clear(t) PROVE Readers!Next
      BY <1>3 DEF Clear, Retire, Readers!Next, Readers!Remove, Readers!Retire
<1>4. ASSUME NEW t \in Threads, SaveBegin(t) \/ Create(t) \/ Fail(t) \/ Cleanup(t)
      PROVE  UNCHANGED Readers!vars
      BY <1>4 DEF SaveBegin, Create, Fail, Cleanup, disk
<1>5. ASSUME NEW p \in Processes, Crash(p) PROVE UNCHANGED Readers!vars
      BY <1>5 DEF Crash, disk
<1>6. CASE UNCHANGED vars
      BY <1>6 DEF vars, disk
<1> QED BY <1>1, <1>2, <1>3, <1>4, <1>5, <1>6 DEF Next, Step

\* The steps of save and clear on the disk implement the cache file that
\* storage.rs promises its readers.
THEOREM ImplementsCacheFile ==
  ASSUME PidsUnique PROVE Spec => ReadersSeeVersions
<1>1. Init => Readers!Init
      BY DEF Init, Readers!Init
<1>2. Inv /\ [Next]_vars => [Readers!Next]_Readers!vars
      BY ReadersStep
<1> QED BY <1>1, <1>2, InvHolds, PTL DEF Spec, ReadersSeeVersions, Readers!Spec
=============================================================================
