-------------------------- MODULE StoreFilesProofs --------------------------
(***************************************************************************)
(* Proofs about StoreFiles: the state store's file, for any number of      *)
(* writers and changes.                                                    *)
(***************************************************************************)
EXTENDS StoreFiles, TLAPS

(***************************************************************************)
(* The inductive invariant.  One writer at a time is between its snapshot  *)
(* and the rename; what it will write is no older than the file (the file  *)
(* cannot change under its lock) and than its own change (made before the  *)
(* snapshot); the file never has what memory lacks.                        *)
(***************************************************************************)
LockExcludes ==
    \A w, u \in Writers : HoldsWriteLock(w) /\ HoldsWriteLock(u) => w = u

ChangeBeforeSnapshot ==
    \A w \in Writers : /\ call[w].mine <= changes
                       /\ call[w].store = "state" => call[w].mine <= memory["state"]
                       /\ HoldsWriteLock(w) => call[w].mine <= call[w].snap

SnapshotIsCurrent ==
    \A w \in Writers : HoldsWriteLock(w) =>
        file["state"] <= call[w].snap /\ call[w].snap <= memory["state"]

InPlaceIsHealth ==
    \A w \in Writers : /\ call[w].snap <= changes
                       /\ At(w, "truncated") => call[w].store = "health"
                       /\ call[w].loading => call[w].store = "health"

FilesInv ==
    /\ TypeOK /\ LockExcludes /\ ChangeBeforeSnapshot /\ SnapshotIsCurrent
    /\ InPlaceIsHealth
    /\ StateIsSaved /\ file["state"] <= memory["state"]

\* A new process has one call under way, the load of the health store.
LEMMA LoadingCalls ==
  ASSUME NEW w \in Writers, NEW content \in Nat
  PROVE  /\ Loading(w, content) \in [Writers -> Call]
         /\ \A u \in Writers :
               /\ Loading(w, content)[u].pc \in {"idle", "changed"}
               /\ Loading(w, content)[u].store = "health"
               /\ Loading(w, content)[u].mine \in {0, content}
               /\ Loading(w, content)[u].snap = 0
  BY DEF Loading, NoCall, Call, Stores

\* The invariant holds when the first process starts.
LEMMA FilesInitially == Init => FilesInv
  <1> SUFFICES ASSUME Init PROVE FilesInv
    OBVIOUS
  <1>1. PICK w \in Writers : call = Loading(w, 0)
    BY DEF Init
  <1> HIDE DEF Loading
  <1> QED
    BY <1>1, LoadingCalls, FilesAssumption
    DEF Init, FilesInv, TypeOK, LockExcludes, ChangeBeforeSnapshot, SnapshotIsCurrent,
        InPlaceIsHealth, StateIsSaved, HoldsWriteLock, Locked, At, Stores, Empty, Torn

\* Every change, every step of persist and every crash keeps it.
LEMMA FilesPreserved == FilesInv /\ [Next]_vars => FilesInv'
  <1> SUFFICES ASSUME FilesInv, [Next]_vars PROVE FilesInv'
    OBVIOUS
  <1> USE FilesAssumption
  <1> USE DEF FilesInv, TypeOK, LockExcludes, ChangeBeforeSnapshot, SnapshotIsCurrent,
              InPlaceIsHealth, StateIsSaved, HoldsWriteLock, Locked, At, Call, NoCall,
              Stores, Empty, Torn, Moves, Returns
  <1>1. CASE UNCHANGED vars
    BY <1>1 DEF vars
  <1>2. ASSUME NEW w \in Writers, NEW s \in Stores, Change(w, s) PROVE FilesInv'
    <2>1. /\ memory' = [memory EXCEPT ![s] = changes + 1]
          /\ changes' = changes + 1 /\ changes + 1 \in 0..MaxChanges
          /\ file' = file /\ promised' = promised
          /\ call' = [call EXCEPT ![w] = [pc |-> "changed", store |-> s,
                         mine |-> changes + 1, snap |-> 0, loading |-> FALSE]]
          /\ alone' \subseteq Writers
      BY <1>2 DEF Change
    <2>2. TypeOK'
      BY <2>1
    <2>3. /\ \A u \in Writers \ {w} : call'[u] = call[u]
          /\ call'[w].pc = "changed" /\ call'[w].store = s
          /\ call'[w].mine = changes + 1 /\ call'[w].snap = 0 /\ ~call'[w].loading
      BY <2>1
    <2>4. memory["state"] <= memory'["state"] /\ (s = "state" => memory'["state"] = changes + 1)
      BY <2>1
    <2>5. LockExcludes' /\ SnapshotIsCurrent'
      BY <2>1, <2>3, <2>4
    <2>6. ChangeBeforeSnapshot'
      BY <2>1, <2>3, <2>4
    <2>7. InPlaceIsHealth'
      BY <2>1, <2>3
    <2>8. StateIsSaved' /\ file'["state"] <= memory'["state"]
      BY <2>1, <2>4
    <2> QED
      BY ONLY <2>2, <2>5, <2>6, <2>7, <2>8 DEF FilesInv
  <1>3. ASSUME NEW w \in Writers, NoDirectory(w) PROVE FilesInv'
    BY <1>3 DEF NoDirectory
  <1>4. ASSUME NEW w \in Writers, Snapshot(w) PROVE FilesInv'
    <2>1. /\ UNCHANGED <<changes, memory, file, promised, alone>>
          /\ call' = [call EXCEPT ![w] = [call[w] EXCEPT !.pc = "snapped",
                                                   !.snap = memory[call[w].store]]]
          /\ call[w].pc = "changed"
          /\ call[w].store = "state" => \A u \in Writers : ~HoldsWriteLock(u)
      BY <1>4 DEF Snapshot
    <2>2. /\ \A u \in Writers \ {w} : call'[u] = call[u]
          /\ call'[w].pc = "snapped" /\ call'[w].store = call[w].store
          /\ call'[w].mine = call[w].mine /\ call'[w].snap = memory[call[w].store]
          /\ call'[w].loading = call[w].loading
      BY <2>1
    <2>3. TypeOK'
      <3>1. memory[call[w].store] \in Nat
        OBVIOUS
      <3>2. call' \in [Writers -> Call]
        BY <2>1, <3>1
      <3> QED
        BY <2>1, <3>2
    <2>4. LockExcludes' /\ SnapshotIsCurrent'
      BY <2>1, <2>2
    <2>5. ChangeBeforeSnapshot' /\ InPlaceIsHealth'
      BY <2>1, <2>2
    <2>6. StateIsSaved' /\ file'["state"] <= memory'["state"]
      BY <2>1
    <2> QED
      BY ONLY <2>3, <2>4, <2>5, <2>6 DEF FilesInv
  <1>5. ASSUME NEW w \in Writers, WriteFails(w) PROVE FilesInv'
    BY <1>5 DEF WriteFails
  <1>6. ASSUME NEW w \in Writers, Replace(w) PROVE FilesInv'
    <2>1. call[w].store = "state" /\ call[w].pc = "snapped"
      BY <1>6 DEF Replace
    <2>2. /\ memory' = memory /\ changes' = changes
          /\ file' = [file EXCEPT !["state"] = call[w].snap]
          /\ promised' = [promised EXCEPT !["state"] =
                             IF @ < call[w].mine THEN call[w].mine ELSE @]
          /\ call' = [call EXCEPT ![w] = NoCall] /\ alone' = alone \ {w}
      BY <1>6, <2>1 DEF Replace, Promise
    <2>3. TypeOK'
      BY <2>1, <2>2
    <2> QED
      BY <2>1, <2>2, <2>3
  <1>7. ASSUME NEW w \in Writers, Truncate(w) PROVE FilesInv'
    BY <1>7 DEF Truncate
  <1>8. ASSUME NEW w \in Writers, Fill(w) PROVE FilesInv'
    <2>1. call[w].store = "health" /\ call[w].pc = "truncated"
      BY <1>8 DEF Fill
    <2>2. PICK content \in {call[w].snap, Torn} :
              file' = [file EXCEPT !["health"] = content]
      BY <1>8, <2>1 DEF Fill
    <2>3. /\ memory' = memory /\ changes' = changes
          /\ promised' = [promised EXCEPT !["health"] =
                             IF @ < call[w].mine THEN call[w].mine ELSE @]
          /\ call' = [call EXCEPT ![w] = NoCall] /\ alone' = alone \ {w}
      BY <1>8, <2>1 DEF Fill, Promise
    <2>4. content \in {Torn} \cup 0..changes
      BY <2>2
    <2>5. TypeOK'
      BY <2>1, <2>2, <2>3, <2>4
    <2> QED
      BY <2>1, <2>2, <2>3, <2>5
  <1>9. ASSUME NEW w \in Writers, FillFails(w) PROVE FilesInv'
    BY <1>9 DEF FillFails
  <1>10. CASE Crash
    <2>1. PICK w \in Writers : call' = Loading(w, memory'["health"]) /\ alone' = {w}
      BY <1>10 DEF Crash
    <2>2. /\ changes' = changes /\ promised' = promised
          /\ memory' = [s \in Stores |-> Parsed(file'[s])]
          /\ file'["state"] = file["state"] /\ DOMAIN file' = Stores
          /\ file'["health"] \in {file["health"], Torn}
      BY <1>10 DEF Crash
    <2>3. memory' \in [Stores -> 0..changes] /\ memory'["state"] = file["state"]
      BY <2>2 DEF Parsed
    <2>4. memory'["health"] \in Nat
      BY <2>3
    <2>5. /\ call' \in [Writers -> Call]
          /\ \A u \in Writers :
                /\ call'[u].pc \in {"idle", "changed"} /\ call'[u].store = "health"
                /\ call'[u].mine \in {0, memory'["health"]} /\ call'[u].snap = 0
      BY ONLY <2>1, <2>4, LoadingCalls
    <2>6. TypeOK'
      BY <2>1, <2>2, <2>3, <2>5
    <2>7. LockExcludes' /\ SnapshotIsCurrent' /\ InPlaceIsHealth'
      BY <2>2, <2>5
    <2>8. ChangeBeforeSnapshot'
      BY <2>2, <2>3, <2>5
    <2>9. StateIsSaved' /\ file'["state"] <= memory'["state"]
      BY <2>2, <2>3
    <2> QED
      BY ONLY <2>6, <2>7, <2>8, <2>9 DEF FilesInv
  <1> QED
    BY <1>1, <1>2, <1>3, <1>4, <1>5, <1>6, <1>7, <1>8, <1>9, <1>10 DEF Next, Persist

\* The types of StoreFiles, and with them that the state store's file always parses,
\* hold in every behaviour.
THEOREM FilesTyped == Spec => []TypeOK
  <1>1. FilesInv => TypeOK
    BY DEF FilesInv
  <1> QED
    BY <1>1, FilesInitially, FilesPreserved, PTL DEF Spec

\* A change whose record_* call has returned is in the state file for good.
THEOREM ReturnedIsSaved == Spec => []StateIsSaved
  <1>1. FilesInv => StateIsSaved
    BY DEF FilesInv
  <1> QED
    BY <1>1, FilesInitially, FilesPreserved, PTL DEF Spec

\* What a step does to the state store is a step of the abstract store, or nothing.
LEMMA StateFileSteps ==
  FilesInv /\ [Next]_vars =>
    [StateFile!Changes \/ StateFile!Saves \/ StateFile!Crashes]_(StateFile!durableVars)
  <1> SUFFICES ASSUME FilesInv, [Next]_vars
               PROVE  [StateFile!Changes \/ StateFile!Saves \/ StateFile!Crashes]_
                         (StateFile!durableVars)
    OBVIOUS
  <1> USE DEF StateFile!Changes, StateFile!Saves, StateFile!Crashes,
              StateFile!durableVars
  <1> DEFINE Still == /\ memory'["state"] = memory["state"]
                      /\ file'["state"] = file["state"]
                      /\ promised'["state"] = promised["state"]
  <1>1. CASE UNCHANGED vars
    BY <1>1 DEF vars
  <1>2. ASSUME NEW w \in Writers, NEW s \in Stores, Change(w, s)
        PROVE  Still \/ StateFile!Changes
    BY <1>2 DEF Change, FilesInv, TypeOK, Stores
  <1>3. ASSUME NEW w \in Writers, NoDirectory(w) \/ Snapshot(w) \/ WriteFails(w)
        PROVE  Still
    BY <1>3 DEF NoDirectory, Snapshot, WriteFails
  <1>4. ASSUME NEW w \in Writers, Replace(w) PROVE StateFile!Saves
    BY <1>4 DEF Replace, Promise, HoldsWriteLock, Locked, FilesInv, TypeOK, Stores,
                SnapshotIsCurrent, ChangeBeforeSnapshot, StateIsSaved, Call
  <1>5. ASSUME NEW w \in Writers, Truncate(w) \/ Fill(w) \/ FillFails(w)
        PROVE  Still
    BY <1>5 DEF Truncate, Fill, FillFails, Promise, At, Locked, FilesInv, TypeOK,
                Stores, InPlaceIsHealth, Call
  <1>6. CASE Crash
    <2>1. file'["state"] = file["state"]
      BY <1>6 DEF Crash, FilesInv, InPlaceIsHealth, TypeOK, Stores
    <2> QED
      BY <1>6, <2>1 DEF Crash, Parsed, FilesInv, TypeOK, Stores
  <1> QED
    BY <1>1, <1>2, <1>3, <1>4, <1>5, <1>6 DEF Next, Persist

\* The state store with its concurrent writers, failures and crashes implements
\* the abstract durable store.
THEOREM StateStoreIsDurable == Spec => StateFileIsDurable
  <1>1. Init => StateFile!DurableInit
    BY DEF Init, StateFile!DurableInit, Stores
  <1> QED
    BY <1>1, FilesInitially, FilesPreserved, StateFileSteps, PTL
    DEF Spec, StateFileIsDurable, StateFile!DurableSpec

(***************************************************************************)
(* A lone write of the health file.  While a call is alone nobody else     *)
(* touches its store: what it has taken is still what memory holds, and    *)
(* the file that it has truncated is still empty, so that no other content *)
(* can mix with its own.                                                   *)
(***************************************************************************)
NobodyElse ==
    \A w \in alone, u \in Writers :
        ~At(w, "idle") /\ (u # w => ~Touches(u, call[w].store))

SnapshotIsFresh ==
    \A w \in alone :
        At(w, "snapped") \/ At(w, "truncated") => call[w].snap = memory[call[w].store]

OwnTruncation ==
    \A w \in alone : At(w, "truncated") => file[call[w].store] = Empty

AloneInv == NobodyElse /\ SnapshotIsFresh /\ OwnTruncation

\* The first process and each that is restarted have one call under way.
LEMMA LoadingIsAlone ==
  ASSUME NEW w \in Writers, NEW content \in Nat
  PROVE  /\ Loading(w, content)[w].pc = "changed"
         /\ \A u \in Writers : u # w => Loading(w, content)[u].pc = "idle"
  BY DEF Loading, NoCall

\* A step of one writer that leaves memory, the file and its store alone.
LEMMA AloneElsewhere ==
  ASSUME FilesInv, AloneInv, NEW w \in Writers, memory' = memory, file' = file,
         NEW c, c.pc \in {"changed", "snapped", "truncated"}, c.store = call[w].store,
         ~At(w, "idle"), Moves(w, c),
         w \in alone => /\ c.pc \in {"snapped", "truncated"} => c.snap = memory[c.store]
                        /\ c.pc = "truncated" => file[c.store] = Empty
  PROVE  AloneInv'
  <1>1. /\ alone' = alone /\ alone \subseteq Writers
        /\ call'[w] = c /\ \A u \in Writers : u # w => call'[u] = call[u]
    BY DEF Moves, FilesInv, TypeOK
  <1>2. NobodyElse'
    BY <1>1 DEF AloneInv, NobodyElse, Touches, At
  <1>3. SnapshotIsFresh'
    BY <1>1 DEF AloneInv, SnapshotIsFresh, At
  <1>4. OwnTruncation'
    BY <1>1 DEF AloneInv, OwnTruncation, At
  <1> QED
    BY <1>2, <1>3, <1>4 DEF AloneInv

\* A writer that returns disturbs only the file of its store, which no lone call uses.
LEMMA AloneAfterReturn ==
  ASSUME FilesInv, AloneInv, NEW w \in Writers, memory' = memory, Returns(w),
         ~At(w, "idle"), \A s \in Stores : s # call[w].store => file'[s] = file[s]
  PROVE  AloneInv'
  <1>1. /\ alone' = alone \ {w} /\ alone \subseteq Writers
        /\ call'[w].pc = "idle" /\ \A u \in Writers : u # w => call'[u] = call[u]
    BY DEF Returns, FilesInv, TypeOK, NoCall
  <1>2. NobodyElse'
    BY <1>1 DEF AloneInv, NobodyElse, Touches, At
  <1>3. SnapshotIsFresh'
    BY <1>1 DEF AloneInv, SnapshotIsFresh, At
  <1>4. ASSUME NEW u \in alone', At(u, "truncated")'
        PROVE  file'[call'[u].store] = Empty
    <2>1. u \in alone /\ u # w /\ call'[u] = call[u] /\ call[u].store \in Stores
      BY <1>1 DEF FilesInv, TypeOK, Call
    <2>2. call[w].store # call[u].store
      BY <2>1 DEF AloneInv, NobodyElse, Touches
    <2> QED
      BY <1>4, <2>1, <2>2 DEF AloneInv, OwnTruncation, At
  <1> QED
    BY <1>2, <1>3, <1>4 DEF AloneInv, OwnTruncation

\* A new change takes from the calls on its store that they are alone.
LEMMA AloneAfterChange ==
  ASSUME FilesInv, AloneInv, NEW w \in Writers, NEW s \in Stores, Change(w, s)
  PROVE  AloneInv'
  <1>1. /\ file' = file /\ call[w].pc = "idle" /\ alone \subseteq Writers
        /\ call'[w].pc = "changed" /\ call'[w].store = s
        /\ \A u \in Writers : u # w => call'[u] = call[u]
        /\ \A t \in Stores : t # s => memory'[t] = memory[t]
        /\ alone' = IF \E u \in Writers : Touches(u, s)
                    THEN {u \in alone : ~Touches(u, s)} ELSE alone \cup {w}
    BY DEF Change, FilesInv, TypeOK, At
  <1>2. w \notin alone
    BY <1>1 DEF AloneInv, NobodyElse, At
  <1>3. ASSUME NEW u \in alone', u # w
        PROVE  /\ u \in alone /\ call'[u] = call[u] /\ call[u].store \in Stores
               /\ call[u].store # s
    <2>1. u \in alone /\ ~Touches(u, s) /\ u \in Writers
      BY <1>1, <1>3
    <2>2. ~At(u, "idle")
      BY <2>1 DEF AloneInv, NobodyElse
    <2> QED
      BY <1>1, <1>3, <2>1, <2>2 DEF Touches, FilesInv, TypeOK, Call
  <1>4. w \in alone' => \A u \in Writers : ~Touches(u, s)
    BY <1>1, <1>2
  <1>5. NobodyElse'
    <2> SUFFICES ASSUME NEW v \in alone', NEW u \in Writers
                 PROVE  ~At(v, "idle")' /\ (u # v => ~Touches(u, call[v].store)')
      BY DEF NobodyElse
    <2>1. v \in Writers
      BY <1>1
    <2>2. CASE v = w
      BY <1>1, <1>4, <2>2 DEF Touches, At
    <2>3. CASE v # w
      BY <1>1, <1>3, <2>1, <2>3 DEF AloneInv, NobodyElse, Touches, At
    <2> QED
      BY <2>2, <2>3
  <1>6. SnapshotIsFresh'
    BY <1>1, <1>3 DEF AloneInv, SnapshotIsFresh, At
  <1>7. OwnTruncation'
    BY <1>1, <1>3 DEF AloneInv, OwnTruncation, At
  <1> QED
    BY <1>5, <1>6, <1>7 DEF AloneInv

\* The strengthening is kept by every step, ...
LEMMA AlonePreserved == FilesInv /\ AloneInv /\ [Next]_vars => AloneInv'
  <1> SUFFICES ASSUME FilesInv, AloneInv, [Next]_vars PROVE AloneInv'
    OBVIOUS
  <1>1. CASE UNCHANGED vars
    BY <1>1 DEF vars, AloneInv, NobodyElse, SnapshotIsFresh, OwnTruncation, Touches, At
  <1>2. ASSUME NEW w \in Writers, NEW s \in Stores, Change(w, s) PROVE AloneInv'
    BY <1>2, AloneAfterChange
  <1>3. ASSUME NEW w \in Writers, NoDirectory(w) \/ WriteFails(w) PROVE AloneInv'
    BY <1>3, AloneAfterReturn DEF NoDirectory, WriteFails, At
  <1>4. ASSUME NEW w \in Writers, Snapshot(w) PROVE AloneInv'
    <2> DEFINE c == [call[w] EXCEPT !.pc = "snapped", !.snap = memory[call[w].store]]
    <2>1. c.pc = "snapped" /\ c.store = call[w].store /\ c.snap = memory[call[w].store]
      BY DEF FilesInv, TypeOK, Call
    <2> HIDE DEF c
    <2>2. Moves(w, c) /\ memory' = memory /\ file' = file /\ ~At(w, "idle")
      BY <1>4 DEF Snapshot, c, At
    <2> QED
      BY <2>1, <2>2, AloneElsewhere
  <1>5. ASSUME NEW w \in Writers, Replace(w) PROVE AloneInv'
    BY <1>5, AloneAfterReturn DEF Replace, HoldsWriteLock, At, FilesInv, TypeOK
  <1>6. ASSUME NEW w \in Writers, Truncate(w) PROVE AloneInv'
    <2> DEFINE c == [call[w] EXCEPT !.pc = "truncated"]
    <2>1. c.pc = "truncated" /\ c.store = call[w].store /\ c.snap = call[w].snap
      BY DEF FilesInv, TypeOK, Call
    <2> HIDE DEF c
    <2>2. /\ memory' = memory /\ alone' = alone /\ alone \subseteq Writers
          /\ call'[w] = c /\ \A u \in Writers : u # w => call'[u] = call[u]
          /\ file' = [file EXCEPT ![call[w].store] = Empty] /\ call[w].pc = "snapped"
      BY <1>6 DEF Truncate, Moves, FilesInv, TypeOK, At, c
    <2>3. \A s \in Stores : file'[s] = file[s] \/ file'[s] = Empty
      BY <2>2 DEF FilesInv, TypeOK
    <2>4. \A u \in Writers : call[u].store \in Stores
      BY DEF FilesInv, TypeOK, Call
    <2>5. file'[call[w].store] = Empty
      BY <2>2, <2>4 DEF FilesInv, TypeOK
    <2>6. NobodyElse'
      BY <2>1, <2>2 DEF AloneInv, NobodyElse, Touches, At
    <2>7. SnapshotIsFresh'
      BY <2>1, <2>2 DEF AloneInv, SnapshotIsFresh, At
    <2>8. OwnTruncation'
      BY <2>1, <2>2, <2>3, <2>4, <2>5 DEF AloneInv, OwnTruncation, At
    <2> QED
      BY <2>6, <2>7, <2>8 DEF AloneInv
  <1>7. ASSUME NEW w \in Writers, Fill(w) PROVE AloneInv'
    BY <1>7, AloneAfterReturn DEF Fill, At, FilesInv, TypeOK
  <1>8. ASSUME NEW w \in Writers, FillFails(w) PROVE AloneInv'
    BY <1>8, AloneAfterReturn DEF FillFails, At, FilesInv, TypeOK
  <1>9. CASE Crash
    <2>1. PICK w \in Writers : call' = Loading(w, memory'["health"]) /\ alone' = {w}
      BY <1>9 DEF Crash
    <2>2. memory'["health"] \in Nat
      BY <1>9 DEF Crash, Parsed, Stores
    <2>3. call'[w].pc = "changed" /\ \A u \in Writers : u # w => call'[u].pc = "idle"
      BY ONLY <2>1, <2>2, LoadingIsAlone
    <2> QED
      BY <2>1, <2>3 DEF AloneInv, NobodyElse, SnapshotIsFresh, OwnTruncation, Touches, At
  <1> QED
    BY <1>1, <1>2, <1>3, <1>4, <1>5, <1>6, <1>7, <1>8, <1>9 DEF Next, Persist

\* ... and holds of the first process.
LEMMA AloneInitially == Init => AloneInv
  <1> SUFFICES ASSUME Init PROVE AloneInv
    OBVIOUS
  <1>1. PICK w \in Writers : call = Loading(w, 0) /\ alone = {w}
    BY DEF Init
  <1>2. call[w].pc = "changed" /\ \A u \in Writers : u # w => call[u].pc = "idle"
    BY <1>1, LoadingIsAlone
  <1> QED
    BY <1>1, <1>2 DEF AloneInv, NobodyElse, SnapshotIsFresh, OwnTruncation, Touches, At

\* A write of health.json that no other call of the store overlaps and that does
\* not fail leaves all of memory in the file, however torn or old the file was.
THEOREM LoneWritesHeal == Spec => LoneWriteHeals
  <1>1. ASSUME FilesInv, AloneInv, NEW w \in Writers, Fill(w), w \in alone
        PROVE  file'[call[w].store] = memory[call[w].store]
    <2>1. /\ file[call[w].store] = Empty /\ call[w].snap = memory[call[w].store]
          /\ call[w].store \in DOMAIN file
      BY <1>1 DEF AloneInv, OwnTruncation, SnapshotIsFresh, Fill, FilesInv, TypeOK, Call
    <2> QED
      BY <1>1, <2>1 DEF Fill
  <1>2. FilesInv /\ AloneInv /\ [Next]_vars
          => [\A w \in Writers : Fill(w) /\ w \in alone
                  => file'[call[w].store] = memory[call[w].store]]_vars
    BY <1>1
  <1>3. Spec => [](FilesInv /\ AloneInv)
    BY FilesInitially, FilesPreserved, AloneInitially, AlonePreserved, PTL DEF Spec
  <1> QED
    BY <1>2, <1>3, PTL DEF Spec, LoneWriteHeals

=============================================================================
