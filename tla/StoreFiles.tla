----------------------------- MODULE StoreFiles -----------------------------
(***************************************************************************)
(* The two files of the service and the calls that write them at once:     *)
(* health.json (EndpointHealthStore, proxy.rs) and health.state.json       *)
(* (StateCapabilityStore, capability.rs).  A call changes the entries      *)
(* under their mutex and then persists them: it takes a snapshot and       *)
(* writes it.  The state store does so under write_lock, to a temporary    *)
(* file that it renames; the health store writes the file in place, and    *)
(* nothing keeps two of its writers apart.                                 *)
(*                                                                         *)
(* What the entries say is left out: a content is the number of the last   *)
(* change it holds.                                                        *)
(***************************************************************************)
EXTENDS Integers

CONSTANTS
    Writers,      \* the worker threads that call the stores
    MaxChanges,   \* bound: changes made in a behaviour
    Faults        \* "disk" if file operations may fail, "crash" if the process may

ASSUME FilesAssumption ==
    Writers # {} /\ MaxChanges \in Nat /\ Faults \subseteq {"disk", "crash"}

Stores == {"health", "state"}

Locked(s) == s = "state"   \* written under write_lock and renamed

Empty == -1   \* truncated and not yet written
Torn  == -2   \* cut off, or one content over the rest of another

VARIABLES
    changes,     \* how many changes were made
    memory,      \* the content of a store's entries
    file,        \* the content of its file
    promised,    \* history: the newest change whose call returned after writing
    call,        \* what each writer is doing
    alone        \* history: the writers whose store no other call has touched since

vars == <<changes, memory, file, promised, call, alone>>

Call == [pc : {"idle", "changed", "snapped", "truncated"},
         store : Stores,
         mine : Nat,          \* the change this call made
         snap : Nat,          \* the snapshot it took
         loading : BOOLEAN]   \* it is `load`, before the server starts

NoCall == [pc |-> "idle", store |-> "health", mine |-> 0, snap |-> 0, loading |-> FALSE]

At(w, place) == call[w].pc = place

\* Where the call of w is, once it has got there.
Moves(w, c) == call' = [call EXCEPT ![w] = c] /\ alone' = alone

Returns(w) == call' = [call EXCEPT ![w] = NoCall] /\ alone' = alone \ {w}

Promise(w) ==
    LET s == call[w].store
    IN  promised' = [promised EXCEPT
            ![s] = IF @ < call[w].mine THEN call[w].mine ELSE @]

(***************************************************************************)
(* A new process reads both files, one that does not parse as empty.  The  *)
(* health store drops what is over and persists the rest before anything   *)
(* is served.                                                              *)
(***************************************************************************)
ParsedAnyhow(content) == content   \* faulty variant

ParsedAsEmpty(content) == 0   \* faulty variant: a file of another version is refused

Parsed(content) == IF content \in Nat THEN content ELSE 0

Loading(w, content) ==
    [u \in Writers |->
        IF u = w THEN [NoCall EXCEPT !.pc = "changed", !.mine = content, !.loading = TRUE]
                 ELSE NoCall]

Init ==
    /\ changes = 0
    /\ memory = [s \in Stores |-> 0]
    /\ file = [s \in Stores |-> 0]
    /\ promised = [s \in Stores |-> 0]
    /\ \E w \in Writers : call = Loading(w, 0) /\ alone = {w}

Started == \A w \in Writers : ~call[w].loading

(***************************************************************************)
(* mark_dead, clear and the removal of an entry that is over; update and   *)
(* record_probe_failure of the state store.                                *)
(***************************************************************************)
Touches(w, s) == ~At(w, "idle") /\ call[w].store = s

Change(w, s) ==
    /\ Started /\ At(w, "idle") /\ changes < MaxChanges
    /\ changes' = changes + 1
    /\ memory' = [memory EXCEPT ![s] = changes']
    /\ call' = [call EXCEPT ![w] = [pc |-> "changed", store |-> s, mine |-> changes',
                                    snap |-> 0, loading |-> FALSE]]
    /\ alone' = IF \E u \in Writers : Touches(u, s)
                THEN {u \in alone : ~Touches(u, s)} ELSE alone \cup {w}
    /\ UNCHANGED <<file, promised>>

\* create_dir_all fails: persist returns without writing.
NoDirectory(w) ==
    /\ At(w, "changed") /\ "disk" \in Faults
    /\ Returns(w)
    /\ UNCHANGED <<changes, memory, file, promised>>

\* Between its snapshot and the rename a writer of the state store holds write_lock.
HoldsWriteLock(w) == At(w, "snapped") /\ Locked(call[w].store)

SnapshotUnlocked(w) ==   \* faulty variant
    /\ At(w, "changed")
    /\ Moves(w, [call[w] EXCEPT !.pc = "snapped", !.snap = memory[call[w].store]])
    /\ UNCHANGED <<changes, memory, file, promised>>

Snapshot(w) ==
    /\ At(w, "changed")
    /\ Locked(call[w].store) => \A u \in Writers : ~HoldsWriteLock(u)
    /\ Moves(w, [call[w] EXCEPT !.pc = "snapped", !.snap = memory[call[w].store]])
    /\ UNCHANGED <<changes, memory, file, promised>>

\* Serializing, the temporary file, its rename, or opening the file in place fails.
WriteFails(w) ==
    /\ At(w, "snapped") /\ "disk" \in Faults
    /\ Returns(w)
    /\ UNCHANGED <<changes, memory, file, promised>>

\* The rename of the state store's temporary file.
Replace(w) ==
    /\ HoldsWriteLock(w)
    /\ file' = [file EXCEPT ![call[w].store] = call[w].snap]
    /\ Promise(w)
    /\ Returns(w)
    /\ UNCHANGED <<changes, memory>>

(***************************************************************************)
(* fs::write of the health store: the file is truncated when it is opened  *)
(* and written from its start.  If another writer has filled it meanwhile, *)
(* the longer of the two contents shows below the shorter.                 *)
(***************************************************************************)
OpenOnly(w) ==   \* faulty variant
    /\ At(w, "snapped") /\ ~Locked(call[w].store)
    /\ Moves(w, [call[w] EXCEPT !.pc = "truncated"])
    /\ UNCHANGED <<changes, memory, file, promised>>

Truncate(w) ==
    /\ At(w, "snapped") /\ ~Locked(call[w].store)
    /\ file' = [file EXCEPT ![call[w].store] = Empty]
    /\ Moves(w, [call[w] EXCEPT !.pc = "truncated"])
    /\ UNCHANGED <<changes, memory, promised>>

Fill(w) ==
    /\ At(w, "truncated")
    /\ LET s == call[w].store IN
       \E content \in {call[w].snap} \cup (IF file[s] = Empty THEN {} ELSE {Torn}) :
           file' = [file EXCEPT ![s] = content]
    /\ Promise(w)
    /\ Returns(w)
    /\ UNCHANGED <<changes, memory>>

\* Nothing, or a part of the content, is written.
FillFails(w) ==
    /\ At(w, "truncated") /\ "disk" \in Faults
    /\ file' \in {file, [file EXCEPT ![call[w].store] = Torn]}
    /\ Returns(w)
    /\ UNCHANGED <<changes, memory, promised>>

(***************************************************************************)
(* The process is killed, perhaps in the middle of a write in place, and   *)
(* started again.                                                          *)
(***************************************************************************)
Crash ==
    /\ "crash" \in Faults
    /\ \/ file' = file
       \/ \E w \in Writers : At(w, "truncated")
                             /\ file' = [file EXCEPT ![call[w].store] = Torn]
    /\ memory' = [s \in Stores |-> Parsed(file'[s])]
    /\ \E w \in Writers : call' = Loading(w, memory'["health"]) /\ alone' = {w}
    /\ UNCHANGED <<changes, promised>>

Persist(w) ==
    \/ NoDirectory(w) \/ Snapshot(w) \/ WriteFails(w)
    \/ Replace(w) \/ Truncate(w) \/ Fill(w) \/ FillFails(w)

Next ==
    \/ \E w \in Writers : Persist(w) \/ \E s \in Stores : Change(w, s)
    \/ Crash

Spec == Init /\ [][Next]_vars

-----------------------------------------------------------------------------
(***************************************************************************)
(* Contents are numbers of changes made; only the file that is written in  *)
(* place can fail to parse ("Write-then-rename so concurrent readers never *)
(* see a torn file", capability.rs:432).                                   *)
(***************************************************************************)
TypeOK ==
    /\ changes \in 0..MaxChanges
    /\ memory \in [Stores -> 0..changes]
    /\ file["health"] \in {Empty, Torn} \cup 0..changes
    /\ file["state"] \in 0..changes
    /\ promised \in [Stores -> 0..changes]
    /\ call \in [Writers -> Call]
    /\ alone \subseteq Writers
    /\ DOMAIN file = Stores

\* When a record_* call of the state store has returned and its write did not fail, the
\* file holds its change, whatever other writers did and through any crash.
StateIsSaved == promised["state"] <= file["state"]

\* "The CLI persists hard-dead endpoints for 24 hours" (README.md:127): when no call is
\* under way, every mark_dead or clear that returned is in the health file.
DeathsAreSaved ==
    (\A w \in Writers : At(w, "idle")) => promised["health"] <= file["health"]

\* Writers, failures and crashes of the state store implement an abstract store whose
\* file follows memory, never falls back and holds every change that was promised.
StateFile == INSTANCE DurableStore WITH
    latest <- memory["state"], saved <- file["state"], returned <- promised["state"]

StateFileIsDurable == StateFile!DurableSpec

\* A write of the health store that meets no other call and does not fail leaves the
\* whole of memory in the file, however torn or old the file was.
LoneWriteHeals ==
    [][\A w \in Writers :
          Fill(w) /\ w \in alone
             => file'[call[w].store] = memory[call[w].store]]_vars

=============================================================================
