---------------------------- MODULE NonceCounter -----------------------------
(***************************************************************************)
(* PersistentNonceCounter::allocate (analysis/nonce_management): callers   *)
(* in several processes draw nonces from one state file.  A call takes an  *)
(* advisory lock, loads the record, writes the successor record to a       *)
(* temporary file, syncs it, renames it over the state file, syncs the     *)
(* directory and only then returns the nonce.                              *)
(*                                                                         *)
(* The file system is modelled by what the running system sees at a path   *)
(* and by the set of contents a power loss may leave there.  A call can    *)
(* end at any of its steps, by an I/O exception or by the death of its     *)
(* process; power can fail at any moment.                                  *)
(***************************************************************************)
EXTENDS Naturals, Sequences, FiniteSets

CONSTANTS Procs,     \* concurrent callers: processes, or threads of one
          Scopes,    \* NonceScope128 identifiers the callers pass
          MaxNonce,  \* the largest Nonce192
          Nobody,    \* "no caller holds the lock"
          NoFile,    \* "nothing at this path"
          Torn       \* a file that is empty, short or fails its redundancy

(* CounterState: the decoded 90-byte record. *)
CounterState == [scope : Scopes, next : 0..MaxNonce, exhausted : BOOLEAN]

ASSUME MaxNonceAssumption == MaxNonce \in Nat
ASSUME NobodyAssumption == Nobody \notin Procs
ASSUME FileAssumption == /\ NoFile # Torn
                         /\ NoFile \notin CounterState
                         /\ Torn \notin CounterState

Data     == CounterState \cup {Torn}
Contents == Data \cup {NoFile}

VARIABLES
    pc,         \* pc[p]: the step of allocate that p has completed
    arg,        \* arg[p]: the scope p passed to allocate
    cur,        \* cur[p]: `current`, the record load_state returned to p
    lock,       \* the holder of the flock on <state>.lock
    state,      \* what an open of the state path would read now
    stateDisk,  \* what a power loss may leave at the state path
    tmp,        \* what an open of <state>.tmp would read now
    tmpDisk,    \* data a power loss may leave in the newest temporary inode
    issued,     \* history: what calls returned, in order of return
    lost        \* history: nonces of calls that ended after the replacement

vars == <<pc, arg, cur, lock, state, stateDisk, tmp, tmpDisk, issued, lost>>
files == <<state, stateDisk, tmp, tmpDisk>>
history == <<issued, lost>>

Holding == {"locked", "loaded", "opened", "written", "synced",
            "replaced", "durable"}
Committed == {"replaced", "durable"}
Labels == {"idle", "waiting"} \cup Holding

Initial(s) == [scope |-> s, next |-> 0, exhausted |-> FALSE]

TypeOK ==
    /\ pc \in [Procs -> Labels]
    /\ arg \in [Procs -> Scopes]
    /\ cur \in [Procs -> CounterState]
    /\ lock \in Procs \cup {Nobody}
    /\ state \in Contents
    /\ stateDisk \in SUBSET Contents
    /\ tmp \in Contents
    /\ tmpDisk \in SUBSET Data
    /\ issued \in Seq([scope : Scopes, nonce : 0..MaxNonce])
    /\ lost \in SUBSET (0..MaxNonce)

Init ==
    /\ pc = [p \in Procs |-> "idle"]
    /\ arg \in {[p \in Procs |-> s] : s \in Scopes}
    /\ cur = [p \in Procs |-> Initial(arg[p])]
    /\ lock = Nobody
    /\ state = NoFile
    /\ stateDisk = {NoFile}
    /\ tmp = NoFile
    /\ tmpDisk = {}
    /\ issued = <<>>
    /\ lost = {}

-----------------------------------------------------------------------------
(* load_state: an absent file is the initial record of the caller's scope; *)
(* a record is accepted when it decodes and carries the caller's scope.    *)

MutantReadable(c, s) == c # Torn

Readable(c, s) == c # NoFile => (c # Torn /\ c.scope = s)

Resolve(c, s) == IF c = NoFile THEN Initial(s) ELSE c

(* increment and the saturation that follows it in allocate: at MaxNonce   *)
(* the value stays and the record is marked exhausted.                     *)

MutantWraps(c) ==
    [c EXCEPT !.next = IF c.next = MaxNonce THEN 0 ELSE c.next + 1]
MutantUnbounded(c) == [c EXCEPT !.next = c.next + 1]
MutantSkips(c) ==
    IF c.next + 1 >= MaxNonce THEN [c EXCEPT !.exhausted = TRUE]
                              ELSE [c EXCEPT !.next = c.next + 2]

Updated(c) ==
    [scope     |-> c.scope,
     next      |-> IF c.next = MaxNonce THEN c.next ELSE c.next + 1,
     exhausted |-> c.exhausted \/ c.next = MaxNonce]

-----------------------------------------------------------------------------
(* The steps of one call.                                                  *)

Goto(p, from, to) == pc[p] = from /\ pc' = [pc EXCEPT ![p] = to]

Begin(p, s) ==
    /\ Goto(p, "idle", "waiting")
    /\ arg' = [arg EXCEPT ![p] = s]
    /\ UNCHANGED <<cur, lock, files, history>>

MutantAcquireLock(p) ==
    /\ Goto(p, "waiting", "locked")
    /\ lock' = p
    /\ UNCHANGED <<arg, cur, files, history>>

AcquireLock(p) ==
    /\ Goto(p, "waiting", "locked")
    /\ lock = Nobody
    /\ lock' = p
    /\ UNCHANGED <<arg, cur, files, history>>

LoadState(p) ==
    /\ Goto(p, "locked", "loaded")
    /\ Readable(state, arg[p])
    /\ ~Resolve(state, arg[p]).exhausted
    /\ cur' = [cur EXCEPT ![p] = Resolve(state, arg[p])]
    /\ UNCHANGED <<arg, lock, files, history>>

(* The exceptions of load_state and of the exhausted test; the descriptor *)
(* that holds the lock is closed by its destructor.                        *)
RejectState(p) ==
    /\ Goto(p, "locked", "idle")
    /\ Readable(state, arg[p]) => Resolve(state, arg[p]).exhausted
    /\ lock' = Nobody
    /\ UNCHANGED <<arg, cur, files, history>>

(* open with O_CREAT | O_TRUNC: the old data of a leftover temporary may   *)
(* survive on disk until the new data is synced.                           *)
OpenTemporary(p) ==
    /\ Goto(p, "loaded", "opened")
    /\ tmp' = Torn
    /\ tmpDisk' = {Torn} \cup (IF tmp = NoFile THEN {} ELSE tmpDisk)
    /\ UNCHANGED <<arg, cur, lock, state, stateDisk, history>>

WriteTemporary(p) ==
    /\ Goto(p, "opened", "written")
    /\ tmp' = Updated(cur[p])
    /\ tmpDisk' = tmpDisk \cup {Updated(cur[p])}
    /\ UNCHANGED <<arg, cur, lock, state, stateDisk, history>>

MutantSyncTemporary(p) ==
    /\ Goto(p, "written", "synced")
    /\ UNCHANGED <<arg, cur, lock, files, history>>

SyncTemporary(p) ==
    /\ Goto(p, "written", "synced")
    /\ tmpDisk' = {tmp}
    /\ UNCHANGED <<arg, cur, lock, state, stateDisk, tmp, history>>

Replace(p) ==
    /\ Goto(p, "synced", "replaced")
    /\ state' = tmp
    /\ tmp' = NoFile
    /\ stateDisk' = stateDisk \cup tmpDisk
    /\ UNCHANGED <<arg, cur, lock, tmpDisk, history>>

MutantSyncDirectory(p) ==
    /\ Goto(p, "replaced", "durable")
    /\ UNCHANGED <<arg, cur, lock, files, history>>

SyncDirectory(p) ==
    /\ Goto(p, "replaced", "durable")
    /\ stateDisk' = tmpDisk
    /\ UNCHANGED <<arg, cur, lock, state, tmp, tmpDisk, history>>

Return(p) ==
    /\ Goto(p, "durable", "idle")
    /\ issued' = Append(issued, [scope |-> arg[p], nonce |-> cur[p].next])
    /\ lock' = Nobody
    /\ UNCHANGED <<arg, cur, files, lost>>

-----------------------------------------------------------------------------
(* Failures.                                                               *)

InFlight(P) == {cur[p].next : p \in {q \in P : pc[q] \in Committed}}

MutantAbort(p) ==
    /\ pc[p] # "idle"
    /\ pc' = [pc EXCEPT ![p] = "idle"]
    /\ lost' = lost \cup InFlight({p})
    /\ UNCHANGED <<arg, cur, lock, files, issued>>

(* A system call fails and allocate throws, or the process dies: the files *)
(* stay as they are and the lock goes with its descriptor.                 *)
Abort(p) ==
    /\ pc[p] # "idle"
    /\ pc' = [pc EXCEPT ![p] = "idle"]
    /\ lock' = IF lock = p THEN Nobody ELSE lock
    /\ lost' = lost \cup InFlight({p})
    /\ UNCHANGED <<arg, cur, files, issued>>

(* Every process is gone; each path holds one of the contents that its     *)
(* unsynced changes allow.                                                 *)
PowerLoss ==
    /\ pc' = [p \in Procs |-> "idle"]
    /\ lock' = Nobody
    /\ \E c \in stateDisk : state' = c /\ stateDisk' = {c}
    /\ \/ tmp' = NoFile /\ tmpDisk' = {}
       \/ tmp # NoFile /\ \E c \in tmpDisk : tmp' = c /\ tmpDisk' = {c}
    /\ lost' = lost \cup InFlight(Procs)
    /\ UNCHANGED <<arg, cur, issued>>

-----------------------------------------------------------------------------
Step(p) == \/ LoadState(p) \/ RejectState(p)
           \/ OpenTemporary(p) \/ WriteTemporary(p) \/ SyncTemporary(p)
           \/ Replace(p) \/ SyncDirectory(p) \/ Return(p)

Next == \/ \E p \in Procs : \/ \E s \in Scopes : Begin(p, s)
                            \/ AcquireLock(p)
                            \/ Step(p)
                            \/ Abort(p)
        \/ PowerLoss

Spec == Init /\ [][Next]_vars

(* A caller that is past flock keeps running its straight-line code.       *)
FairSpec == Spec /\ \A p \in Procs : WF_vars(Step(p))

-----------------------------------------------------------------------------
(* The smallest nonce a call may still draw from contents c.               *)
Floor(c) ==
    IF c = NoFile THEN 0
    ELSE IF c = Torn \/ c.exhausted THEN MaxNonce + 1 ELSE c.next

(* No nonce is returned twice: in the order of return, nonces strictly     *)
(* increase, over all callers, aborted calls and power losses.             *)
NoNonceReuse ==
    \A i, j \in 1..Len(issued) : i < j => issued[i].nonce < issued[j].nonce

(* One state file serves one scope: once allocate has returned a nonce, no *)
(* caller with another scope ever gets one from it.                        *)
ScopeExclusive ==
    \A i, j \in 1..Len(issued) : issued[i].scope = issued[j].scope

(* A nonce is returned only when no power loss can take the counter back   *)
(* to or below it: every content the state path may come back with is past *)
(* every returned nonce.                                                   *)
DurableBeforeReturn ==
    \A i \in 1..Len(issued) : \A c \in stateDisk : issued[i].nonce < Floor(c)

(* The state path never holds, and never comes back with, a record that    *)
(* load_state refuses as truncated or corrupt.                             *)
StateNeverTorn == Torn \notin stateDisk \cup {state}

(* Where a value below a counter went.                                     *)
Accounted(n) == \/ \E i \in 1..Len(issued) : issued[i].nonce = n
                \/ n \in lost
                \/ \E p \in Procs : pc[p] \in Committed /\ cur[p].next = n

(* allocate skips no value silently: each value below the counter was      *)
(* returned, or belongs to a call that failed after the replacement, or to *)
(* one that is about to return it.                                         *)
NoSilentGap ==
    \A n \in 0..MaxNonce :
        n < Floor(state) => Accounted(n)

(* The lock is never held for ever: whoever holds it gives it up, by       *)
(* returning, by an exception on any path, or by dying.                    *)
LockReleased == \A p \in Procs : (lock = p) ~> (lock # p)

-----------------------------------------------------------------------------
(* The parts of the inductive invariant.                                   *)

(* Exactly the holder of the lock is between flock and the end of a call. *)
LockInv == \A p \in Procs : pc[p] \in Holding <=> lock = p

(* Everything a power loss may bring back is readable, of the scope that   *)
(* nonces were returned for, and past all of them.                         *)
DiskInv ==
    /\ state \in stateDisk
    /\ Torn \notin stateDisk
    /\ \A c \in stateDisk : \A i \in 1..Len(issued) :
          /\ issued[i].nonce < Floor(c)
          /\ c # NoFile => issued[i].scope = c.scope

(* What the holder knows once load_state has returned.                     *)
HolderInv ==
    \A p \in Procs : pc[p] \in Holding \ {"locked"} =>
        /\ cur[p].scope = arg[p]
        /\ cur[p].exhausted = FALSE
        /\ \A i \in 1..Len(issued) : /\ issued[i].nonce < cur[p].next
                                      /\ issued[i].scope = arg[p]
        /\ pc[p] \in {"written", "synced"} => tmp = Updated(cur[p])
        /\ pc[p] \in {"synced"} \cup Committed => tmpDisk = {Updated(cur[p])}
        /\ pc[p] \in Committed => state = Updated(cur[p])
        /\ pc[p] = "durable" => stateDisk = {Updated(cur[p])}

(* Every value below a counter that may come back, or below the one the    *)
(* holder has read, is accounted for.                                      *)
GapInv ==
    /\ \A c \in stateDisk : \A n \in 0..MaxNonce : n < Floor(c) => Accounted(n)
    /\ \A p \in Procs : pc[p] \in Holding \ {"locked"} =>
          \A n \in 0..MaxNonce : n < cur[p].next => Accounted(n)

(* The inductive invariant behind every safety property of allocate: lock  *)
(* ownership, what the disk may come back with, what the holder knows, and *)
(* where the values below the counter went, as they are between any two    *)
(* steps of any callers.                                                   *)
CounterInv == /\ TypeOK /\ LockInv /\ DiskInv /\ HolderInv /\ GapInv
              /\ NoNonceReuse /\ ScopeExclusive

Issuer == INSTANCE NonceIssuer WITH
              Scopes <- Scopes, MaxNonce <- MaxNonce, issued <- issued

(* allocate implements the abstract issuer: with files, locks, crashes and *)
(* power losses hidden, callers see one scope and increasing nonces.       *)
IssuerSpec == Issuer!Spec
=============================================================================
