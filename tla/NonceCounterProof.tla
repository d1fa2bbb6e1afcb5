-------------------------- MODULE NonceCounterProof --------------------------
(***************************************************************************)
(* Proofs about NonceCounter, for any number of callers, any scopes and    *)
(* any MaxNonce: the inductive invariant, the safety properties it implies *)
(* and the refinement of NonceIssuer.                                      *)
(***************************************************************************)
EXTENDS NonceCounter, TLAPS

(* The record allocate persists keeps its scope, is readable, and its      *)
(* floor is one past the nonce that is being allocated.                    *)
LEMMA UpdatedFacts ==
    ASSUME NEW c \in CounterState, c.exhausted = FALSE
    PROVE  /\ Updated(c) \in CounterState
           /\ Updated(c) # NoFile /\ Updated(c) # Torn
           /\ Updated(c).scope = c.scope
           /\ Floor(Updated(c)) = c.next + 1
<1>1. c.scope \in Scopes /\ c.next \in 0..MaxNonce
  BY DEF CounterState
<1>2. Updated(c) \in CounterState /\ Updated(c).scope = c.scope
  BY <1>1, MaxNonceAssumption DEF Updated, CounterState
<1>3. Updated(c) # NoFile /\ Updated(c) # Torn
  BY <1>2, FileAssumption
<1>4. Floor(Updated(c)) = c.next + 1
  BY <1>1, <1>3, MaxNonceAssumption DEF Floor, Updated
<1> QED  BY <1>2, <1>3, <1>4

(* What load_state returns for a record it accepts is a record of the      *)
(* caller's scope that draws the floor of the file.                        *)
LEMMA ResolveFacts ==
    ASSUME NEW c \in Contents, NEW s \in Scopes, Readable(c, s),
           Resolve(c, s).exhausted = FALSE
    PROVE  /\ Resolve(c, s) \in CounterState
           /\ Resolve(c, s).scope = s
           /\ Resolve(c, s).next = Floor(c)
<1>1. CASE c = NoFile
  BY <1>1, MaxNonceAssumption DEF Resolve, Initial, CounterState, Floor
<1>2. CASE c # NoFile
  <2>1. c \in CounterState /\ c.scope = s /\ Resolve(c, s) = c
    BY <1>2 DEF Readable, Resolve, Contents, Data
  <2> QED  BY <2>1, <1>2, FileAssumption DEF Floor
<1> QED  BY <1>1, <1>2

(* Floors are natural numbers.                                             *)
LEMMA FloorType == \A c \in Contents : Floor(c) \in 0..(MaxNonce + 1)
  BY MaxNonceAssumption, FileAssumption DEF Floor, CounterState, Contents, Data

(* Membership in InFlight, spelled out for the provers.                    *)
LEMMA InFlightDef ==
    ASSUME NEW P, NEW n
    PROVE  n \in InFlight(P) <=>
               \E p \in P : pc[p] \in Committed /\ cur[p].next = n
  BY DEF InFlight

(* Returned nonces are nonces.                                             *)
LEMMA IssuedType ==
    ASSUME CounterInv
    PROVE  \A i \in 1..Len(issued) : issued[i].nonce \in 0..MaxNonce
<1> DEFINE T == [scope : Scopes, nonce : 0..MaxNonce]
<1>1. issued \in Seq(T)
  BY DEF CounterInv, TypeOK
<1>2. \A i \in 1..Len(issued) : issued[i] \in T
  <2> HIDE DEF T
  <2> QED  BY <1>1
<1>3. \A t \in T : t.nonce \in 0..MaxNonce
  OBVIOUS
<1> QED  BY <1>2, <1>3

(* The invariant holds before the first call: no file, no nonce, no lock. *)
LEMMA InitInv == Init => CounterInv
<1> SUFFICES ASSUME Init PROVE CounterInv
  OBVIOUS
<1>1. PICK s \in Scopes : arg = [p \in Procs |-> s]
  BY DEF Init
<1>2. TypeOK
  BY MaxNonceAssumption DEF Init, TypeOK, Initial, CounterState, Contents,
     Labels
<1>3. LockInv
  BY NobodyAssumption DEF Init, LockInv, Holding
<1>4. DiskInv
  BY FileAssumption DEF Init, DiskInv
<1>5. HolderInv
  BY DEF Init, HolderInv, Holding
<1>6. GapInv
  BY DEF Init, GapInv, Floor, Holding
<1>7. NoNonceReuse /\ ScopeExclusive
  BY DEF Init, NoNonceReuse, ScopeExclusive
<1> QED  BY <1>2, <1>3, <1>4, <1>5, <1>6, <1>7 DEF CounterInv

(* A caller enters allocate with some scope.                               *)
LEMMA BeginInv ==
    ASSUME NEW p \in Procs, NEW s \in Scopes, CounterInv, Begin(p, s)
    PROVE  CounterInv'
<1> USE DEF CounterInv
<1>1. TypeOK'
  BY DEF Begin, Goto, files, history, TypeOK, Labels
<1>2. LockInv'
  BY NobodyAssumption DEF Begin, Goto, files, history, TypeOK, LockInv, Holding
<1>3. DiskInv'
  BY DEF Begin, Goto, files, history, DiskInv
<1>4. HolderInv'
  BY DEF Begin, Goto, files, history, HolderInv, Holding
<1>5. GapInv'
  BY DEF Begin, Goto, files, history, GapInv, Accounted, Holding, Committed
<1>6. NoNonceReuse' /\ ScopeExclusive'
  BY DEF Begin, Goto, history, NoNonceReuse, ScopeExclusive
<1> QED  BY <1>1, <1>2, <1>3, <1>4, <1>5, <1>6

(* flock grants the lock to a waiting caller.                              *)
LEMMA AcquireLockInv ==
    ASSUME NEW p \in Procs, CounterInv, AcquireLock(p)
    PROVE  CounterInv'
<1> USE DEF CounterInv
<1>1. TypeOK'
  BY DEF AcquireLock, Goto, files, history, TypeOK, Labels, Holding
<1>2. LockInv'
  BY NobodyAssumption DEF AcquireLock, Goto, TypeOK, LockInv, Holding
<1>3. DiskInv'
  BY DEF AcquireLock, Goto, files, history, DiskInv
<1>4. HolderInv'
  BY DEF AcquireLock, Goto, files, history, HolderInv
<1>5. GapInv'
  <2>1. ASSUME NEW n, Accounted(n) PROVE Accounted(n)'
    BY <2>1 DEF AcquireLock, Goto, files, history, Accounted, TypeOK, Committed
  <2>2. \A c \in stateDisk' : \A n \in 0..MaxNonce : n < Floor(c) => Accounted(n)'
    BY <2>1 DEF AcquireLock, Goto, files, history, GapInv
  <2>3. \A q \in Procs : pc'[q] \in Holding \ {"locked"} =>
          \A n \in 0..MaxNonce : n < cur'[q].next => Accounted(n)'
    BY <2>1 DEF AcquireLock, Goto, files, history, GapInv, TypeOK, Holding
  <2> QED  BY <2>2, <2>3 DEF GapInv
<1>6. NoNonceReuse' /\ ScopeExclusive'
  BY DEF AcquireLock, Goto, history, NoNonceReuse, ScopeExclusive
<1> QED  BY <1>1, <1>2, <1>3, <1>4, <1>5, <1>6

(* load_state accepts the file: what the disk invariant says of the file   *)
(* becomes what the holder knows.                                          *)
LEMMA LoadStateInv ==
    ASSUME NEW p \in Procs, CounterInv, LoadState(p)
    PROVE  CounterInv'
<1> USE DEF CounterInv
<1>0. /\ Resolve(state, arg[p]) \in CounterState
      /\ Resolve(state, arg[p]).scope = arg[p]
      /\ Resolve(state, arg[p]).exhausted = FALSE
      /\ Resolve(state, arg[p]).next = Floor(state)
      /\ state # NoFile => state.scope = arg[p]
  <2>1. Resolve(state, arg[p]).exhausted \in BOOLEAN
    BY DEF LoadState, Resolve, Initial, Readable, TypeOK, Contents, Data,
       CounterState
  <2>2. Resolve(state, arg[p]).exhausted = FALSE
    BY <2>1 DEF LoadState
  <2> QED  BY <2>2, ResolveFacts DEF LoadState, Readable, TypeOK
<1>1. TypeOK'
  BY <1>0 DEF LoadState, Goto, files, history, TypeOK, Labels, Holding
<1>2. LockInv'
  BY NobodyAssumption DEF LoadState, Goto, files, history, TypeOK, LockInv, Holding
<1>3. DiskInv'
  BY DEF LoadState, Goto, files, history, DiskInv
<1>4. HolderInv'
  <2>1. \A q \in Procs : q # p => pc'[q] \notin Holding
    BY DEF LoadState, Goto, TypeOK, LockInv, Holding
  <2>2. pc'[p] = "loaded" /\ cur'[p] = Resolve(state, arg[p])
    BY DEF LoadState, Goto, TypeOK
  <2>3. /\ cur'[p].scope = arg'[p]
        /\ cur'[p].exhausted = FALSE
        /\ \A i \in 1..Len(issued') : /\ issued'[i].nonce < cur'[p].next
                                       /\ issued'[i].scope = arg'[p]
    <3>1. \A i \in 1..Len(issued) : /\ issued[i].nonce < Floor(state)
                                    /\ state # NoFile => issued[i].scope = state.scope
      BY DEF DiskInv
    <3>2. CASE state = NoFile
      <4>1. \A i \in 1..Len(issued) : issued[i].nonce < 0
        BY <3>1, <3>2 DEF Floor
      <4>2. \A i \in 1..Len(issued) : issued[i].nonce \in Nat
        BY IssuedType, MaxNonceAssumption
      <4>3. \A i \in 1..Len(issued) : FALSE
        BY <4>1, <4>2
      <4> QED  BY <1>0, <2>2, <4>3 DEF LoadState, history
    <3>3. CASE state # NoFile
      BY <1>0, <2>2, <3>1, <3>3 DEF LoadState, history
    <3> QED  BY <3>2, <3>3
  <2> QED  BY <2>1, <2>2, <2>3 DEF HolderInv, Committed
<1>5. GapInv'
  <2>1. ASSUME NEW n, Accounted(n) PROVE Accounted(n)'
    BY <2>1 DEF LoadState, Goto, files, history, Accounted, TypeOK, Committed
  <2>2. \A c \in stateDisk' : \A n \in 0..MaxNonce : n < Floor(c) => Accounted(n)'
    BY <2>1 DEF LoadState, Goto, files, history, GapInv
  <2>3. \A q \in Procs : pc'[q] \in Holding \ {"locked"} =>
          \A n \in 0..MaxNonce : n < cur'[q].next => Accounted(n)'
    BY <2>1, <1>0 DEF LoadState, Goto, GapInv, TypeOK, DiskInv
  <2> QED  BY <2>2, <2>3 DEF GapInv
<1>6. NoNonceReuse' /\ ScopeExclusive'
  BY DEF LoadState, Goto, history, NoNonceReuse, ScopeExclusive
<1> QED  BY <1>1, <1>2, <1>3, <1>4, <1>5, <1>6

(* load_state or the exhausted test throws.                                *)
LEMMA RejectStateInv ==
    ASSUME NEW p \in Procs, CounterInv, RejectState(p)
    PROVE  CounterInv'
<1> USE DEF CounterInv
<1>1. TypeOK'
  BY DEF RejectState, Goto, files, history, TypeOK, Labels
<1>2. LockInv'
  BY NobodyAssumption DEF RejectState, Goto, TypeOK, LockInv, Holding
<1>3. DiskInv'
  BY DEF RejectState, Goto, files, history, DiskInv
<1>4. HolderInv'
  BY DEF RejectState, Goto, LockInv, HolderInv, Holding
<1>5. GapInv'
  BY DEF RejectState, Goto, files, history, GapInv, Accounted, Holding,
     Committed
<1>6. NoNonceReuse' /\ ScopeExclusive'
  BY DEF RejectState, Goto, history, NoNonceReuse, ScopeExclusive
<1> QED  BY <1>1, <1>2, <1>3, <1>4, <1>5, <1>6

(* The temporary file is created or truncated.                             *)
LEMMA OpenTemporaryInv ==
    ASSUME NEW p \in Procs, CounterInv, OpenTemporary(p)
    PROVE  CounterInv'
<1> USE DEF CounterInv
<1>1. TypeOK'
  BY DEF OpenTemporary, Goto, history, TypeOK, Labels, Holding, Contents, Data
<1>2. LockInv'
  BY DEF OpenTemporary, Goto, LockInv, Holding
<1>3. DiskInv'
  BY DEF OpenTemporary, Goto, history, DiskInv
<1>4. HolderInv'
  BY DEF OpenTemporary, Goto, history, LockInv, HolderInv, Holding, Committed
<1>5. GapInv'
  BY DEF OpenTemporary, Goto, history, GapInv, Accounted, Holding, Committed
<1>6. NoNonceReuse' /\ ScopeExclusive'
  BY DEF OpenTemporary, Goto, history, NoNonceReuse, ScopeExclusive
<1> QED  BY <1>1, <1>2, <1>3, <1>4, <1>5, <1>6

(* write_all fills the temporary file.                                     *)
LEMMA WriteTemporaryInv ==
    ASSUME NEW p \in Procs, CounterInv, WriteTemporary(p)
    PROVE  CounterInv'
<1> USE DEF CounterInv
<1>0. Updated(cur[p]) \in CounterState
  <2>1. pc[p] \in Holding \ {"locked"}
    BY DEF WriteTemporary, Goto, Holding
  <2>2. cur[p] \in CounterState /\ cur[p].exhausted = FALSE
    BY <2>1 DEF TypeOK, HolderInv
  <2> QED  BY <2>2, UpdatedFacts
<1>1. TypeOK'
  BY <1>0 DEF WriteTemporary, Goto, history, TypeOK, Labels, Holding, Contents,
     Data
<1>2. LockInv'
  BY DEF WriteTemporary, Goto, LockInv, Holding
<1>3. DiskInv'
  BY DEF WriteTemporary, Goto, history, DiskInv
<1>4. HolderInv'
  BY DEF WriteTemporary, Goto, history, LockInv, HolderInv, Holding, Committed
<1>5. GapInv'
  <2>1. ASSUME NEW n, Accounted(n) PROVE Accounted(n)'
    BY <2>1 DEF WriteTemporary, Goto, files, history, Accounted, TypeOK, Committed
  <2>2. \A c \in stateDisk' : \A n \in 0..MaxNonce : n < Floor(c) => Accounted(n)'
    BY <2>1 DEF WriteTemporary, Goto, files, history, GapInv
  <2>3. \A q \in Procs : pc'[q] \in Holding \ {"locked"} =>
          \A n \in 0..MaxNonce : n < cur'[q].next => Accounted(n)'
    BY <2>1 DEF WriteTemporary, Goto, files, history, GapInv, TypeOK, Holding
  <2> QED  BY <2>2, <2>3 DEF GapInv
<1>6. NoNonceReuse' /\ ScopeExclusive'
  BY DEF WriteTemporary, Goto, history, NoNonceReuse, ScopeExclusive
<1> QED  BY <1>1, <1>2, <1>3, <1>4, <1>5, <1>6

(* fsync pins the data of the temporary inode.                             *)
LEMMA SyncTemporaryInv ==
    ASSUME NEW p \in Procs, CounterInv, SyncTemporary(p)
    PROVE  CounterInv'
<1> USE DEF CounterInv
<1>0. tmp \in Data
  <2>1. pc[p] = "written" /\ pc[p] \in Holding \ {"locked"}
    BY DEF SyncTemporary, Goto, Holding
  <2>2. cur[p] \in CounterState /\ cur[p].exhausted = FALSE
    BY <2>1 DEF TypeOK, HolderInv
  <2>3. tmp = Updated(cur[p])
    BY <2>1 DEF HolderInv
  <2>4. Updated(cur[p]) \in CounterState
    BY <2>2, UpdatedFacts
  <2> QED  BY <2>3, <2>4 DEF Data
<1>1. TypeOK'
  BY <1>0 DEF SyncTemporary, Goto, files, history, TypeOK, Labels, Holding
<1>2. LockInv'
  BY DEF SyncTemporary, Goto, LockInv, Holding
<1>3. DiskInv'
  BY DEF SyncTemporary, Goto, history, DiskInv
<1>4. HolderInv'
  BY DEF SyncTemporary, Goto, history, LockInv, HolderInv, Holding, Committed
<1>5. GapInv'
  <2>1. ASSUME NEW n, Accounted(n) PROVE Accounted(n)'
    BY <2>1 DEF SyncTemporary, Goto, files, history, Accounted, TypeOK, Committed
  <2>2. \A c \in stateDisk' : \A n \in 0..MaxNonce : n < Floor(c) => Accounted(n)'
    BY <2>1 DEF SyncTemporary, Goto, files, history, GapInv
  <2>3. \A q \in Procs : pc'[q] \in Holding \ {"locked"} =>
          \A n \in 0..MaxNonce : n < cur'[q].next => Accounted(n)'
    BY <2>1 DEF SyncTemporary, Goto, files, history, GapInv, TypeOK, Holding
  <2> QED  BY <2>2, <2>3 DEF GapInv
<1>6. NoNonceReuse' /\ ScopeExclusive'
  BY DEF SyncTemporary, Goto, history, NoNonceReuse, ScopeExclusive
<1> QED  BY <1>1, <1>2, <1>3, <1>4, <1>5, <1>6

(* rename puts the synced record at the state path.                        *)
LEMMA ReplaceInv ==
    ASSUME NEW p \in Procs, CounterInv, Replace(p)
    PROVE  CounterInv'
<1> USE DEF CounterInv
<1>0. /\ Updated(cur[p]) \in CounterState
      /\ Updated(cur[p]) # NoFile /\ Updated(cur[p]) # Torn
      /\ Updated(cur[p]).scope = arg[p]
      /\ Floor(Updated(cur[p])) = cur[p].next + 1
      /\ cur[p].next \in 0..MaxNonce
      /\ tmpDisk = {Updated(cur[p])} /\ tmp = Updated(cur[p])
      /\ \A i \in 1..Len(issued) : /\ issued[i].nonce < cur[p].next
                                    /\ issued[i].scope = arg[p]
                                    /\ issued[i].nonce \in 0..MaxNonce
  <2>1. cur[p] \in CounterState /\ pc[p] \in Holding \ {"locked"}
    BY DEF Replace, Goto, TypeOK, Holding
  <2>2. /\ cur[p].exhausted = FALSE /\ cur[p].scope = arg[p]
        /\ tmpDisk = {Updated(cur[p])} /\ tmp = Updated(cur[p])
        /\ \A i \in 1..Len(issued) : /\ issued[i].nonce < cur[p].next
                                      /\ issued[i].scope = arg[p]
    BY <2>1 DEF Replace, Goto, HolderInv, Committed
  <2>3. cur[p].next \in 0..MaxNonce
    BY <2>1 DEF CounterState
  <2> QED  BY <2>1, <2>2, <2>3, UpdatedFacts, IssuedType
<1>1. TypeOK'
  BY DEF Replace, Goto, history, TypeOK, Labels, Holding, Contents
<1>2. LockInv'
  BY NobodyAssumption DEF Replace, Goto, files, history, TypeOK, LockInv, Holding
<1>3. DiskInv'
  BY <1>0, MaxNonceAssumption DEF Replace, Goto, history, DiskInv
<1>4. HolderInv'
  BY DEF Replace, Goto, history, TypeOK, LockInv, HolderInv, Holding
<1>5. GapInv'
  <2>1. ASSUME NEW n, Accounted(n) PROVE Accounted(n)'
    BY <2>1 DEF Replace, Goto, history, Accounted, TypeOK, Committed
  <2>2. Accounted(cur[p].next)'
    BY DEF Replace, Goto, Accounted, TypeOK, Committed
  <2>3. \A n \in 0..MaxNonce : n < cur[p].next + 1 => Accounted(n)'
    <3>1. \A n \in 0..MaxNonce : n < cur[p].next => Accounted(n)
      BY DEF Replace, Goto, GapInv, Holding
    <3>2. \A n \in 0..MaxNonce : n < cur[p].next + 1 => n < cur[p].next \/ n = cur[p].next
      BY <1>0, MaxNonceAssumption
    <3> TAKE n \in 0..MaxNonce
    <3>3. CASE n < cur[p].next
      BY <2>1, <3>1, <3>3
    <3>4. CASE n = cur[p].next
      BY <2>2, <3>4 DEF Replace
    <3> QED  BY <3>2, <3>3, <3>4
  <2>4. \A c \in stateDisk' : \A n \in 0..MaxNonce : n < Floor(c) => Accounted(n)'
    BY <1>0, <2>1, <2>3 DEF Replace, GapInv
  <2>5. \A q \in Procs : pc'[q] \in Holding \ {"locked"} =>
          \A n \in 0..MaxNonce : n < cur'[q].next => Accounted(n)'
    BY <2>1 DEF Replace, Goto, GapInv, TypeOK, Holding
  <2> QED  BY <2>4, <2>5 DEF GapInv
<1>6. NoNonceReuse' /\ ScopeExclusive'
  BY DEF Replace, Goto, history, NoNonceReuse, ScopeExclusive
<1> QED  BY <1>1, <1>2, <1>3, <1>4, <1>5, <1>6

(* fsync of the directory leaves one possible content.                     *)
LEMMA SyncDirectoryInv ==
    ASSUME NEW p \in Procs, CounterInv, SyncDirectory(p)
    PROVE  CounterInv'
<1> USE DEF CounterInv
<1>0. tmpDisk = {state}
  BY DEF SyncDirectory, Goto, HolderInv, Holding, Committed
<1>1. TypeOK'
  BY DEF SyncDirectory, Goto, history, TypeOK, Labels, Holding, Contents
<1>2. LockInv'
  BY DEF SyncDirectory, Goto, LockInv, Holding
<1>3. DiskInv'
  BY DEF SyncDirectory, Goto, history, DiskInv, HolderInv, Holding, Committed
<1>4. HolderInv'
  BY DEF SyncDirectory, Goto, history, HolderInv, Holding, Committed
<1>5. GapInv'
  <2>1. ASSUME NEW n, Accounted(n) PROVE Accounted(n)'
    BY <2>1 DEF SyncDirectory, Goto, history, Accounted, TypeOK, Committed
  <2>2. \A c \in stateDisk' : \A n \in 0..MaxNonce : n < Floor(c) => Accounted(n)'
    BY <1>0, <2>1 DEF SyncDirectory, GapInv, DiskInv
  <2>3. \A q \in Procs : pc'[q] \in Holding \ {"locked"} =>
          \A n \in 0..MaxNonce : n < cur'[q].next => Accounted(n)'
    BY <2>1 DEF SyncDirectory, Goto, GapInv, TypeOK, Holding
  <2> QED  BY <2>2, <2>3 DEF GapInv
<1>6. NoNonceReuse' /\ ScopeExclusive'
  BY DEF SyncDirectory, Goto, history, NoNonceReuse, ScopeExclusive
<1> QED  BY <1>1, <1>2, <1>3, <1>4, <1>5, <1>6

(* The nonce reaches the caller and the lock is released.                  *)
LEMMA ReturnInv ==
    ASSUME NEW p \in Procs, CounterInv, Return(p)
    PROVE  CounterInv'
<1> USE DEF CounterInv
<1>0. /\ Updated(cur[p]) \in CounterState
      /\ Updated(cur[p]) # NoFile /\ Updated(cur[p]) # Torn
      /\ Updated(cur[p]).scope = arg[p]
      /\ Floor(Updated(cur[p])) = cur[p].next + 1
      /\ cur[p].next \in 0..MaxNonce
      /\ stateDisk = {Updated(cur[p])}
      /\ \A i \in 1..Len(issued) : /\ issued[i].nonce < cur[p].next
                                    /\ issued[i].scope = arg[p]
                                    /\ issued[i].nonce \in 0..MaxNonce
  <2>1. cur[p] \in CounterState /\ pc[p] \in Holding \ {"locked"}
    BY DEF Return, Goto, TypeOK, Holding
  <2>2. /\ cur[p].exhausted = FALSE /\ cur[p].scope = arg[p]
        /\ stateDisk = {Updated(cur[p])}
        /\ \A i \in 1..Len(issued) : /\ issued[i].nonce < cur[p].next
                                      /\ issued[i].scope = arg[p]
    BY <2>1 DEF Return, Goto, HolderInv, Committed
  <2>3. cur[p].next \in 0..MaxNonce
    BY <2>1 DEF CounterState
  <2> QED  BY <2>1, <2>2, <2>3, UpdatedFacts, IssuedType
<1> DEFINE t == [scope |-> arg[p], nonce |-> cur[p].next]
<1>a. /\ issued' = Append(issued, t)
      /\ t \in [scope : Scopes, nonce : 0..MaxNonce]
  BY <1>0 DEF Return, TypeOK
<1>b. /\ Len(issued) \in Nat
      /\ Len(issued') = Len(issued) + 1
      /\ issued'[Len(issued) + 1] = t
      /\ \A i \in 1..Len(issued) : issued'[i] = issued[i]
      /\ issued' \in Seq([scope : Scopes, nonce : 0..MaxNonce])
  BY <1>a DEF TypeOK
<1>c. \A i \in 1..Len(issued') : \/ i \in 1..Len(issued) /\ issued'[i] = issued[i]
                                 \/ i = Len(issued) + 1 /\ issued'[i] = t
  BY <1>b
<1>1. TypeOK'
  BY <1>b DEF Return, Goto, files, TypeOK, Labels
<1>2. LockInv'
  BY NobodyAssumption DEF Return, Goto, files, history, TypeOK, LockInv, Holding
<1>3. DiskInv'
  BY <1>0, <1>c, MaxNonceAssumption DEF Return, files, DiskInv
<1>4. HolderInv'
  BY DEF Return, Goto, TypeOK, LockInv, HolderInv, Holding
<1>5. GapInv'
  <2>1. ASSUME NEW n, Accounted(n) PROVE Accounted(n)'
    <3>1. CASE \E i \in 1..Len(issued) : issued[i].nonce = n
      BY <1>b, <3>1 DEF Accounted
    <3>2. CASE n \in lost
      BY <3>2 DEF Return, Accounted
    <3>3. CASE \E q \in Procs : pc[q] \in Committed /\ cur[q].next = n
      <4>1. cur[p].next = n
        BY <3>3 DEF Return, Goto, LockInv, Committed, Holding
      <4> QED  BY <1>b, <4>1 DEF Accounted
    <3> QED  BY <2>1, <3>1, <3>2, <3>3 DEF Accounted
  <2>2. \A c \in stateDisk' : \A n \in 0..MaxNonce : n < Floor(c) => Accounted(n)'
    BY <2>1 DEF Return, files, GapInv
  <2>3. \A q \in Procs : pc'[q] \in Holding \ {"locked"} =>
          \A n \in 0..MaxNonce : n < cur'[q].next => Accounted(n)'
    BY <2>1 DEF Return, Goto, GapInv, TypeOK, Holding
  <2> QED  BY <2>2, <2>3 DEF GapInv
<1>6. NoNonceReuse' /\ ScopeExclusive'
  <2>1. ASSUME NEW i \in 1..Len(issued'), NEW j \in 1..Len(issued'), i < j
        PROVE  issued'[i].nonce < issued'[j].nonce
    <3>1. i \in 1..Len(issued) /\ issued'[i] = issued[i]
      BY <1>b, <2>1
    <3>2. CASE j \in 1..Len(issued) /\ issued'[j] = issued[j]
      BY <2>1, <3>1, <3>2 DEF NoNonceReuse
    <3>3. CASE issued'[j] = t
      BY <1>0, <3>1, <3>3
    <3> QED  BY <1>c, <3>2, <3>3
  <2>2. \A i, j \in 1..Len(issued') : issued'[i].scope = issued'[j].scope
    BY <1>0, <1>c DEF ScopeExclusive
  <2> QED  BY <2>1, <2>2 DEF NoNonceReuse, ScopeExclusive
<1> QED  BY <1>1, <1>2, <1>3, <1>4, <1>5, <1>6

(* A call fails or its process dies at any step.                           *)
LEMMA AbortInv ==
    ASSUME NEW p \in Procs, CounterInv, Abort(p)
    PROVE  CounterInv'
<1> USE DEF CounterInv
<1>1. TypeOK'
  <2>1. InFlight({p}) \subseteq 0..MaxNonce
    BY DEF InFlight, TypeOK, CounterState
  <2> QED  BY <2>1 DEF Abort, files, TypeOK, Labels
<1>2. LockInv'
  BY NobodyAssumption DEF Abort, files, history, TypeOK, LockInv, Holding
<1>3. DiskInv'
  BY DEF Abort, files, DiskInv
<1>4. HolderInv'
  BY DEF Abort, files, HolderInv, Holding
<1>5. GapInv'
  <2>1. ASSUME NEW n, Accounted(n) PROVE Accounted(n)'
    BY <2>1, InFlightDef DEF Abort, files, history, Accounted, TypeOK, Committed
  <2>2. \A c \in stateDisk' : \A n \in 0..MaxNonce : n < Floor(c) => Accounted(n)'
    BY <2>1 DEF Abort, files, history, GapInv
  <2>3. \A q \in Procs : pc'[q] \in Holding \ {"locked"} =>
          \A n \in 0..MaxNonce : n < cur'[q].next => Accounted(n)'
    BY <2>1 DEF Abort, files, history, GapInv, TypeOK, Holding
  <2> QED  BY <2>2, <2>3 DEF GapInv
<1>6. NoNonceReuse' /\ ScopeExclusive'
  BY DEF Abort, NoNonceReuse, ScopeExclusive
<1> QED  BY <1>1, <1>2, <1>3, <1>4, <1>5, <1>6

(* Every process stops; the disk settles on an allowed content.            *)
LEMMA PowerLossInv ==
    ASSUME CounterInv, PowerLoss
    PROVE  CounterInv'
<1> USE DEF CounterInv
<1>1. TypeOK'
  <2>1. InFlight(Procs) \subseteq 0..MaxNonce
    BY DEF InFlight, TypeOK, CounterState
  <2> QED  BY <2>1 DEF PowerLoss, TypeOK, Labels, Contents
<1>2. LockInv'
  BY NobodyAssumption DEF PowerLoss, files, history, TypeOK, LockInv, Holding
<1>3. DiskInv'
  BY DEF PowerLoss, DiskInv
<1>4. HolderInv'
  BY DEF PowerLoss, HolderInv, Holding
<1>5. GapInv'
  <2>1. ASSUME NEW n, Accounted(n) PROVE Accounted(n)'
    BY <2>1, InFlightDef DEF PowerLoss, files, history, Accounted, TypeOK, Committed
  <2>2. \A c \in stateDisk' : \A n \in 0..MaxNonce : n < Floor(c) => Accounted(n)'
    BY <2>1 DEF PowerLoss, files, history, GapInv
  <2>3. \A q \in Procs : pc'[q] \in Holding \ {"locked"} =>
          \A n \in 0..MaxNonce : n < cur'[q].next => Accounted(n)'
    BY <2>1 DEF PowerLoss, files, history, GapInv, TypeOK, Holding
  <2> QED  BY <2>2, <2>3 DEF GapInv
<1>6. NoNonceReuse' /\ ScopeExclusive'
  BY DEF PowerLoss, NoNonceReuse, ScopeExclusive
<1> QED  BY <1>1, <1>2, <1>3, <1>4, <1>5, <1>6

(* Every step of every caller, every failed call and every power loss      *)
(* preserves the invariant.                                                *)
LEMMA NextInv == CounterInv /\ [Next]_vars => CounterInv'
<1> SUFFICES ASSUME CounterInv, [Next]_vars PROVE CounterInv'
  OBVIOUS
<1>1. ASSUME NEW p \in Procs, NEW s \in Scopes, Begin(p, s) PROVE CounterInv'
  BY <1>1, BeginInv
<1>2. ASSUME NEW p \in Procs, AcquireLock(p) PROVE CounterInv'
  BY <1>2, AcquireLockInv
<1>3. ASSUME NEW p \in Procs, Step(p) PROVE CounterInv'
  BY <1>3, LoadStateInv, RejectStateInv, OpenTemporaryInv, WriteTemporaryInv,
     SyncTemporaryInv, ReplaceInv, SyncDirectoryInv, ReturnInv DEF Step
<1>4. ASSUME NEW p \in Procs, Abort(p) PROVE CounterInv'
  BY <1>4, AbortInv
<1>5. CASE PowerLoss
  BY <1>5, PowerLossInv
<1>6. CASE UNCHANGED vars
  BY <1>6 DEF vars, CounterInv, TypeOK, LockInv, DiskInv, HolderInv, GapInv,
     Accounted, NoNonceReuse, ScopeExclusive
<1> QED  BY <1>1, <1>2, <1>3, <1>4, <1>5, <1>6 DEF Next

(* CounterInv is an invariant of allocate for any number of callers, any   *)
(* scopes and any nonce width.                                             *)
THEOREM Invariance == Spec => []CounterInv
<1> QED  BY InitInv, NextInv, PTL DEF Spec

(* Every variable keeps its type.                                          *)
THEOREM TypeCorrect == Spec => []TypeOK
<1>1. CounterInv => TypeOK
  BY DEF CounterInv
<1> QED  BY <1>1, Invariance, PTL

(* allocate never returns a nonce twice, whatever callers, crashes and     *)
(* power losses do.                                                        *)
THEOREM NonceUniqueness == Spec => []NoNonceReuse
<1>1. CounterInv => NoNonceReuse
  BY DEF CounterInv
<1> QED  BY <1>1, Invariance, PTL

(* One state file never serves two scopes.                                 *)
THEOREM ScopeExclusion == Spec => []ScopeExclusive
<1>1. CounterInv => ScopeExclusive
  BY DEF CounterInv
<1> QED  BY <1>1, Invariance, PTL

(* A returned nonce is past every counter that power loss can bring back.  *)
THEOREM Durability == Spec => []DurableBeforeReturn
<1>1. CounterInv => DurableBeforeReturn
  BY DEF CounterInv, DiskInv, DurableBeforeReturn
<1> QED  BY <1>1, Invariance, PTL

(* The state path never holds a record load_state would refuse as corrupt. *)
THEOREM NeverTorn == Spec => []StateNeverTorn
<1>1. CounterInv => StateNeverTorn
  BY DEF CounterInv, DiskInv, StateNeverTorn
<1> QED  BY <1>1, Invariance, PTL

(* Every value below the counter was returned or lost by a failed call.    *)
THEOREM GapFree == Spec => []NoSilentGap
<1>1. CounterInv => NoSilentGap
  BY DEF CounterInv, DiskInv, GapInv, NoSilentGap
<1> QED  BY <1>1, Invariance, PTL

(* allocate implements the abstract issuer: a Return is an Issue, every    *)
(* other step leaves the issued sequence alone.                            *)
THEOREM Refinement == Spec => IssuerSpec
<1>1. Init => Issuer!Init
  BY DEF Init, Issuer!Init
<1>2. CounterInv /\ [Next]_vars => [Issuer!Next]_issued
  <2> SUFFICES ASSUME CounterInv, [Next]_vars, issued' # issued
               PROVE  Issuer!Next
    OBVIOUS
  <2>1. PICK p \in Procs : Return(p)
    BY DEF Next, Step, vars, history, Begin, AcquireLock, LoadState,
       RejectState, OpenTemporary, WriteTemporary, SyncTemporary, Replace,
       SyncDirectory, Abort, PowerLoss
  <2> DEFINE t == [scope |-> arg[p], nonce |-> cur[p].next]
  <2>2. t \in Issuer!Ticket
    BY DEF CounterInv, TypeOK, CounterState, Issuer!Ticket
  <2>3. Issuer!Issue(t)
    BY <2>1 DEF Return, Goto, CounterInv, HolderInv, Holding, Issuer!Issue
  <2> QED  BY <2>2, <2>3 DEF Issuer!Next
<1> QED  BY <1>1, <1>2, Invariance, PTL DEF Spec, IssuerSpec, Issuer!Spec

=============================================================================
