--------------------------- MODULE NonceMisuseProof ---------------------------
(***************************************************************************)
(* Proofs about the nonce-misuse campaign: whatever the order in which the *)
(* parent, the crashing child and the workers run, and whichever system    *)
(* call fails, what main requires holds when it comes to require it.       *)
(*                                                                         *)
(* First the script: along main, each requirement is met where the plan    *)
(* has foreseen it (Runs, RunMain, PlanFacts).  Then the steps: those      *)
(* inside allocate, those of the parent, those of the forked processes and *)
(* the failures each keep CampaignInv.                                     *)
(***************************************************************************)
EXTENDS NonceMisuse, AeadFunctionsProof, FiniteSetTheorems, FunctionTheorems,
        NaturalsInduction, WellFoundedInduction, TLAPS

(* The values a plan goes through.                                         *)
Forecasts == [next : 0..(MaxNonce + 1), snap : 0..MaxNonce,
              obs : SUBSET ({"first", "second", "key"} \X Nat),
              mode : {"normal", "restored", "replayed"},
              unforked : BOOLEAN, unwritten : BOOLEAN]

(* A forecast by its fields.                                               *)
Forecast(n, s, o, m, f, w) ==
    [next |-> n, snap |-> s, obs |-> o, mode |-> m, unforked |-> f, unwritten |-> w]

(* Requirement s is met where g is foreseen, and takes it to e.            *)
Follows(s, g, e) == g \in Forecasts /\ e \in Forecasts /\ Met(s, g) /\ e = After(s, g)

(* The requirements of s are met one after the other, from g to e.         *)
Runs(s, g, e) ==
    /\ \E S : s \in Seq(S)
    /\ \E h : /\ h \in [1..(Len(s) + 1) -> Forecasts]
              /\ h[1] = g /\ h[Len(s) + 1] = e
              /\ \A i \in 1..Len(s) : Follows(s[i], h[i], h[i + 1])

(* A script of one requirement.                                            *)
LEMMA RunOne ==
    ASSUME NEW s, NEW g, NEW e, Follows(s, g, e)
    PROVE  Runs(<<s>>, g, e)
<1> DEFINE h == [i \in 1..2 |-> IF i = 1 THEN g ELSE e]
<1>1. g \in Forecasts /\ e \in Forecasts
  BY DEF Follows
<1>2. Len(<<s>>) = 1 /\ <<s>>[1] = s
  OBVIOUS
<1>3. h \in [1..(1 + 1) -> Forecasts] /\ h[1] = g /\ h[1 + 1] = e
  BY <1>1
<1>4. \A i \in 1..1 : i = 1
  OBVIOUS
<1> HIDE DEF h
<1>5. \A i \in 1..1 : Follows(<<s>>[i], h[i], h[i + 1])
  BY <1>2, <1>3, <1>4
<1>6. <<s>> \in Seq({s})
  OBVIOUS
<1>7. \E S : <<s>> \in Seq(S)
  BY <1>6
<1> QED  BY <1>2, <1>3, <1>5, <1>7 DEF Runs

(* One script after another.                                               *)
LEMMA RunJoin ==
    ASSUME NEW s, NEW t, NEW g, NEW e, NEW f, Runs(s, g, e), Runs(t, e, f)
    PROVE  Runs(s \o t, g, f)
<1>a. PICK S : s \in Seq(S)
  BY Zenon DEF Runs
<1>b. PICK T : t \in Seq(T)
  BY Zenon DEF Runs
<1>c. PICK U : U = S \cup T
  OBVIOUS
<1>d. s \in Seq(U) /\ t \in Seq(U)
  BY <1>a, <1>b, <1>c
<1>1. PICK h : /\ h \in [1..(Len(s) + 1) -> Forecasts]
               /\ h[1] = g /\ h[Len(s) + 1] = e
               /\ \A i \in 1..Len(s) : Follows(s[i], h[i], h[i + 1])
  BY DEF Runs
<1>2. PICK k : /\ k \in [1..(Len(t) + 1) -> Forecasts]
               /\ k[1] = e /\ k[Len(t) + 1] = f
               /\ \A i \in 1..Len(t) : Follows(t[i], k[i], k[i + 1])
  BY DEF Runs
<1> DEFINE m == Len(s)
           n == Len(t)
           u == s \o t
           j == [i \in 1..(m + n + 1) |-> IF i <= m THEN h[i] ELSE k[i - m]]
<1>3. /\ m \in Nat /\ n \in Nat /\ Len(u) = m + n
      /\ \A i \in 1..(m + n) : u[i] = IF i <= m THEN s[i] ELSE t[i - m]
  BY <1>d, ConcatProperties, LenProperties
<1>4. \A i \in 1..(m + n + 1) : j[i] \in Forecasts
  <2> TAKE i \in 1..(m + n + 1)
  <2>1. CASE i <= m
    BY <2>1, <1>1, <1>3
  <2>2. CASE ~(i <= m)
    <3>1. i - m \in 1..(n + 1)
      BY <2>2, <1>3
    <3> QED  BY <3>1, <2>2, <1>2
  <2> QED  BY <2>1, <2>2
<1>5. j \in [1..(m + n + 1) -> Forecasts]
  BY <1>4
<1>6. j[1] = g
  BY <1>1, <1>2, <1>3
<1>7. j[m + n + 1] = f
  BY <1>2, <1>3
<1>8. \A i \in 1..(m + n) : Follows(u[i], j[i], j[i + 1])
  <2> TAKE i \in 1..(m + n)
  <2>1. CASE i < m
    <3>1. u[i] = s[i] /\ j[i] = h[i] /\ j[i + 1] = h[i + 1] /\ i \in 1..m
      BY <2>1, <1>3
    <3> HIDE DEF u, j, m
    <3> QED  BY <3>1, <1>1 DEF m
  <2>2. CASE i = m
    <3>1. u[i] = s[i] /\ j[i] = h[i] /\ j[i + 1] = k[1] /\ i \in 1..m
      BY <2>2, <1>3
    <3> HIDE DEF u, j
    <3> QED  BY <3>1, <1>1, <1>2, <2>2
  <2>3. CASE i > m
    <3>1. /\ u[i] = t[i - m] /\ j[i] = k[i - m] /\ j[i + 1] = k[(i - m) + 1]
          /\ i - m \in 1..n
      BY <2>3, <1>3
    <3> HIDE DEF u, j, n, m
    <3> QED  BY <3>1, <1>2 DEF n
  <2> QED  BY <2>1, <2>2, <2>3, <1>3
<1> HIDE DEF m, n, u, j
<1>e. \E V : u \in Seq(V)
  BY <1>d, ConcatProperties DEF u
<1>9. Runs(u, g, f)
  BY <1>3, <1>5, <1>6, <1>7, <1>8, <1>e DEF Runs
<1> QED  BY <1>9 DEF u

-----------------------------------------------------------------------------
(* What each requirement needs and leads to.                               *)
Keyed == {"first", "second", "key"} \X Nat

(* A new path.                                                            *)
LEMMA FollowsPath ==
    ASSUME NEW n \in 0..(MaxNonce + 1), NEW s \in 0..MaxNonce, NEW o \in SUBSET Keyed,
           NEW f \in BOOLEAN, NEW w \in BOOLEAN
    PROVE  Follows(Path, Forecast(n, s, o, "normal", f, w),
                   Forecast(0, s, o, "normal", TRUE, w))
<1>1. Forecast(n, s, o, "normal", f, w) \in Forecasts
      /\ Forecast(0, s, o, "normal", TRUE, w) \in Forecasts
  BY WidthAssumption DEF Forecast, Forecasts, Keyed
<1>2. Met(Path, Forecast(n, s, o, "normal", f, w))
  BY WidthAssumption DEF Met, Forecast, Path
<1>3. After(Path, Forecast(n, s, o, "normal", f, w)) = Forecast(0, s, o, "normal", TRUE, w)
  BY WidthAssumption DEF After, Forecast, Path
<1> QED  BY <1>1, <1>2, <1>3 DEF Follows

(* An allocation.                                                         *)
LEMMA FollowsAlloc ==
    ASSUME NEW n \in 0..MaxNonce, NEW s \in 0..MaxNonce, NEW o \in SUBSET Keyed,
           NEW f \in BOOLEAN, NEW w \in BOOLEAN
    PROVE  Follows(Alloc(n), Forecast(n, s, o, "normal", f, w),
                   Forecast(n + 1, s, o, "normal", f, w))
<1>1. Forecast(n, s, o, "normal", f, w) \in Forecasts
      /\ Forecast(n + 1, s, o, "normal", f, w) \in Forecasts
  BY WidthAssumption DEF Forecast, Forecasts, Keyed
<1>2. Met(Alloc(n), Forecast(n, s, o, "normal", f, w))
  BY WidthAssumption DEF Met, Forecast, Alloc
<1>3. After(Alloc(n), Forecast(n, s, o, "normal", f, w)) = Forecast(n + 1, s, o, "normal", f, w)
  BY WidthAssumption DEF After, Forecast, Alloc
<1> QED  BY <1>1, <1>2, <1>3 DEF Follows

(* A refused scope.                                                       *)
LEMMA FollowsRefuse ==
    ASSUME NEW n \in 1..(MaxNonce + 1), NEW s \in 0..MaxNonce, NEW o \in SUBSET Keyed,
           NEW f \in BOOLEAN, NEW w \in BOOLEAN
    PROVE  Follows(Refuse, Forecast(n, s, o, "normal", f, w), Forecast(n, s, o, "normal", f, w))
<1>1. Forecast(n, s, o, "normal", f, w) \in Forecasts
      /\ Forecast(n, s, o, "normal", f, w) \in Forecasts
  BY WidthAssumption DEF Forecast, Forecasts, Keyed
<1>2. Met(Refuse, Forecast(n, s, o, "normal", f, w))
  BY WidthAssumption DEF Met, Forecast, Refuse
<1>3. After(Refuse, Forecast(n, s, o, "normal", f, w)) = Forecast(n, s, o, "normal", f, w)
  BY WidthAssumption DEF After, Forecast, Refuse
<1> QED  BY <1>1, <1>2, <1>3 DEF Follows

(* A child dies at a point of the call.                                   *)
LEMMA FollowsCrash ==
    ASSUME NEW n \in 0..MaxNonce, NEW s \in 0..MaxNonce, NEW o \in SUBSET Keyed,
           NEW w \in BOOLEAN, NEW q \in Counter!Holding, NEW r,
           r = IF q \in {"replaced", "durable"} THEN n + 1 ELSE n
    PROVE  Follows([op |-> "crash", point |-> q], Forecast(n, s, o, "normal", TRUE, w),
                   Forecast(r, s, o, "normal", FALSE, w))
<1>1. Forecast(n, s, o, "normal", TRUE, w) \in Forecasts
      /\ Forecast(r, s, o, "normal", FALSE, w) \in Forecasts
  BY WidthAssumption DEF Forecast, Forecasts, Keyed
<1>2. Met([op |-> "crash", point |-> q], Forecast(n, s, o, "normal", TRUE, w))
  BY WidthAssumption DEF Met, Forecast, Counter!Committed
<1>3. After([op |-> "crash", point |-> q], Forecast(n, s, o, "normal", TRUE, w))
         = Forecast(r, s, o, "normal", FALSE, w)
  BY WidthAssumption DEF After, Forecast, Counter!Committed
<1> QED  BY <1>1, <1>2, <1>3 DEF Follows

(* The workers have written their files.                                  *)
LEMMA FollowsWorkers ==
    ASSUME NEW s \in 0..MaxNonce, NEW o \in SUBSET Keyed, NEW t, 
           t = Cardinality(Workers) * PerWorker, t \in Nat
    PROVE  Follows([op |-> "workers"], Forecast(0, s, o, "normal", TRUE, TRUE),
                   Forecast(t, s, o, "normal", FALSE, FALSE))
<1>1. Forecast(0, s, o, "normal", TRUE, TRUE) \in Forecasts
      /\ Forecast(t, s, o, "normal", FALSE, FALSE) \in Forecasts
  BY WidthAssumption DEF Forecast, Forecasts, Keyed
<1>2. Met([op |-> "workers"], Forecast(0, s, o, "normal", TRUE, TRUE))
  BY WidthAssumption DEF Met, Forecast, Forecasts
<1>3. After([op |-> "workers"], Forecast(0, s, o, "normal", TRUE, TRUE))
         = Forecast(t, s, o, "normal", FALSE, FALSE)
  BY WidthAssumption DEF After, Forecast, Forecasts
<1> QED  BY <1>1, <1>2, <1>3 DEF Follows

(* The state file is copied.                                              *)
LEMMA FollowsCopy ==
    ASSUME NEW n \in 0..MaxNonce, NEW s \in 0..MaxNonce, NEW o \in SUBSET Keyed,
           NEW f \in BOOLEAN, NEW w \in BOOLEAN
    PROVE  Follows([op |-> "copy"], Forecast(n, s, o, "normal", f, w),
                   Forecast(n, n, o, "normal", f, w))
<1>1. Forecast(n, s, o, "normal", f, w) \in Forecasts
      /\ Forecast(n, n, o, "normal", f, w) \in Forecasts
  BY WidthAssumption DEF Forecast, Forecasts, Keyed
<1>2. Met([op |-> "copy"], Forecast(n, s, o, "normal", f, w))
  BY WidthAssumption DEF Met, Forecast, Forecasts
<1>3. After([op |-> "copy"], Forecast(n, s, o, "normal", f, w))
         = Forecast(n, n, o, "normal", f, w)
  BY WidthAssumption DEF After, Forecast, Forecasts
<1> QED  BY <1>1, <1>2, <1>3 DEF Follows

(* The state file is restored.                                            *)
LEMMA FollowsRestore ==
    ASSUME NEW n \in 0..(MaxNonce + 1), NEW s \in 0..MaxNonce, NEW o \in SUBSET Keyed,
           NEW f \in BOOLEAN, NEW w \in BOOLEAN
    PROVE  Follows([op |-> "restore"], Forecast(n, s, o, "normal", f, w),
                   Forecast(s, s, o, "restored", f, w))
<1>1. Forecast(n, s, o, "normal", f, w) \in Forecasts
      /\ Forecast(s, s, o, "restored", f, w) \in Forecasts
  BY WidthAssumption DEF Forecast, Forecasts, Keyed
<1>2. Met([op |-> "restore"], Forecast(n, s, o, "normal", f, w))
  BY WidthAssumption DEF Met, Forecast, Forecasts
<1>3. After([op |-> "restore"], Forecast(n, s, o, "normal", f, w))
         = Forecast(s, s, o, "restored", f, w)
  BY WidthAssumption DEF After, Forecast, Forecasts
<1> QED  BY <1>1, <1>2, <1>3 DEF Follows

(* A new detector.                                                        *)
LEMMA FollowsDetector ==
    ASSUME NEW n \in 0..(MaxNonce + 1), NEW m \in {"normal", "restored"},
           NEW s \in 0..MaxNonce, NEW o \in SUBSET Keyed,
           NEW f \in BOOLEAN, NEW w \in BOOLEAN
    PROVE  Follows([op |-> "detector"], Forecast(n, s, o, m, f, w), Forecast(n, s, {}, m, f, w))
<1>1. Forecast(n, s, o, m, f, w) \in Forecasts /\ Forecast(n, s, {}, m, f, w) \in Forecasts
  BY WidthAssumption DEF Forecast, Forecasts, Keyed
<1>2. Met([op |-> "detector"], Forecast(n, s, o, m, f, w))
  BY WidthAssumption DEF Met, Forecast, Forecasts
<1>3. After([op |-> "detector"], Forecast(n, s, o, m, f, w)) = Forecast(n, s, {}, m, f, w)
  BY WidthAssumption DEF After, Forecast, Forecasts
<1> QED  BY <1>1, <1>2, <1>3 DEF Follows

(* A nonce is shown to the detector.                                      *)
LEMMA FollowsObserve ==
    ASSUME NEW n \in 0..(MaxNonce + 1), NEW m \in {"normal", "restored"},
           NEW s \in 0..MaxNonce, NEW o \in SUBSET Keyed,
           NEW f \in BOOLEAN, NEW w \in BOOLEAN,
           NEW k \in {"first", "second", "key"}, NEW c \in Nat, NEW a, NEW b,
           a = IF <<k, c>> \in o THEN "Reused" ELSE "Fresh", b = o \cup {<<k, c>>}
    PROVE  Follows(Observe(k, c, a), Forecast(n, s, o, m, f, w), Forecast(n, s, b, m, f, w))
<1>1. Forecast(n, s, o, m, f, w) \in Forecasts /\ Forecast(n, s, b, m, f, w) \in Forecasts
  BY WidthAssumption DEF Forecast, Forecasts, Keyed
<1>2. Met(Observe(k, c, a), Forecast(n, s, o, m, f, w))
  BY WidthAssumption DEF Met, Forecast, Observe
<1>3. After(Observe(k, c, a), Forecast(n, s, o, m, f, w)) = Forecast(n, s, b, m, f, w)
  BY WidthAssumption DEF After, Forecast, Observe
<1> QED  BY <1>1, <1>2, <1>3 DEF Follows

(* The number of observations.                                            *)
LEMMA FollowsObservations ==
    ASSUME NEW n \in 0..(MaxNonce + 1), NEW m \in {"normal", "restored"},
           NEW s \in 0..MaxNonce, NEW o \in SUBSET Keyed,
           NEW f \in BOOLEAN, NEW w \in BOOLEAN,
           NEW c, c = Cardinality(o)
    PROVE  Follows([op |-> "observations", expect |-> c], Forecast(n, s, o, m, f, w),
                   Forecast(n, s, o, m, f, w))
<1>1. Forecast(n, s, o, m, f, w) \in Forecasts /\ Forecast(n, s, o, m, f, w) \in Forecasts
  BY WidthAssumption DEF Forecast, Forecasts, Keyed
<1>2. Met([op |-> "observations", expect |-> c], Forecast(n, s, o, m, f, w))
  BY WidthAssumption DEF Met, Forecast, Forecasts
<1>3. After([op |-> "observations", expect |-> c], Forecast(n, s, o, m, f, w))
         = Forecast(n, s, o, m, f, w)
  BY WidthAssumption DEF After, Forecast, Forecasts
<1> QED  BY <1>1, <1>2, <1>3 DEF Follows

(* The temporary directory.                                               *)
LEMMA FollowsDirectory ==
    ASSUME NEW n \in 0..(MaxNonce + 1), NEW m \in {"normal", "restored"},
           NEW s \in 0..MaxNonce, NEW o \in SUBSET Keyed,
           NEW f \in BOOLEAN, NEW w \in BOOLEAN
    PROVE  Follows([op |-> "directory"], Forecast(n, s, o, m, f, w),
                   Forecast(n, s, o, m, f, w))
<1>1. Forecast(n, s, o, m, f, w) \in Forecasts /\ Forecast(n, s, o, m, f, w) \in Forecasts
  BY WidthAssumption DEF Forecast, Forecasts, Keyed
<1>2. Met([op |-> "directory"], Forecast(n, s, o, m, f, w))
  BY WidthAssumption DEF Met, Forecast, Forecasts
<1>3. After([op |-> "directory"], Forecast(n, s, o, m, f, w)) = Forecast(n, s, o, m, f, w)
  BY WidthAssumption DEF After, Forecast, Forecasts
<1> QED  BY <1>1, <1>2, <1>3 DEF Follows

(* The XOR relation.                                                      *)
LEMMA FollowsXor ==
    ASSUME NEW n \in 0..(MaxNonce + 1), NEW m \in {"normal", "restored"},
           NEW s \in 0..MaxNonce, NEW o \in SUBSET Keyed,
           NEW f \in BOOLEAN, NEW w \in BOOLEAN
    PROVE  Follows([op |-> "xor"], Forecast(n, s, o, m, f, w), Forecast(n, s, o, m, f, w))
<1>1. Forecast(n, s, o, m, f, w) \in Forecasts /\ Forecast(n, s, o, m, f, w) \in Forecasts
  BY WidthAssumption DEF Forecast, Forecasts, Keyed
<1>2. Met([op |-> "xor"], Forecast(n, s, o, m, f, w))
  BY WidthAssumption DEF Met, Forecast, Forecasts
<1>3. After([op |-> "xor"], Forecast(n, s, o, m, f, w)) = Forecast(n, s, o, m, f, w)
  BY WidthAssumption DEF After, Forecast, Forecasts
<1> QED  BY <1>1, <1>2, <1>3 DEF Follows

(* A value is drawn again.                                                *)
LEMMA FollowsReplay ==
    ASSUME NEW n \in 0..MaxNonce, NEW m \in {"restored", "replayed"},
           NEW s \in 0..MaxNonce, NEW o \in SUBSET Keyed,
           NEW f \in BOOLEAN, NEW w \in BOOLEAN,
           s \in 1..n, <<"key", n>> \in o
    PROVE  Follows(Replay(n), Forecast(n, s, o, m, f, w),
                   Forecast(n + 1, s, o, "replayed", f, w))
<1>1. Forecast(n, s, o, m, f, w) \in Forecasts
      /\ Forecast(n + 1, s, o, "replayed", f, w) \in Forecasts
  BY WidthAssumption DEF Forecast, Forecasts, Keyed
<1>2. Met(Replay(n), Forecast(n, s, o, m, f, w))
  BY WidthAssumption DEF Met, Forecast, Replay
<1>3. After(Replay(n), Forecast(n, s, o, m, f, w)) = Forecast(n + 1, s, o, "replayed", f, w)
  BY WidthAssumption DEF After, Forecast, Replay
<1> QED  BY <1>1, <1>2, <1>3 DEF Follows

-----------------------------------------------------------------------------
(* A script whose requirements are given one by one.                       *)
LEMMA RunSteps ==
    ASSUME NEW n \in Nat, NEW s, NEW h, DOMAIN s = 1..n, s = [i \in 1..n |-> s[i]],
           \A i \in 1..n : Follows(s[i], h[i], h[i + 1]),
           h = [i \in 1..(n + 1) |-> h[i]], h[1] \in Forecasts
    PROVE  Runs(s, h[1], h[n + 1])
<1>1. PICK T : T = {s[i] : i \in 1..n}
  OBVIOUS
<1>2. s \in Seq(T) /\ Len(s) = n
  <2>1. s \in [1..n -> T]
    BY <1>1
  <2> QED  BY <2>1
<1>3. \A i \in 1..(n + 1) : h[i] \in Forecasts
  <2> TAKE i \in 1..(n + 1)
  <2>1. CASE i = 1
    BY <2>1
  <2>2. CASE i # 1
    <3>1. PICK j \in 1..n : i = j + 1
      <4>1. i - 1 \in 1..n /\ i = (i - 1) + 1
        BY <2>2
      <4> QED  BY <4>1
    <3> QED  BY <3>1 DEF Follows
  <2> QED  BY <2>1, <2>2
<1>4. h \in [1..(n + 1) -> Forecasts]
  BY <1>3
<1>5. \E S : s \in Seq(S)
  BY <1>2
<1> QED  BY <1>2, <1>4, <1>5 DEF Runs

(* Consecutive allocations.                                                *)
LEMMA RunAllocs ==
    ASSUME NEW n \in Nat, NEW c \in Nat, n + c <= MaxNonce + 1, NEW d, d = n + c,
           NEW s \in 0..MaxNonce, NEW o \in SUBSET Keyed,
           NEW f \in BOOLEAN, NEW w \in BOOLEAN
    PROVE  Runs(Allocs(n, c), Forecast(n, s, o, "normal", f, w),
                Forecast(d, s, o, "normal", f, w))
<1> DEFINE h == [i \in 1..(c + 1) |-> Forecast(n + i - 1, s, o, "normal", f, w)]
           a == Allocs(n, c)
<1>1. /\ DOMAIN a = 1..c /\ a = [i \in 1..c |-> a[i]] /\ \A i \in 1..c : a[i] = Alloc(n + i - 1)
  BY DEF Allocs
<1>2. /\ h = [i \in 1..(c + 1) |-> h[i]]
      /\ \A i \in 1..(c + 1) : h[i] = Forecast(n + i - 1, s, o, "normal", f, w)
  OBVIOUS
<1>3. h[1] \in Forecasts
  <2>1. n + 1 - 1 \in 0..(MaxNonce + 1)
    BY WidthAssumption
  <2>2. h[1] = Forecast(n + 1 - 1, s, o, "normal", f, w)
    BY <1>2
  <2> HIDE DEF h
  <2> QED  BY <2>1, <2>2 DEF Forecast, Forecasts, Keyed
<1> HIDE DEF h, a
<1>4. \A i \in 1..c : Follows(a[i], h[i], h[i + 1])
  <2> TAKE i \in 1..c
  <2>1. PICK v \in 0..MaxNonce : v = n + i - 1 /\ v + 1 = n + (i + 1) - 1
    <3>1. n + i - 1 \in 0..MaxNonce /\ (n + i - 1) + 1 = n + (i + 1) - 1
      BY WidthAssumption
    <3> QED  BY <3>1
  <2>2. a[i] = Alloc(v) /\ h[i] = Forecast(v, s, o, "normal", f, w)
        /\ h[i + 1] = Forecast(v + 1, s, o, "normal", f, w)
    <3>1. i \in 1..(c + 1) /\ i + 1 \in 1..(c + 1)
      OBVIOUS
    <3> QED  BY <3>1, <2>1, <1>1, <1>2
  <2>3. Follows(Alloc(v), Forecast(v, s, o, "normal", f, w),
                Forecast(v + 1, s, o, "normal", f, w))
    BY FollowsAlloc
  <2> QED  BY <2>2, <2>3
<1>5. Runs(a, h[1], h[c + 1])
  BY <1>1, <1>2, <1>3, <1>4, RunSteps
<1>6. h[1] = Forecast(n, s, o, "normal", f, w) /\ h[c + 1] = Forecast(d, s, o, "normal", f, w)
  <2>1. n + 1 - 1 = n /\ n + (c + 1) - 1 = d /\ 1 \in 1..(c + 1) /\ c + 1 \in 1..(c + 1)
    OBVIOUS
  <2> QED  BY <2>1, <1>2
<1> QED  BY <1>5, <1>6 DEF a

(* The nonces from n on, observed under one key.                           *)
Seen(n, c) == {<<"key", n + i - 1>> : i \in 1..c}

(* The values of the first branch are new to a new detector.               *)
LEMMA RunObserves ==
    ASSUME NEW n \in Nat, NEW c \in Nat, NEW v \in 0..(MaxNonce + 1),
           NEW s \in 0..MaxNonce, NEW f \in BOOLEAN, NEW w \in BOOLEAN
    PROVE  Runs([i \in 1..c |-> Observe("key", n + i - 1, "Fresh")],
                Forecast(v, s, {}, "restored", f, w),
                Forecast(v, s, Seen(n, c), "restored", f, w))
<1> DEFINE h == [i \in 1..(c + 1) |-> Forecast(v, s, Seen(n, i - 1), "restored", f, w)]
           a == [i \in 1..c |-> Observe("key", n + i - 1, "Fresh")]
<1>0. Seen(n, 0) = {}
  BY DEF Seen
<1>1. /\ DOMAIN a = 1..c /\ a = [i \in 1..c |-> a[i]]
      /\ \A i \in 1..c : a[i] = Observe("key", n + i - 1, "Fresh")
  OBVIOUS
<1>2. /\ h = [i \in 1..(c + 1) |-> h[i]]
      /\ \A i \in 1..(c + 1) : h[i] = Forecast(v, s, Seen(n, i - 1), "restored", f, w)
  OBVIOUS
<1> HIDE DEF h, a
<1>6. h[1] = Forecast(v, s, {}, "restored", f, w)
      /\ h[c + 1] = Forecast(v, s, Seen(n, c), "restored", f, w)
  <2>1. 1 - 1 = 0 /\ (c + 1) - 1 = c /\ 1 \in 1..(c + 1) /\ c + 1 \in 1..(c + 1)
    OBVIOUS
  <2> QED  BY <2>1, <1>2, <1>0
<1>3. h[1] \in Forecasts
  BY <1>6 DEF Forecast, Forecasts
<1>4. \A i \in 1..c : Follows(a[i], h[i], h[i + 1])
  <2> TAKE i \in 1..c
  <2>1. PICK o, u, x : o = Seen(n, i - 1) /\ u = Seen(n, i) /\ x = n + i - 1
    OBVIOUS
  <2>2. o \in SUBSET Keyed /\ x \in Nat /\ <<"key", x>> \notin o /\ u = o \cup {<<"key", x>>}
    <3>1. o \in SUBSET Keyed /\ x \in Nat
      BY <2>1 DEF Seen, Keyed
    <3>2. \A j \in 1..(i - 1) : <<"key", n + j - 1>> # <<"key", x>>
      BY <2>1
    <3>3. <<"key", x>> \notin o
      BY <3>2, <2>1 DEF Seen
    <3>4. \A j : j \in 1..i <=> j \in 1..(i - 1) \/ j = i
      OBVIOUS
    <3>5. \A y : y \in u <=> y \in o \cup {<<"key", x>>}
      BY <3>4, <2>1, Zenon DEF Seen
    <3> QED  BY <3>1, <3>3, <3>5
  <2>3. a[i] = Observe("key", x, "Fresh") /\ h[i] = Forecast(v, s, o, "restored", f, w)
        /\ h[i + 1] = Forecast(v, s, u, "restored", f, w)
    <3>1. i \in 1..(c + 1) /\ i + 1 \in 1..(c + 1) /\ (i + 1) - 1 = i
      OBVIOUS
    <3> QED  BY <3>1, <2>1, <1>1, <1>2
  <2>4. Follows(Observe("key", x, "Fresh"), Forecast(v, s, o, "restored", f, w),
                Forecast(v, s, u, "restored", f, w))
    BY <2>2, FollowsObserve
  <2> QED  BY <2>3, <2>4
<1>5. Runs(a, h[1], h[c + 1])
  BY <1>1, <1>2, <1>3, <1>4, RunSteps
<1> QED  BY <1>5, <1>6 DEF a

(* The values of the first branch are drawn again, and are known.          *)
LEMMA RunReplays ==
    ASSUME NEW n \in 1..MaxNonce, NEW c \in Nat, n + c <= MaxNonce + 1,
           NEW f \in BOOLEAN, NEW w \in BOOLEAN
    PROVE  \E e : Runs([i \in 1..c |-> Replay(n + i - 1)],
                       Forecast(n, n, Seen(n, c), "restored", f, w), e)
<1>0. PICK o : o = Seen(n, c)
  OBVIOUS
<1> DEFINE mode(i) == IF i = 1 THEN "restored" ELSE "replayed"
           h == [i \in 1..(c + 1) |-> Forecast(n + i - 1, n, o, mode(i), f, w)]
           a == [i \in 1..c |-> Replay(n + i - 1)]
<1>1. /\ DOMAIN a = 1..c /\ a = [i \in 1..c |-> a[i]]
      /\ \A i \in 1..c : a[i] = Replay(n + i - 1)
  OBVIOUS
<1>2. /\ h = [i \in 1..(c + 1) |-> h[i]]
      /\ \A i \in 1..(c + 1) : h[i] = Forecast(n + i - 1, n, o, mode(i), f, w)
  OBVIOUS
<1> HIDE DEF h, a
<1>7. o \in SUBSET Keyed
  BY <1>0, WidthAssumption DEF Seen, Keyed
<1>6. h[1] = Forecast(n, n, o, "restored", f, w)
  <2>1. n + 1 - 1 = n /\ 1 \in 1..(c + 1) /\ mode(1) = "restored"
    BY WidthAssumption
  <2> HIDE DEF mode
  <2> QED  BY <2>1, <1>2
<1>3. h[1] \in Forecasts
  BY <1>6, <1>7, WidthAssumption DEF Forecast, Forecasts, Keyed
<1>4. \A i \in 1..c : Follows(a[i], h[i], h[i + 1])
  <2> TAKE i \in 1..c
  <2>1. PICK x, m : x = n + i - 1 /\ m = mode(i)
    OBVIOUS
  <2>2. /\ x \in 0..MaxNonce /\ n \in 1..x /\ m \in {"restored", "replayed"}
        /\ n \in 0..MaxNonce /\ <<"key", x>> \in o
    BY <2>1, <1>0, WidthAssumption DEF Seen
  <2>3. a[i] = Replay(x) /\ h[i] = Forecast(x, n, o, m, f, w)
        /\ h[i + 1] = Forecast(x + 1, n, o, "replayed", f, w)
    <3>1. /\ i \in 1..(c + 1) /\ i + 1 \in 1..(c + 1) /\ n + (i + 1) - 1 = x + 1
          /\ mode(i + 1) = "replayed"
      BY <2>1, WidthAssumption
    <3> HIDE DEF mode
    <3> QED  BY <3>1, <2>1, <1>1, <1>2
  <2>4. Follows(Replay(x), Forecast(x, n, o, m, f, w), Forecast(x + 1, n, o, "replayed", f, w))
    BY <2>2, <1>7, FollowsReplay
  <2> QED  BY <2>3, <2>4
<1>5. Runs(a, h[1], h[c + 1])
  BY <1>1, <1>2, <1>3, <1>4, RunSteps
<1> QED  BY <1>5, <1>6, <1>0 DEF a

-----------------------------------------------------------------------------
(* One more requirement.                                                   *)
LEMMA RunNext ==
    ASSUME NEW s, NEW x, NEW g, NEW e, NEW f, Runs(s, g, e), Follows(x, e, f)
    PROVE  Runs(s \o <<x>>, g, f)
  BY RunOne, RunJoin

(* A script of two requirements.                                          *)
LEMMA Run2 ==
    ASSUME NEW a, NEW b, NEW g, NEW e, NEW f,
           Runs(<<a>>, g, e), Follows(b, e, f)
    PROVE  Runs(<<a, b>>, g, f)
<1>1. <<a, b>> = <<a>> \o <<b>>
  <2>1. <<a>> \in Seq({a, b}) /\ <<b>> \in Seq({a, b}) /\ <<a, b>> \in Seq({a, b})
    OBVIOUS
  <2>2. PICK s : s = <<a>> \o <<b>>
    OBVIOUS
  <2>3. s \in Seq({a, b}) /\ Len(s) = 2 /\ s[1] = a /\ s[2] = b
    BY <2>1, <2>2
  <2>4. \A i \in 1..2 : s[i] = <<a, b>>[i]
    BY <2>3
  <2>5. s = <<a, b>>
    BY <2>1, <2>3, <2>4, SeqEqual
  <2> QED  BY <2>2, <2>5
<1> QED  BY <1>1, RunNext, Zenon

(* A script of three requirements.                                        *)
LEMMA Run3 ==
    ASSUME NEW a, NEW b, NEW c, NEW g, NEW e, NEW f,
           Runs(<<a, b>>, g, e), Follows(c, e, f)
    PROVE  Runs(<<a, b, c>>, g, f)
<1>1. <<a, b, c>> = <<a, b>> \o <<c>>
  OBVIOUS
<1> QED  BY <1>1, RunNext, Zenon

(* A script of four requirements.                                         *)
LEMMA Run4 ==
    ASSUME NEW a, NEW b, NEW c, NEW d, NEW g, NEW e, NEW f,
           Runs(<<a, b, c>>, g, e), Follows(d, e, f)
    PROVE  Runs(<<a, b, c, d>>, g, f)
<1>1. <<a, b, c, d>> = <<a, b, c>> \o <<d>>
  OBVIOUS
<1> QED  BY <1>1, RunNext, Zenon

(* A script of five requirements.                                         *)
LEMMA Run5 ==
    ASSUME NEW a, NEW b, NEW c, NEW d, NEW k, NEW g, NEW e, NEW f,
           Runs(<<a, b, c, d>>, g, e), Follows(k, e, f)
    PROVE  Runs(<<a, b, c, d, k>>, g, f)
<1>1. <<a, b, c, d, k>> = <<a, b, c, d>> \o <<k>>
  OBVIOUS
<1> QED  BY <1>1, RunNext, Zenon

(* A script of six requirements.                                          *)
LEMMA Run6 ==
    ASSUME NEW a, NEW b, NEW c, NEW d, NEW k, NEW l, NEW g, NEW e, NEW f,
           Runs(<<a, b, c, d, k>>, g, e), Follows(l, e, f)
    PROVE  Runs(<<a, b, c, d, k, l>>, g, f)
<1>1. <<a, b, c, d, k, l>> = <<a, b, c, d, k>> \o <<l>>
  OBVIOUS
<1> QED  BY <1>1, RunNext, Zenon

(* What the detector has seen after the first test.                        *)
FirstSeen == {<<"first", 7>>, <<"second", 7>>}

(* The test of the detector: a nonce is fresh once for each key.           *)
LEMMA RunDetector ==
    Runs(test_reuse_detector_and_xor, Forecast(0, 0, {}, "normal", TRUE, TRUE),
         Forecast(0, 0, FirstSeen, "normal", TRUE, TRUE))
<1> DEFINE one == {<<"first", 7>>}
           g(o) == Forecast(0, 0, o, "normal", TRUE, TRUE)
           d == [op |-> "detector"]
           o1 == Observe("first", 7, "Fresh")
           o2 == Observe("first", 7, "Reused")
           o3 == Observe("second", 7, "Fresh")
           n == [op |-> "observations", expect |-> 2]
           x == [op |-> "xor"]
<1>1. /\ 0 \in 0..MaxNonce /\ 0 \in 0..(MaxNonce + 1) /\ 7 \in Nat
      /\ one \in SUBSET Keyed /\ FirstSeen \in SUBSET Keyed /\ {} \in SUBSET Keyed
      /\ TRUE \in BOOLEAN /\ "normal" \in {"normal", "restored"}
  BY WidthAssumption DEF Keyed, FirstSeen
<1>2. Cardinality(FirstSeen) = 2
  <2>1. <<"first", 7>> # <<"second", 7>>
    OBVIOUS
  <2>2. PICK p, q : p = <<"first", 7>> /\ q = <<"second", 7>>
    OBVIOUS
  <2>3. FirstSeen = {p} \cup {q} /\ q \notin {p}
    BY <2>1, <2>2 DEF FirstSeen
  <2>4. IsFiniteSet({p}) /\ Cardinality({p}) = 1
    BY FS_Singleton
  <2>5. Cardinality({p} \cup {q}) = Cardinality({p}) + 1
    BY <2>3, <2>4, FS_AddElement, Zenon
  <2> QED  BY <2>3, <2>4, <2>5
<1>3. Follows(d, g({}), g({}))
  BY <1>1, FollowsDetector
<1>4. Follows(o1, g({}), g(one))
  BY <1>1, FollowsObserve
<1>5. Follows(o2, g(one), g(one))
  <2>1. "Reused" = IF <<"first", 7>> \in one THEN "Reused" ELSE "Fresh"
    OBVIOUS
  <2>2. one = one \cup {<<"first", 7>>}
    OBVIOUS
  <2> HIDE DEF one
  <2> QED  BY <2>1, <2>2, <1>1, FollowsObserve
<1>6. Follows(o3, g(one), g(FirstSeen))
  <2>1. "Fresh" = IF <<"second", 7>> \in one THEN "Reused" ELSE "Fresh"
    OBVIOUS
  <2>2. FirstSeen = one \cup {<<"second", 7>>}
    BY DEF FirstSeen
  <2> HIDE DEF one
  <2> QED  BY <2>1, <2>2, <1>1, FollowsObserve
<1>7. Follows(n, g(FirstSeen), g(FirstSeen))
  BY <1>1, <1>2, FollowsObservations
<1>8. Follows(x, g(FirstSeen), g(FirstSeen))
  BY <1>1, FollowsXor
<1>9. test_reuse_detector_and_xor = <<d, o1, o2, o3, n, x>>
  BY DEF test_reuse_detector_and_xor
<1> HIDE DEF d, o1, o2, o3, n, x, g, one
<1>10. Runs(<<d, o1>>, g({}), g(one))
  BY <1>3, <1>4, RunOne, Run2, Zenon
<1>11. Runs(<<d, o1, o2>>, g({}), g(one))
  BY <1>10, <1>5, Run3, Zenon
<1>12. Runs(<<d, o1, o2, o3>>, g({}), g(FirstSeen))
  BY <1>11, <1>6, Run4, Zenon
<1>13. Runs(<<d, o1, o2, o3, n>>, g({}), g(FirstSeen))
  BY <1>12, <1>7, Run5, Zenon
<1>14. Runs(<<d, o1, o2, o3, n, x>>, g({}), g(FirstSeen))
  BY <1>13, <1>8, Run6, Zenon
<1> QED  BY <1>9, <1>14 DEF g

(* Restarts, a call with another scope, and one more restart.              *)
LEMMA RunRestart ==
    ASSUME NEW v \in 0..(MaxNonce + 1), NEW o \in SUBSET Keyed, NEW f \in BOOLEAN
    PROVE  Runs(test_restart_and_scope, Forecast(v, 0, o, "normal", f, TRUE),
                Forecast(Rounds + 1, 0, o, "normal", TRUE, TRUE))
<1> DEFINE g(n) == Forecast(n, 0, o, "normal", TRUE, TRUE)
           s == Forecast(v, 0, o, "normal", f, TRUE)
<1>1. /\ Rounds \in 0..MaxNonce /\ Rounds \in 1..(MaxNonce + 1) /\ Rounds \in Nat
      /\ 0 + Rounds = Rounds /\ Rounds <= MaxNonce + 1 /\ 0 \in 0..MaxNonce
      /\ TRUE \in BOOLEAN
  BY WidthAssumption
<1>2. Follows(Path, s, g(0))
  BY <1>1, FollowsPath
<1>3. Runs(Allocs(0, Rounds), g(0), g(Rounds))
  BY <1>1, RunAllocs
<1>4. Follows(Refuse, g(Rounds), g(Rounds))
  BY <1>1, FollowsRefuse
<1>5. Follows(Alloc(Rounds), g(Rounds), g(Rounds + 1))
  BY <1>1, FollowsAlloc
<1>6. test_restart_and_scope = (<<Path>> \o Allocs(0, Rounds)) \o <<Refuse, Alloc(Rounds)>>
  BY Zenon DEF test_restart_and_scope
<1> HIDE DEF g, s
<1>7. Runs(<<Path>> \o Allocs(0, Rounds), s, g(Rounds))
  BY <1>2, <1>3, RunOne, RunJoin, Zenon
<1>8. Runs(<<Refuse, Alloc(Rounds)>>, g(Rounds), g(Rounds + 1))
  BY <1>4, <1>5, RunOne, Run2, Zenon
<1>9. Runs(test_restart_and_scope, s, g(Rounds + 1))
  BY <1>6, <1>7, <1>8, RunJoin, Zenon
<1> QED  BY <1>9 DEF g, s

(* A process dies at a point: its value is lost after the replacement.     *)
LEMMA RunCrash ==
    ASSUME NEW v \in 0..(MaxNonce + 1), NEW o \in SUBSET Keyed, NEW f \in BOOLEAN,
           NEW q \in Counter!Holding
    PROVE  \E n \in 0..(MaxNonce + 1) :
              Runs(test_crash_point(q), Forecast(v, 0, o, "normal", f, TRUE),
                   Forecast(n, 0, o, "normal", FALSE, TRUE))
<1> DEFINE g(n, c) == Forecast(n, 0, o, "normal", c, TRUE)
           s == Forecast(v, 0, o, "normal", f, TRUE)
           x == [op |-> "crash", point |-> q]
<1>0. PICK r : r = IF q \in {"replaced", "durable"} THEN 2 ELSE 1
  OBVIOUS
<1>1. /\ 0 \in 0..MaxNonce /\ 1 \in 0..MaxNonce /\ 0 + 1 = 1 /\ r \in 0..MaxNonce
      /\ r + 1 \in 0..(MaxNonce + 1) /\ TRUE \in BOOLEAN /\ FALSE \in BOOLEAN
      /\ r = IF q \in {"replaced", "durable"} THEN 1 + 1 ELSE 1
  BY <1>0, WidthAssumption
<1>2. Follows(Path, s, g(0, TRUE))
  BY <1>1, FollowsPath
<1>3. Follows(Alloc(0), g(0, TRUE), g(1, TRUE))
  BY <1>1, FollowsAlloc
<1>4. Follows(x, g(1, TRUE), g(r, FALSE))
  BY <1>1, FollowsCrash
<1>5. Follows(Alloc(r), g(r, FALSE), g(r + 1, FALSE))
  BY <1>1, FollowsAlloc
<1>6. test_crash_point(q) = <<Path, Alloc(0), x, Alloc(r)>>
  BY <1>0, Zenon DEF test_crash_point
<1> HIDE DEF g, s, x
<1>7. Runs(<<Path, Alloc(0)>>, s, g(1, TRUE))
  BY <1>2, <1>3, RunOne, Run2, Zenon
<1>8. Runs(<<Path, Alloc(0), x>>, s, g(r, FALSE))
  BY <1>7, <1>4, Run3, Zenon
<1>9. Runs(<<Path, Alloc(0), x, Alloc(r)>>, s, g(r + 1, FALSE))
  BY <1>8, <1>5, Run4, Zenon
<1> QED  BY <1>1, <1>6, <1>9 DEF g, s

(* The number of values the workers draw.                                  *)
LEMMA TotalType == Cardinality(Workers) * PerWorker \in 0..MaxNonce
<1>1. Cardinality(Workers) \in Nat
  BY ProcessAssumption, FS_CardinalityType
<1>2. \A a, b \in Nat : a * b \in Nat
  OBVIOUS
<1> QED  BY <1>1, <1>2, WidthAssumption

(* The workers draw the first values of a path.                            *)
LEMMA RunMultiprocess ==
    ASSUME NEW v \in 0..(MaxNonce + 1), NEW o \in SUBSET Keyed, NEW f \in BOOLEAN
    PROVE  \E n \in 0..(MaxNonce + 1) :
              Runs(test_multiprocess, Forecast(v, 0, o, "normal", f, TRUE),
                   Forecast(n, 0, o, "normal", FALSE, FALSE))
<1> DEFINE s == Forecast(v, 0, o, "normal", f, TRUE)
           g == Forecast(0, 0, o, "normal", TRUE, TRUE)
           e(n) == Forecast(n, 0, o, "normal", FALSE, FALSE)
           x == [op |-> "workers"]
<1>0. PICK t : t = Cardinality(Workers) * PerWorker
  OBVIOUS
<1>1. /\ t \in 0..MaxNonce /\ t \in Nat /\ t + 1 \in 0..(MaxNonce + 1) /\ 0 \in 0..MaxNonce
      /\ TRUE \in BOOLEAN /\ FALSE \in BOOLEAN
  BY <1>0, TotalType, WidthAssumption
<1>2. Follows(Path, s, g)
  BY <1>1, FollowsPath
<1>3. Follows(x, g, e(t))
  BY <1>0, <1>1, FollowsWorkers
<1>4. Follows(Alloc(t), e(t), e(t + 1))
  BY <1>1, FollowsAlloc
<1>5. test_multiprocess = <<Path, x, Alloc(t)>>
  BY <1>0, Zenon DEF test_multiprocess
<1> HIDE DEF s, g, e, x
<1>6. Runs(<<Path, x>>, s, e(t))
  BY <1>2, <1>3, RunOne, Run2, Zenon
<1>7. Runs(<<Path, x, Alloc(t)>>, s, e(t + 1))
  BY <1>6, <1>4, Run3, Zenon
<1> QED  BY <1>1, <1>5, <1>7 DEF s, e

(* A branch, the snapshot restored, and the branch again.                  *)
LEMMA RunRollback ==
    ASSUME NEW v \in 0..(MaxNonce + 1), NEW o \in SUBSET Keyed
    PROVE  \E e : Runs(test_snapshot_rollback, Forecast(v, 0, o, "normal", FALSE, FALSE), e)
<1> DEFINE s == Forecast(v, 0, o, "normal", FALSE, FALSE)
           g(n, c) == Forecast(n, c, o, "normal", TRUE, FALSE)
           k(n, p) == Forecast(n, n, p, "restored", TRUE, FALSE)
           R == Rounds
           copy == [op |-> "copy"]
           restore == [op |-> "restore"]
           detector == [op |-> "detector"]
           observes == [i \in 1..R |-> Observe("key", R + i - 1, "Fresh")]
           replays == [i \in 1..R |-> Replay(R + i - 1)]
<1>1. /\ R \in 0..MaxNonce /\ R \in 1..MaxNonce /\ R \in Nat /\ 0 + R = R
      /\ R <= MaxNonce + 1 /\ 0 \in 0..MaxNonce /\ R + R <= MaxNonce + 1
      /\ R + R \in 0..(MaxNonce + 1) /\ R \in 0..(MaxNonce + 1)
      /\ TRUE \in BOOLEAN /\ FALSE \in BOOLEAN /\ "restored" \in {"normal", "restored"}
  BY WidthAssumption
<1>2. Follows(Path, s, g(0, 0))
  BY <1>1, FollowsPath
<1>3. Runs(Allocs(0, R), g(0, 0), g(R, 0))
  BY <1>1, RunAllocs
<1>4. Follows(copy, g(R, 0), g(R, R))
  BY <1>1, FollowsCopy
<1>5. Runs(Allocs(R, R), g(R, R), g(R + R, R))
  BY <1>1, RunAllocs
<1>6. Follows(restore, g(R + R, R), k(R, o))
  BY <1>1, FollowsRestore
<1>7. Follows(detector, k(R, o), k(R, {}))
  BY <1>1, FollowsDetector
<1>8. Runs(observes, k(R, {}), k(R, Seen(R, R)))
  BY <1>1, RunObserves
<1>9. PICK e : Runs(replays, k(R, Seen(R, R)), e)
  <2>1. \E e : Runs([i \in 1..R |-> Replay(R + i - 1)],
                    Forecast(R, R, Seen(R, R), "restored", TRUE, FALSE), e)
    BY <1>1, RunReplays
  <2> QED  BY <2>1
<1>10. test_snapshot_rollback =
          ((((((<<Path>> \o Allocs(0, R)) \o <<copy>>) \o Allocs(R, R))
             \o <<restore, detector>>) \o observes) \o replays)
  BY Zenon DEF test_snapshot_rollback
<1> HIDE DEF s, g, k, R, copy, restore, detector, observes, replays
<1>11. Runs(<<Path>> \o Allocs(0, R), s, g(R, 0))
  BY <1>2, <1>3, RunOne, RunJoin, Zenon
<1>12. Runs((<<Path>> \o Allocs(0, R)) \o <<copy>>, s, g(R, R))
  BY <1>11, <1>4, RunNext, Zenon
<1>13. Runs(((<<Path>> \o Allocs(0, R)) \o <<copy>>) \o Allocs(R, R), s, g(R + R, R))
  BY <1>12, <1>5, RunJoin, Zenon
<1>14. Runs(<<restore, detector>>, g(R + R, R), k(R, {}))
  BY <1>6, <1>7, RunOne, Run2, Zenon
<1>15. Runs((((<<Path>> \o Allocs(0, R)) \o <<copy>>) \o Allocs(R, R))
               \o <<restore, detector>>, s, k(R, {}))
  BY <1>13, <1>14, RunJoin, Zenon
<1>16. Runs(((((<<Path>> \o Allocs(0, R)) \o <<copy>>) \o Allocs(R, R))
               \o <<restore, detector>>) \o observes, s, k(R, Seen(R, R)))
  BY <1>15, <1>8, RunJoin, Zenon
<1>17. Runs(test_snapshot_rollback, s, e)
  BY <1>16, <1>9, <1>10, RunJoin, Zenon
<1> QED  BY <1>17 DEF s

-----------------------------------------------------------------------------
(* Every requirement of main is met where its turn comes.                  *)
LEMMA RunMain == \E e : Runs(main, Start, e)
<1> DEFINE g(n, f) == Forecast(n, 0, FirstSeen, "normal", f, TRUE)
           w(n) == Forecast(n, 0, FirstSeen, "normal", FALSE, FALSE)
           N == 0..(MaxNonce + 1)
           t0 == <<[op |-> "directory"]>>
           t1 == test_reuse_detector_and_xor
           t2 == test_restart_and_scope
           c(i) == test_crash_point(Points[i])
           t4 == test_multiprocess
           t5 == test_snapshot_rollback
<1>0. /\ FirstSeen \in SUBSET Keyed /\ TRUE \in BOOLEAN /\ FALSE \in BOOLEAN
      /\ 0 \in N /\ Rounds + 1 \in N
  BY WidthAssumption DEF FirstSeen, Keyed
<1>1. Start = Forecast(0, 0, {}, "normal", TRUE, TRUE)
  BY DEF Start, Forecast
<1>2. Runs(t0 \o t1, Start, g(0, TRUE))
  <2>1. 0 \in 0..MaxNonce /\ {} \in SUBSET Keyed /\ "normal" \in {"normal", "restored"}
    BY WidthAssumption
  <2>2. Follows([op |-> "directory"], Start, Start)
    BY <1>0, <1>1, <2>1, FollowsDirectory
  <2>3. Runs(t0, Start, Start)
    BY <2>2, RunOne
  <2>4. Runs(t1, Start, g(0, TRUE))
    BY <1>1, RunDetector
  <2> HIDE DEF t0, t1, g
  <2> QED  BY <2>3, <2>4, RunJoin, Zenon
<1>3. Runs(t2, g(0, TRUE), g(Rounds + 1, TRUE))
  BY <1>0, RunRestart
<1>4. \A i \in 1..4 : Points[i] \in Counter!Holding
  BY DEF Points, Counter!Holding
<1>5. \A i \in 1..4, n \in N, f \in BOOLEAN : \E m \in N : Runs(c(i), g(n, f), g(m, FALSE))
  <2> TAKE i \in 1..4, n \in N, f \in BOOLEAN
  <2>1. PICK q \in Counter!Holding : q = Points[i]
    BY <1>4
  <2> QED  BY <2>1, <1>0, RunCrash
<1>6. \A n \in N : \E m \in N : Runs(t4, g(n, FALSE), w(m))
  BY <1>0, RunMultiprocess
<1>7. \A n \in N : \E e : Runs(t5, w(n), e)
  BY <1>0, RunRollback
<1>8. main = ((((((((t0 \o t1) \o t2) \o c(1)) \o c(2)) \o c(3)) \o c(4)) \o t4) \o t5)
  BY Zenon DEF main
<1>9. 1 \in 1..4 /\ 2 \in 1..4 /\ 3 \in 1..4 /\ 4 \in 1..4
  OBVIOUS
<1> HIDE DEF g, w, N, t0, t1, t2, c, t4, t5
<1>10. PICK n1 \in N : Runs(c(1), g(Rounds + 1, TRUE), g(n1, FALSE))
  BY <1>0, <1>5, <1>9, Zenon
<1>11. PICK n2 \in N : Runs(c(2), g(n1, FALSE), g(n2, FALSE))
  BY <1>0, <1>5, <1>9, Zenon
<1>12. PICK n3 \in N : Runs(c(3), g(n2, FALSE), g(n3, FALSE))
  BY <1>0, <1>5, <1>9, Zenon
<1>13. PICK n4 \in N : Runs(c(4), g(n3, FALSE), g(n4, FALSE))
  BY <1>0, <1>5, <1>9, Zenon
<1>14. PICK n5 \in N : Runs(t4, g(n4, FALSE), w(n5))
  BY <1>6, Zenon
<1>15. PICK e : Runs(t5, w(n5), e)
  BY <1>7, Zenon
<1>16. Runs(((t0 \o t1) \o t2) \o c(1), Start, g(n1, FALSE))
  <2>1. Runs((t0 \o t1) \o t2, Start, g(Rounds + 1, TRUE))
    BY <1>2, <1>3, RunJoin, Zenon
  <2> QED  BY <2>1, <1>10, RunJoin, Zenon
<1>17. Runs((((t0 \o t1) \o t2) \o c(1)) \o c(2), Start, g(n2, FALSE))
  BY <1>16, <1>11, RunJoin, Zenon
<1>18. Runs(((((t0 \o t1) \o t2) \o c(1)) \o c(2)) \o c(3), Start, g(n3, FALSE))
  BY <1>17, <1>12, RunJoin, Zenon
<1>19. Runs((((((t0 \o t1) \o t2) \o c(1)) \o c(2)) \o c(3)) \o c(4), Start, g(n4, FALSE))
  BY <1>18, <1>13, RunJoin, Zenon
<1>20. Runs(((((((t0 \o t1) \o t2) \o c(1)) \o c(2)) \o c(3)) \o c(4)) \o t4, Start, w(n5))
  BY <1>19, <1>14, RunJoin, Zenon
<1> QED  BY <1>8, <1>15, <1>20, RunJoin, Zenon

-----------------------------------------------------------------------------
(* A set of numbers has a least element.                                   *)
LEMMA LeastNumber ==
    ASSUME NEW S \in SUBSET Nat, S # {}
    PROVE  \E x \in S : \A m \in S : x <= m
<1> DEFINE R == {p \in Nat \X Nat : p[1] < p[2]}
<1>1. IsWellFoundedOn(R, Nat)
  BY NatLessThanWellFounded DEF OpToRel
<1>2. \A a, b \in Nat : a < b => <<a, b>> \in R
  OBVIOUS
<1> HIDE DEF R
<1>3. PICK x \in S : \A y \in S : ~ (<<y, x>> \in R)
  BY <1>1, WFMin
<1>4. ASSUME NEW m \in S
      PROVE  x <= m
  <2>1. m \in Nat /\ x \in Nat /\ ~ (m < x)
    BY <1>2, <1>3
  <2> QED  BY <2>1
<1> QED  BY <1>4

(* The plan goes through main, and meets each of its requirements.         *)
LEMMA PlanFacts ==
    /\ \E S : main \in Seq(S)
    /\ Len(main) \in Nat
    /\ Plan[1] = Start
    /\ \A k \in 1..(Len(main) + 1) : Plan[k] \in Forecasts
    /\ \A k \in 1..Len(main) : Follows(main[k], Plan[k], Plan[k + 1])
<1>1. PICK e : Runs(main, Start, e)
  BY RunMain
<1>2. PICK S : main \in Seq(S)
  BY <1>1, Zenon DEF Runs
<1>3. PICK h : /\ h \in [1..(Len(main) + 1) -> Forecasts]
               /\ h[1] = Start
               /\ \A i \in 1..Len(main) : Follows(main[i], h[i], h[i + 1])
  BY <1>1, Zenon DEF Runs
<1> DEFINE N == 1..(Len(main) + 1)
<1>4. Len(main) \in Nat
  BY <1>2, LenProperties
<1>5. \A k \in N : h[k] = IF k = 1 THEN Start ELSE After(main[k - 1], h[k - 1])
  <2> TAKE k \in N
  <2>1. CASE k = 1
    BY <2>1, <1>3
  <2>2. CASE k # 1
    <3>1. PICK j \in 1..Len(main) : j = k - 1 /\ k = j + 1
      <4>1. k - 1 \in 1..Len(main) /\ k = (k - 1) + 1
        BY <2>2, <1>4
      <4> QED  BY <4>1
    <3> QED  BY <3>1, <2>2, <1>3 DEF Follows
  <2> QED  BY <2>1, <2>2
<1>6. h = [k \in N |-> h[k]]
  BY <1>3
<1>7. h = [k \in 1..(Len(main) + 1) |->
             IF k = 1 THEN Start ELSE After(main[k - 1], h[k - 1])]
  BY <1>5, <1>6
<1>8. Plan = [k \in 1..(Len(main) + 1) |->
                IF k = 1 THEN Start ELSE After(main[k - 1], Plan[k - 1])]
  <2> HIDE DEF Plan
  <2> QED  BY <1>7, Zenon DEF Plan
<1> HIDE DEF Plan
<1>9. \A k \in N : Plan[k] = h[k]
  <2> SUFFICES ASSUME {k \in N : Plan[k] # h[k]} # {} PROVE FALSE
    OBVIOUS
  <2> DEFINE D == {k \in N : Plan[k] # h[k]}
  <2>1. D \in SUBSET Nat
    BY <1>4
  <2> HIDE DEF D
  <2>2. PICK k \in D : \A m \in D : k <= m
    BY <2>1, LeastNumber DEF D
  <2>3. k \in N /\ Plan[k] # h[k]
    BY <2>2 DEF D
  <2>4. Plan[k] = IF k = 1 THEN Start ELSE After(main[k - 1], Plan[k - 1])
    BY <2>3, <1>8
  <2>5. CASE k = 1
    BY <2>3, <2>4, <2>5, <1>3
  <2>6. CASE k # 1
    <3>1. k - 1 \in N /\ ~ (k <= k - 1)
      BY <2>3, <2>6, <1>4
    <3>2. Plan[k - 1] = h[k - 1]
      BY <3>1, <2>2 DEF D
    <3> QED  BY <3>2, <2>3, <2>4, <2>6, <1>5
  <2> QED  BY <2>5, <2>6
<1>10. \A k \in 1..Len(main) : k \in N /\ k + 1 \in N
  BY <1>4
<1>11. 1 \in N
  BY <1>4
<1> HIDE DEF N
<1>12. \A k \in N : Plan[k] \in Forecasts
  BY <1>3, <1>9 DEF N
<1> QED  BY <1>2, <1>3, <1>4, <1>9, <1>10, <1>11, <1>12 DEF N

-----------------------------------------------------------------------------
(* The elements of an end of a sequence.                                   *)
LEMMA SuffixAt ==
    ASSUME NEW S, NEW m \in Seq(S), NEW q \in 1..Len(m), NEW i \in Nat \ {0},
           q + i - 1 <= Len(m)
    PROVE  SubSeq(m, q, Len(m))[i] = m[q + i - 1]
  OBVIOUS

(* What is left of main has a forecast, which meets its first requirement. *)
LEMMA PlaceFacts ==
    ASSUME NEW s, NEW q, Len(s) \in 0..Len(main), q = Len(main) - Len(s) + 1,
           s = SubSeq(main, q, Len(main))
    PROVE  /\ q \in 1..(Len(main) + 1)
           /\ \E S : s \in Seq(S)
           /\ Plan[q] \in Forecasts
           /\ s # <<>> => /\ q \in 1..Len(main)
                          /\ s[1] = main[q]
                          /\ Met(s[1], Plan[q])
<1>1. PICK S : main \in Seq(S)
  BY PlanFacts
<1>2. Len(main) \in Nat
  BY PlanFacts
<1>3. q \in 1..(Len(main) + 1)
  <2>1. \A n \in Nat : \A m \in 0..n : n - m + 1 \in 1..(n + 1)
    OBVIOUS
  <2> QED  BY <2>1, <1>2, Zenon
<1>4. Plan[q] \in Forecasts
  BY <1>3, PlanFacts
<1>6. s \in Seq(S)
  <2> HIDE DEF main
  <2> QED  BY <1>1, <1>2, <1>3
<1>7. ASSUME s # <<>>
      PROVE  /\ q \in 1..Len(main)
             /\ s[1] = main[q]
             /\ Met(s[1], Plan[q])
  <2> HIDE DEF main
  <2>1. Len(s) # 0
    BY <1>6, <1>7
  <2>2. q \in 1..Len(main)
    BY <2>1, <1>2, <1>3
  <2>3. s[1] = main[q]
    <3>1. SubSeq(main, q, Len(main))[1] = main[q]
      <4>1. q + 1 - 1 <= Len(main) /\ q + 1 - 1 = q
        BY <1>2, <2>2
      <4>2. SubSeq(main, q, Len(main))[1] = main[q + 1 - 1]
        <5>1. 1 \in Nat \ {0}
          OBVIOUS
        <5>2. q + 1 - 1 <= Len(main)
          BY <4>1
        <5> QED  BY <5>1, <5>2, <1>1, <2>2, SuffixAt, Zenon
      <4> QED  BY <4>1, <4>2, Zenon
    <3> QED  BY <3>1, Zenon
  <2>4. Met(main[q], Plan[q])
    BY <2>2, PlanFacts DEF Follows
  <2> QED  BY <2>2, <2>3, <2>4
<1> QED  BY <1>3, <1>4, <1>6, <1>7

(* What is left of the script is foreseen.                                 *)
LEMMA ScriptFacts ==
    ASSUME ScriptInv
    PROVE  /\ Foreseen \in Forecasts
           /\ \E S : script \in Seq(S)
           /\ script # <<>> => Met(script[1], Foreseen)
<1>1. /\ Len(script) \in 0..Len(main) /\ Place = Len(main) - Len(script) + 1
      /\ script = SubSeq(main, Place, Len(main))
  BY DEF ScriptInv, Place
<1> HIDE DEF main, Place
<1> QED  BY <1>1, PlaceFacts DEF Foreseen

(* The same of the next state.                                             *)
LEMMA NextScriptFacts ==
    ASSUME ScriptInv'
    PROVE  /\ Foreseen' \in Forecasts
           /\ script' # <<>> => Met(script'[1], Foreseen')
<1>1. PICK s, q : s = script' /\ q = Place'
  OBVIOUS
<1>2. /\ Len(s) \in 0..Len(main) /\ q = Len(main) - Len(s) + 1
      /\ s = SubSeq(main, q, Len(main))
  BY <1>1 DEF ScriptInv, Place
<1>3. Foreseen' = Plan[q]
  BY <1>1 DEF Foreseen
<1> HIDE DEF main, Place
<1>4. Plan[q] \in Forecasts /\ (s # <<>> => Met(s[1], Plan[q]))
  BY <1>2, PlaceFacts
<1> QED  BY <1>1, <1>3, <1>4

(* A requirement is met: the script moves on, and so does the plan.        *)
LEMMA Advance ==
    ASSUME ScriptInv, script # <<>>, script' = Tail(script)
    PROVE  /\ ScriptInv'
           /\ Foreseen' = After(script[1], Foreseen)
<1>1. PICK S : main \in Seq(S)
  BY PlanFacts
<1>2. PICK q, p : q = Place /\ p = Place'
  OBVIOUS
<1>3. /\ Len(main) \in Nat /\ Len(script) \in 0..Len(main)
      /\ q = Len(main) - Len(script) + 1 /\ p = Len(main) - Len(script') + 1
      /\ script = SubSeq(main, q, Len(main))
  BY <1>2, PlanFacts DEF ScriptInv, Place
<1> HIDE DEF main, Place
<1>4. q \in 1..Len(main) /\ script[1] = main[q]
  BY <1>3, PlaceFacts
<1>5. script \in Seq(S)
  BY <1>1, <1>3, <1>4
<1>6. /\ Len(script') = Len(script) - 1
      /\ script' \in Seq(S)
      /\ \A i \in 1..Len(script') : script'[i] = script[i + 1]
  BY <1>5
<1>7. p = q + 1 /\ Len(script') \in 0..Len(main) /\ p \in 1..(Len(main) + 1)
  <2>1. \A n \in Nat : \A m \in 0..n : \A c \in Nat :
           c = m - 1 => /\ n - c + 1 = (n - m + 1) + 1 /\ c \in 0..n
                        /\ n - c + 1 \in 1..(n + 1)
    OBVIOUS
  <2>2. Len(script') \in Nat
    BY <1>6, LenProperties
  <2> QED  BY <2>1, <2>2, <1>3, <1>6, Zenon
<1>8. script' = SubSeq(main, p, Len(main))
  <2>1. SubSeq(main, p, Len(main)) \in Seq(S) /\ Len(SubSeq(main, p, Len(main))) = Len(script')
    BY <1>1, <1>3, <1>7
  <2>2. \A i \in 1..Len(script') : script'[i] = SubSeq(main, p, Len(main))[i]
    <3> TAKE i \in 1..Len(script')
    <3>1. i + 1 \in 1..Len(script) /\ i \in Nat
      BY <1>3, <1>6
    <3>2. SubSeq(main, p, Len(main))[i] = main[p + i - 1]
      <4>1. p \in 1..Len(main) /\ p + i - 1 <= Len(main)
        <5>1. \A n \in Nat : \A m \in 0..n : \A j \in 1..m :
                 (n - m + 1) + j - 1 <= n /\ n - m + 1 \in 1..n
          OBVIOUS
        <5> QED  BY <5>1, <3>1, <1>3, <1>7, Zenon
      <4> QED  BY <4>1, <3>1, <1>1, SuffixAt
    <3>3. SubSeq(main, q, Len(main))[i + 1] = main[q + (i + 1) - 1]
      <4>1. q + (i + 1) - 1 <= Len(main)
        <5>1. \A n \in Nat : \A m \in 0..n : \A j \in 1..m : (n - m + 1) + j - 1 <= n
          OBVIOUS
        <5> QED  BY <5>1, <3>1, <1>3, Zenon
      <4> QED  BY <4>1, <3>1, <1>1, <1>4, SuffixAt
    <3>4. p + i - 1 = q + (i + 1) - 1
      BY <1>4, <1>7, <3>1
    <3> QED  BY <3>1, <3>2, <3>3, <3>4, <1>3, <1>6, Zenon
  <2> QED  BY <1>6, <2>1, <2>2, SeqEqual
<1>9. ScriptInv'
  BY <1>2, <1>7, <1>8 DEF ScriptInv, main
<1>10. Follows(main[q], Plan[q], Plan[q + 1])
  BY <1>4, PlanFacts
<1>11. Foreseen' = Plan[q + 1] /\ Foreseen = Plan[q]
  BY <1>2, <1>7 DEF Foreseen
<1> QED  BY <1>4, <1>9, <1>10, <1>11 DEF Follows

-----------------------------------------------------------------------------
(* The record from which the next call draws n.                            *)
Drawing(n) == [scope |-> Scope, next |-> n, exhausted |-> FALSE]

(* What load_state makes of the content of the state file.                 *)
LEMMA FileFacts ==
    ASSUME NEW n \in 0..(MaxNonce + 1)
    PROVE  /\ FileAt(n) \in Counter!Contents
           /\ Counter!Floor(FileAt(n)) = n
           /\ Counter!Readable(FileAt(n), Scope)
           /\ n > 0 => /\ ~ Counter!Readable(FileAt(n), OtherScope)
                       /\ FileAt(n) \notin {NoFile, Torn} /\ FileAt(n).scope = Scope
           /\ n <= MaxNonce => Counter!Resolve(FileAt(n), Scope) = Drawing(n)
           /\ n > MaxNonce => Counter!Resolve(FileAt(n), Scope).exhausted
<1>1. CASE n = 0
  <2>1. FileAt(n) = NoFile
    BY <1>1 DEF FileAt
  <2> QED  BY <1>1, <2>1, WidthAssumption DEF Counter!Contents, Counter!Floor, Counter!Readable,
              Counter!Resolve, Counter!Initial, Drawing
<1>2. CASE n # 0
  <2>1. PICK c : c = FileAt(n)
    OBVIOUS
  <2>2. c = [scope |-> Scope, next |-> IF n > MaxNonce THEN MaxNonce ELSE n,
             exhausted |-> n > MaxNonce]
    BY <1>2, <2>1 DEF FileAt
  <2>3. c \in Counter!CounterState /\ c.scope = Scope
    <3>1. (IF n > MaxNonce THEN MaxNonce ELSE n) \in 0..MaxNonce /\ (n > MaxNonce) \in BOOLEAN
      BY WidthAssumption
    <3> QED  BY <2>2, <3>1 DEF Counter!CounterState
  <2>4. c # NoFile /\ c # Torn
    BY <2>3, RecordAssumption
  <2>5. n > MaxNonce => n = MaxNonce + 1
    BY WidthAssumption
  <2>6. n > MaxNonce => c.exhausted
    BY <2>2
  <2>7. n <= MaxNonce => c = Drawing(n) /\ ~ c.exhausted /\ c.next = n
    <3>1. n <= MaxNonce => (n > MaxNonce) = FALSE
      BY WidthAssumption
    <3>2. n <= MaxNonce => c = [scope |-> Scope, next |-> n, exhausted |-> FALSE]
      BY <2>2, <3>1, Zenon
    <3> QED  BY <3>2 DEF Drawing
  <2>8. Counter!Floor(c) = n
    BY <2>4, <2>5, <2>6, <2>7, WidthAssumption DEF Counter!Floor
  <2> QED  BY <2>1, <2>3, <2>4, <2>6, <2>7, <2>8, RecordAssumption
           DEF Counter!Contents, Counter!Data, Counter!Readable, Counter!Resolve
<1> QED  BY <1>1, <1>2

(* The record allocate persists.                                           *)
LEMMA UpdatedFile ==
    ASSUME NEW n \in 0..MaxNonce
    PROVE  Counter!Updated(Drawing(n)) = FileAt(n + 1)
  BY WidthAssumption DEF Counter!Updated, Drawing, FileAt

(* The counter of a state file.                                            *)
LEMMA FloorRange ==
    ASSUME NEW c \in Counter!Contents
    PROVE  Counter!Floor(c) \in 0..(MaxNonce + 1)
  BY WidthAssumption, RecordAssumption
     DEF Counter!Floor, Counter!CounterState, Counter!Contents, Counter!Data

-----------------------------------------------------------------------------
(* What the invariant says of the counter, and of whoever holds the lock.  *)
LEMMA HolderFacts ==
    ASSUME CampaignInv
    PROVE  /\ Value \in 0..(MaxNonce + 1)
           /\ Settled \in 0..(MaxNonce + 1)
           /\ state = FileAt(Value)
           /\ lock = Nobody => Settled = Value
           /\ \A p \in Procs :
                 /\ pc[p] \in Counter!Holding <=> lock = p
                 /\ pc[p] \in Counter!Holding \ Counter!Committed => Settled = Value
                 /\ pc[p] \in Counter!Holding \ {"locked"} =>
                       Settled \in 0..MaxNonce /\ cur[p] = Drawing(Settled)
                 /\ pc[p] \in Counter!Committed => Value = Settled + 1
<1>1. state \in Counter!Contents
  BY DEF CampaignInv, TypeOK
<1>2. Value \in 0..(MaxNonce + 1)
  BY <1>1, FloorRange DEF Value
<1>3. state = FileAt(Value)
  BY DEF CampaignInv, HoldInv
<1>4. \A p \in Procs : pc[p] \in Counter!Holding <=> lock = p
  BY DEF CampaignInv, Counter!LockInv
<1>5. lock = Nobody => Settled = Value
  BY DEF Settled
<1>6. ASSUME NEW p \in Procs, pc[p] \in Counter!Holding \ {"locked"}
      PROVE  Settled \in 0..MaxNonce /\ cur[p] = Drawing(Settled)
  <2>1. cur[p] = Drawing(Settled) /\ cur[p] \in Counter!CounterState
    BY <1>6 DEF CampaignInv, HoldInv, TypeOK, Drawing
  <2>2. Drawing(Settled).next = Settled
    BY DEF Drawing
  <2> QED  BY <2>1, <2>2 DEF Counter!CounterState
<1>7. ASSUME NEW p \in Procs, pc[p] \in Counter!Holding
      PROVE  /\ pc[p] \notin Counter!Committed => Settled = Value
             /\ pc[p] \in Counter!Committed => Settled = Value - 1
  <2>1. lock = p /\ p # Nobody
    BY <1>4, <1>7, ProcessAssumption
  <2> QED  BY <2>1 DEF Settled
<1>8. \A p \in Procs : pc[p] \in Counter!Committed => pc[p] \in Counter!Holding
  BY DEF Counter!Holding, Counter!Committed
<1>9. Settled \in 0..(MaxNonce + 1)
  <2>1. CASE lock = Nobody
    BY <1>2, <1>5, <2>1
  <2>2. CASE lock # Nobody
    <3>1. lock \in Procs /\ pc[lock] \in Counter!Holding
      BY <1>4, <2>2 DEF CampaignInv, TypeOK
    <3>2. CASE pc[lock] = "locked"
      BY <3>1, <3>2, <1>2, <1>7 DEF Counter!Committed
    <3>3. CASE pc[lock] # "locked"
      BY <3>1, <3>3, <1>6, WidthAssumption
    <3> QED  BY <3>2, <3>3
  <2> QED  BY <2>1, <2>2
<1>10. \A p \in Procs : pc[p] \in Counter!Committed => Value = Settled + 1
  BY <1>2, <1>7, <1>8, WidthAssumption
<1> QED  BY <1>2, <1>3, <1>4, <1>5, <1>6, <1>7, <1>9, <1>10

(* A step that returns no value and moves no test on leaves most as it is. *)
LEMMA Quiet ==
    ASSUME CampaignInv, Settled' = Settled,
           UNCHANGED <<script, snapshot, observed, reports, output, exits, verdict,
                       ioError, issued>>
    PROVE  /\ (ScriptInv /\ PlanInv /\ OutputInv /\ HistoryInv)'
           /\ (CampaignSound /\ RollbackCaught)'
           /\ Stage' = Stage /\ Foreseen' = Foreseen
<1>1. Place' = Place
  BY DEF Place
<1>2. Foreseen' = Foreseen /\ Stage' = Stage
  BY <1>1 DEF Foreseen, Stage, Op
<1>3. ScriptInv'
  BY <1>1 DEF CampaignInv, ScriptInv
<1>4. PlanInv'
  BY <1>2 DEF CampaignInv, PlanInv
<1>5. OutputInv'
  BY <1>2 DEF CampaignInv, OutputInv
<1>6. HistoryInv'
  BY <1>2 DEF CampaignInv, HistoryInv, Counter!NoNonceReuse
<1>7. CampaignSound' /\ RollbackCaught'
  BY DEF CampaignInv, CampaignSound, RollbackCaught
<1> QED  BY <1>2, <1>3, <1>4, <1>5, <1>6, <1>7

(* A process goes on inside allocate.                                      *)
LEMMA CallerStep ==
    ASSUME CampaignInv, NEW p \in Procs, NEW to \in Counter!Labels, pc[p] # "idle",
           pc' = [pc EXCEPT ![p] = to], arg' = arg,
           p = Parent /\ Stage = "refuse" => to \in {"waiting", "locked"},
           UNCHANGED <<script, exits, verdict, ioError>>
    PROVE  CallerInv'
<1>1. Stage' = Stage
  BY DEF Stage, Op
<1>2. /\ \A q \in Procs : pc'[q] = IF q = p THEN to ELSE pc[q]
      /\ Parent \in Procs /\ Offspring \subseteq Procs /\ Parent \notin Offspring
  BY ProcessAssumption DEF CampaignInv, TypeOK, Procs, Offspring
<1>3. pc'[Parent] # "idle" =>
          /\ verdict' = "running"
          /\ Stage' \in {"allocate", "refuse", "replay"}
          /\ arg'[Parent] = script'[1].scope
          /\ Stage' = "refuse" => pc'[Parent] \in {"waiting", "locked"}
  BY <1>1, <1>2 DEF CampaignInv, CallerInv
<1>4. \A q \in Offspring :
          /\ pc'[q] # "idle" => exits'[q] = "running" /\ arg'[q] = Scope
          /\ exits'[q] = "running" => Stage' = IF q = Child THEN "crash" ELSE "workers"
          /\ exits'[q] = "error" => ioError'
  BY <1>1, <1>2 DEF CampaignInv, CallerInv
<1> QED  BY <1>3, <1>4 DEF CallerInv

(* Whoever has read the file has passed the scope of the tests.            *)
LEMMA ScopeOfCaller ==
    ASSUME CampaignInv, NEW p \in Procs, pc[p] # "idle"
    PROVE  /\ p = Parent /\ Stage = "refuse" =>
                 arg[p] = OtherScope /\ Value > 0 /\ pc[p] \in {"waiting", "locked"}
           /\ ~ (p = Parent /\ Stage = "refuse") => arg[p] = Scope
<1>1. CASE p = Parent
  <2>1. /\ verdict = "running" /\ Stage \in {"allocate", "refuse", "replay"}
        /\ arg[p] = script[1].scope
        /\ Stage = "refuse" => pc[Parent] \in {"waiting", "locked"}
    BY <1>1 DEF CampaignInv, CallerInv
  <2>2. script # <<>> /\ Stage = script[1].op
    BY <2>1 DEF Stage, Op
  <2>3. Met(script[1], Foreseen) /\ Foreseen \in Forecasts
    BY <2>2, ScriptFacts DEF CampaignInv
  <2>4. Stage = "refuse" => arg[p] = OtherScope /\ Foreseen.next > 0
    BY <2>1, <2>2, <2>3 DEF Met
  <2>5. Stage # "refuse" => arg[p] = Scope
    BY <2>1, <2>2, <2>3 DEF Met
  <2>6. Settled = Foreseen.next
    BY <2>1 DEF CampaignInv, PlanInv
  <2>7. Stage = "refuse" => Settled = Value
    <3>1. CASE lock = Nobody
      BY <3>1 DEF Settled
    <3>2. CASE lock = p
      BY <3>2, <1>1, <2>1 DEF Settled, Counter!Committed
    <3>3. CASE lock # Nobody /\ lock # p
      <4>1. lock \in Offspring /\ pc[lock] \in Counter!Holding
        BY <3>3, <1>1, HolderFacts DEF CampaignInv, TypeOK, Procs
      <4>2. pc[lock] # "idle"
        BY <4>1 DEF Counter!Holding
      <4>3. Stage \in {"crash", "workers"}
        BY <4>1, <4>2 DEF CampaignInv, CallerInv
      <4> QED  BY <4>3
    <3> QED  BY <3>1, <3>2, <3>3
  <2> QED  BY <1>1, <2>1, <2>4, <2>5, <2>6, <2>7
<1>2. CASE p # Parent
  <2>1. p \in Offspring
    BY <1>2 DEF Procs
  <2> QED  BY <1>2, <2>1 DEF CampaignInv, CallerInv
<1> QED  BY <1>1, <1>2

-----------------------------------------------------------------------------
(* What a step inside allocate leaves alone.                               *)
others == <<script, snapshot, observed, reports, output, exits, verdict, ioError>>

(* The value of Settled after a step of the holder.                        *)
LEMMA SettledIs ==
    ASSUME NEW p \in Procs, lock' = p
    PROVE  Settled' = IF pc'[p] \in Counter!Committed THEN Value' - 1 ELSE Value'
<1>1. p # Nobody
  BY ProcessAssumption
<1> QED  BY <1>1 DEF Settled

(* A process enters allocate.                                              *)
LEMMA CallSteps ==
    ASSUME CampaignInv, NEW p \in Procs, NEW s \in {Scope, OtherScope},
           Counter!Begin(p, s), UNCHANGED others,
           p = Parent => /\ verdict = "running" /\ s = script[1].scope
                         /\ Stage \in {"allocate", "refuse", "replay"},
           p \in Offspring => exits[p] = "running" /\ s = Scope
    PROVE  CampaignInv'
<1> USE DEF others
<1>1. /\ pc[p] = "idle" /\ pc' = [pc EXCEPT ![p] = "waiting"]
      /\ arg' = [arg EXCEPT ![p] = s]
      /\ UNCHANGED <<cur, lock, state, stateDisk, tmp, tmpDisk, issued, lost>>
  BY DEF Counter!Begin, Counter!Goto, Counter!files, Counter!history
<1>2. /\ \A q \in Procs : pc'[q] = IF q = p THEN "waiting" ELSE pc[q]
      /\ \A q \in Procs : arg'[q] = IF q = p THEN s ELSE arg[q]
      /\ Parent \in Procs /\ Offspring \subseteq Procs /\ Parent \notin Offspring
  BY <1>1, ProcessAssumption DEF CampaignInv, TypeOK, Procs, Offspring
<1>3. TypeOK'
  BY <1>1, <1>2 DEF CampaignInv, TypeOK, Counter!Labels
<1>4. \A q \in Procs : /\ pc'[q] \in Counter!Holding <=> pc[q] \in Counter!Holding
                       /\ pc'[q] \in Counter!Holding => pc'[q] = pc[q]
  BY <1>1, <1>2 DEF Counter!Holding
<1>5. Counter!LockInv'
  BY <1>1, <1>4 DEF CampaignInv, Counter!LockInv
<1>6. Value' = Value
  BY <1>1 DEF Value
<1>7. Settled' = Settled
  <2>1. CASE lock = Nobody
    BY <2>1, <1>1, <1>6 DEF Settled
  <2>2. CASE lock # Nobody
    <3>1. lock \in Procs /\ pc[lock] \in Counter!Holding
      BY <2>2, HolderFacts DEF CampaignInv, TypeOK
    <3> QED  BY <3>1, <1>1, <1>4, <1>6 DEF Settled
  <2> QED  BY <2>1, <2>2
<1>8. HoldInv'
  BY <1>1, <1>4, <1>6, <1>7 DEF CampaignInv, HoldInv
<1>9. Stage' = Stage
  BY DEF Stage, Op
<1>10. CallerInv'
  <2>1. pc'[Parent] # "idle" =>
          /\ verdict' = "running"
          /\ Stage' \in {"allocate", "refuse", "replay"}
          /\ arg'[Parent] = script'[1].scope
          /\ Stage' = "refuse" => pc'[Parent] \in {"waiting", "locked"}
    BY <1>2, <1>9 DEF CampaignInv, CallerInv
  <2>2. \A q \in Offspring :
          /\ pc'[q] # "idle" => exits'[q] = "running" /\ arg'[q] = Scope
          /\ exits'[q] = "running" => Stage' = IF q = Child THEN "crash" ELSE "workers"
          /\ exits'[q] = "error" => ioError'
    BY <1>2, <1>9 DEF CampaignInv, CallerInv
  <2> QED  BY <2>1, <2>2 DEF CallerInv
<1> QED  BY <1>1, <1>3, <1>5, <1>7, <1>8, <1>10, Quiet DEF CampaignInv

(* flock grants the lock.                                                  *)
LEMMA LockSteps ==
    ASSUME CampaignInv, NEW p \in Procs, Counter!AcquireLock(p), UNCHANGED others
    PROVE  CampaignInv'
<1> USE DEF others
<1>1. /\ pc[p] = "waiting" /\ pc' = [pc EXCEPT ![p] = "locked"]
      /\ lock = Nobody /\ lock' = p
      /\ UNCHANGED <<arg, cur, state, stateDisk, tmp, tmpDisk, issued, lost>>
  BY DEF Counter!AcquireLock, Counter!Goto, Counter!files, Counter!history
<1>2. \A q \in Procs : pc'[q] = IF q = p THEN "locked" ELSE pc[q]
  BY <1>1 DEF CampaignInv, TypeOK
<1>3. TypeOK'
  BY <1>1 DEF CampaignInv, TypeOK, Counter!Labels, Counter!Holding
<1>4. \A q \in Procs : pc[q] \notin Counter!Holding
  BY <1>1, HolderFacts, ProcessAssumption
<1>5. Counter!LockInv'
  BY <1>1, <1>2, <1>4 DEF Counter!LockInv, Counter!Holding
<1>6. Value' = Value
  BY <1>1 DEF Value
<1>7. Settled' = Settled
  <2>1. pc'[p] \notin Counter!Committed
    BY <1>2 DEF Counter!Committed
  <2>2. Settled' = Value'
    BY <2>1, <1>1, SettledIs
  <2> QED  BY <2>2, <1>1, <1>6 DEF Settled
<1>8. HoldInv'
  BY <1>1, <1>2, <1>4, <1>6 DEF CampaignInv, HoldInv, Counter!Holding
<1>9. CallerInv'
  BY <1>1, CallerStep DEF Counter!Labels, Counter!Holding
<1> QED  BY <1>1, <1>3, <1>5, <1>7, <1>8, <1>9, Quiet DEF CampaignInv

(* The holder goes on: the lock stays, and no one else moves.              *)
LEMMA HolderStep ==
    ASSUME CampaignInv, NEW p \in Procs, NEW to \in Counter!Holding \ {"locked"},
           pc[p] \in Counter!Holding, pc' = [pc EXCEPT ![p] = to],
           ~ (p = Parent /\ Stage = "refuse"),
           UNCHANGED others, UNCHANGED <<arg, lock, issued>>,
           state' \in Counter!Contents, cur' \in [Procs -> Counter!CounterState],
           state' = FileAt(Value'), Settled' = Settled,
           cur'[p] = Drawing(Settled),
           to \in {"written", "synced"} => tmp' = FileAt(Settled + 1)
    PROVE  CampaignInv'
<1> USE DEF others
<1>1. /\ \A q \in Procs : pc'[q] = IF q = p THEN to ELSE pc[q]
      /\ to \in Counter!Labels
  BY DEF CampaignInv, TypeOK, Counter!Labels
<1>2. TypeOK'
  BY <1>1 DEF CampaignInv, TypeOK
<1>3. lock = p /\ \A q \in Procs : pc[q] \in Counter!Holding <=> lock = q
  BY HolderFacts
<1>4. Counter!LockInv'
  BY <1>1, <1>3 DEF Counter!LockInv
<1>5. HoldInv'
  <2>1. \A q \in Procs : pc'[q] \in Counter!Holding \ {"locked"} => q = p
    BY <1>1, <1>3
  <2>2. pc'[p] = to
    BY <1>1
  <2> QED  BY <2>1, <2>2 DEF HoldInv, Drawing
<1>6. pc[p] # "idle"
  BY DEF Counter!Holding
<1>7. CallerInv'
  BY <1>1, <1>6, CallerStep
<1> QED  BY <1>2, <1>4, <1>5, <1>7, Quiet DEF CampaignInv

(* load_state returns a record.                                            *)
LEMMA LoadSteps ==
    ASSUME CampaignInv, NEW p \in Procs, Counter!LoadState(p), UNCHANGED others
    PROVE  CampaignInv'
<1>1. /\ pc[p] = "locked" /\ pc' = [pc EXCEPT ![p] = "loaded"]
      /\ Counter!Readable(state, arg[p])
      /\ ~ Counter!Resolve(state, arg[p]).exhausted
      /\ cur' = [cur EXCEPT ![p] = Counter!Resolve(state, arg[p])]
      /\ UNCHANGED <<arg, lock, state, stateDisk, tmp, tmpDisk, issued, lost>>
  BY DEF Counter!LoadState, Counter!Goto, Counter!files, Counter!history
<1>2. /\ Value \in 0..(MaxNonce + 1) /\ state = FileAt(Value) /\ lock = p /\ Settled = Value
  BY <1>1, HolderFacts DEF Counter!Holding, Counter!Committed
<1>3. ~ (p = Parent /\ Stage = "refuse") /\ arg[p] = Scope
  BY <1>1, <1>2, ScopeOfCaller, FileFacts
<1>4. Value <= MaxNonce /\ Counter!Resolve(state, Scope) = Drawing(Value)
  BY <1>1, <1>2, <1>3, FileFacts, WidthAssumption
<1>5. Drawing(Value) \in Counter!CounterState
  BY <1>2, <1>4 DEF Drawing, Counter!CounterState
<1>6. cur \in [Procs -> Counter!CounterState] /\ state \in Counter!Contents
      /\ pc \in [Procs -> Counter!Labels]
  BY DEF CampaignInv, TypeOK
<1>7. cur' \in [Procs -> Counter!CounterState] /\ cur'[p] = Drawing(Settled)
  BY <1>1, <1>2, <1>3, <1>4, <1>5, <1>6
<1>8. Value' = Value
  BY <1>1 DEF Value
<1>9. Settled' = Settled
  BY <1>1, <1>2, <1>6, <1>8, SettledIs DEF Counter!Committed
<1>10. state' \in Counter!Contents /\ state' = FileAt(Value')
  BY <1>1, <1>2, <1>6, <1>8
<1> QED  BY <1>1, <1>3, <1>7, <1>9, <1>10, HolderStep DEF Counter!Holding

(* open, write and fsync of the temporary, and of the directory.           *)
LEMMA FileSteps ==
    ASSUME CampaignInv, NEW p \in Procs, UNCHANGED others,
           \/ Counter!OpenTemporary(p) \/ Counter!WriteTemporary(p)
           \/ Counter!SyncTemporary(p) \/ Counter!SyncDirectory(p)
    PROVE  CampaignInv'
<1> DEFINE Moves(from, to) ==
               /\ <<from, to>> \in {<<"loaded", "opened">>, <<"opened", "written">>,
                                    <<"written", "synced">>, <<"replaced", "durable">>}
               /\ pc[p] = from /\ pc' = [pc EXCEPT ![p] = to]
               /\ UNCHANGED <<arg, cur, lock, state, issued>>
               /\ to = "written" => tmp' = Counter!Updated(cur[p])
               /\ to = "synced" => tmp' = tmp
<1>0. PICK from, to : Moves(from, to)
  <2>1. CASE Counter!OpenTemporary(p)
    <3>1. Moves("loaded", "opened")
      BY <2>1 DEF Counter!OpenTemporary, Counter!Goto, Counter!history
    <3> HIDE DEF Moves
    <3> QED  BY <3>1, Zenon
  <2>2. CASE Counter!WriteTemporary(p)
    <3>1. Moves("opened", "written")
      BY <2>2 DEF Counter!WriteTemporary, Counter!Goto, Counter!history
    <3> HIDE DEF Moves
    <3> QED  BY <3>1, Zenon
  <2>3. CASE Counter!SyncTemporary(p)
    <3>1. Moves("written", "synced")
      BY <2>3 DEF Counter!SyncTemporary, Counter!Goto, Counter!history
    <3> HIDE DEF Moves
    <3> QED  BY <3>1, Zenon
  <2>4. CASE Counter!SyncDirectory(p)
    <3>1. Moves("replaced", "durable")
      BY <2>4 DEF Counter!SyncDirectory, Counter!Goto, Counter!history
    <3> HIDE DEF Moves
    <3> QED  BY <3>1, Zenon
  <2> QED  BY <2>1, <2>2, <2>3, <2>4
<1>1. Moves(from, to)
  BY <1>0
<1>2. /\ from \in Counter!Holding \ {"locked"} /\ to \in Counter!Holding \ {"locked"}
      /\ from \in Counter!Committed <=> to \in Counter!Committed
      /\ to = "synced" => from = "written"
  BY <1>1 DEF Counter!Holding, Counter!Committed
<1>3. /\ state = FileAt(Value) /\ lock = p /\ Settled \in 0..MaxNonce
      /\ cur[p] = Drawing(Settled)
  BY <1>1, <1>2, HolderFacts
<1>4. cur \in [Procs -> Counter!CounterState] /\ state \in Counter!Contents
      /\ pc \in [Procs -> Counter!Labels]
  BY DEF CampaignInv, TypeOK
<1>5. ~ (p = Parent /\ Stage = "refuse")
  BY <1>1, <1>2, ScopeOfCaller DEF Counter!Holding
<1>6. Value' = Value
  BY <1>1 DEF Value
<1>7. Settled' = Settled
  <2>1. p # Nobody
    BY ProcessAssumption
  <2>2. Settled = IF pc[p] \in Counter!Committed THEN Value - 1 ELSE Value
    BY <1>3, <2>1 DEF Settled
  <2> QED  BY <1>1, <1>2, <1>3, <1>4, <1>6, <2>2, SettledIs
<1>8. to \in {"written", "synced"} => tmp' = FileAt(Settled + 1)
  <2>1. CASE to = "written"
    BY <2>1, <1>1, <1>3, UpdatedFile
  <2>2. CASE to = "synced"
    BY <2>2, <1>1, <1>2 DEF CampaignInv, HoldInv
  <2> QED  BY <2>1, <2>2
<1> QED  BY <1>1, <1>2, <1>3, <1>4, <1>5, <1>6, <1>7, <1>8, HolderStep

(* rename: the counter moves on by one.                                    *)
LEMMA ReplaceSteps ==
    ASSUME CampaignInv, NEW p \in Procs, UNCHANGED others, Counter!Replace(p)
    PROVE  CampaignInv'
<1>1. /\ pc[p] = "synced" /\ pc' = [pc EXCEPT ![p] = "replaced"]
      /\ state' = tmp /\ UNCHANGED <<arg, cur, lock, issued>>
  BY DEF Counter!Replace, Counter!Goto, Counter!history
<1>2. /\ lock = p /\ Settled \in 0..MaxNonce /\ cur[p] = Drawing(Settled)
  BY <1>1, HolderFacts DEF Counter!Holding
<1>3. tmp = FileAt(Settled + 1)
  BY <1>1 DEF CampaignInv, HoldInv, Counter!Holding
<1>4. Settled + 1 \in 0..(MaxNonce + 1)
  BY <1>2, WidthAssumption
<1>5. Value' = Settled + 1 /\ state' \in Counter!Contents /\ state' = FileAt(Value')
  <2>1. PICK n \in 0..(MaxNonce + 1) : n = Settled + 1
    BY <1>4
  <2>2. Counter!Floor(FileAt(n)) = n /\ FileAt(n) \in Counter!Contents
    BY FileFacts
  <2>3. Value' = Counter!Floor(state')
    BY DEF Value, Counter!Floor
  <2> QED  BY <1>1, <1>3, <2>1, <2>2, <2>3
<1>6. cur \in [Procs -> Counter!CounterState] /\ pc \in [Procs -> Counter!Labels]
  BY DEF CampaignInv, TypeOK
<1>7. Settled' = Settled
  <2>1. Settled' = Value' - 1
    BY <1>1, <1>2, <1>6, SettledIs DEF Counter!Committed
  <2> QED  BY <2>1, <1>2, <1>5
<1>8. ~ (p = Parent /\ Stage = "refuse")
  BY <1>1, ScopeOfCaller
<1> QED  BY <1>1, <1>2, <1>5, <1>6, <1>7, <1>8, HolderStep DEF Counter!Holding

(* Every step inside allocate keeps the invariant.                         *)
LEMMA InnerSteps ==
    ASSUME CampaignInv, NEW p \in Procs, Inner(p)
    PROVE  CampaignInv'
<1>1. UNCHANGED others
  BY DEF Inner, others
<1> QED  BY <1>1, LockSteps, LoadSteps, FileSteps, ReplaceSteps DEF Inner

-----------------------------------------------------------------------------
(* No call is under way, and everything is as foreseen.                    *)
Resting ==
    /\ verdict = "running" /\ lock = Nobody
    /\ \A p \in Procs : pc[p] = "idle"
    /\ state = FileAt(Value) /\ Value = Foreseen.next
    /\ observed = Foreseen.obs /\ snapshot = FileAt(Foreseen.snap)
    /\ Foreseen.unforked => \A p \in Offspring : exits[p] = "none"
    /\ Foreseen.unwritten => \A w \in Workers : output[w] = <<>>
    /\ \A p \in Offspring : exits[p] # "running" /\ (exits[p] = "error" => ioError)

(* Outside the tests that fork, nothing runs while the parent is idle.     *)
LEMMA OffspringIdle ==
    ASSUME CampaignInv, Stage \notin {"crash", "workers"}
    PROVE  /\ \A p \in Offspring : pc[p] = "idle" /\ exits[p] # "running"
           /\ lock \in {Nobody, Parent}
<1>1. \A p \in Offspring : pc[p] = "idle" /\ exits[p] # "running"
  BY DEF CampaignInv, CallerInv
<1>2. \A p \in Offspring : pc[p] \notin Counter!Holding
  BY <1>1 DEF Counter!Holding
<1>3. lock \in Procs \cup {Nobody} /\ \A p \in Procs : lock = p => pc[p] \in Counter!Holding
  BY HolderFacts DEF CampaignInv, TypeOK
<1> QED  BY <1>1, <1>2, <1>3 DEF Procs

(* So when the parent is idle too, everything is as foreseen.              *)
LEMMA Rested ==
    ASSUME CampaignInv, verdict = "running", Stage \notin {"crash", "workers"},
           pc[Parent] = "idle"
    PROVE  Resting
<1>1. lock = Nobody
  BY OffspringIdle, HolderFacts DEF Procs, Counter!Holding
<1>2. Settled = Value
  BY <1>1, HolderFacts
<1>3. \A p \in Procs : pc[p] = "idle"
  BY OffspringIdle DEF Procs
<1>4. Foreseen.unforked => \A p \in Offspring : exits[p] = "none"
  BY DEF CampaignInv, PlanInv
<1>5. Foreseen.unwritten => \A w \in Workers : output[w] = <<>>
  BY DEF CampaignInv, PlanInv
<1>6. \A p \in Offspring : exits[p] # "running" /\ (exits[p] = "error" => ioError)
  BY OffspringIdle DEF CampaignInv, CallerInv
<1>7. Value = Foreseen.next /\ observed = Foreseen.obs /\ snapshot = FileAt(Foreseen.snap)
  BY <1>2 DEF CampaignInv, PlanInv
<1>8. state = FileAt(Value)
  BY HolderFacts
<1> QED  BY <1>1, <1>3, <1>4, <1>5, <1>6, <1>7, <1>8 DEF Resting

(* From there the next requirement can start, whatever it is.              *)
LEMMA NextStarts ==
    ASSUME TypeOK', ScriptInv', Resting', HistoryInv', RollbackCaught'
    PROVE  CampaignInv'
<1>1. /\ verdict' = "running" /\ lock' = Nobody
      /\ \A p \in Procs : pc'[p] = "idle"
      /\ state' = FileAt(Value') /\ Value' = Foreseen'.next
      /\ observed' = Foreseen'.obs /\ snapshot' = FileAt(Foreseen'.snap)
      /\ Foreseen'.unforked => \A p \in Offspring : exits'[p] = "none"
      /\ Foreseen'.unwritten => \A w \in Workers : output'[w] = <<>>
      /\ \A p \in Offspring : exits'[p] # "running" /\ (exits'[p] = "error" => ioError')
  BY DEF Resting
<1>2. Settled' = Value'
  BY <1>1 DEF Settled
<1>3. Counter!LockInv'
  BY <1>1, ProcessAssumption DEF Counter!LockInv, Counter!Holding
<1>4. CallerInv'
  BY <1>1 DEF CallerInv, Procs
<1>5. HoldInv'
  BY <1>1 DEF HoldInv, Counter!Holding
<1>6. Stage' \in {"crash", "workers"} =>
          /\ Foreseen'.unforked
          /\ Stage' = "workers" => Foreseen'.unwritten /\ Foreseen'.next = 0
  BY NextScriptFacts DEF Stage, Op, Met
<1>7. PlanInv'
  <2>1. Stage' = "crash" => exits'[Child] = "none"
    BY <1>1, <1>6 DEF Offspring
  <2>2. "none" \notin Counter!Committed
    BY DEF Counter!Committed
  <2>3. Foreseen'.next \in Nat
    BY NextScriptFacts, WidthAssumption DEF Forecasts
  <2>4. Stage' = "crash" =>
          /\ exits'[Child] \in {"none", "running", "error", script'[1].point}
          /\ exits'[Child] # "error" =>
                Settled' = Foreseen'.next
                          + IF exits'[Child] \in Counter!Committed THEN 1 ELSE 0
    BY <1>1, <1>2, <2>1, <2>2, <2>3
  <2>5. Foreseen'.unforked /\ Stage' \notin {"crash", "workers"} =>
          \A p \in Offspring : exits'[p] = "none"
    BY <1>1
  <2>6. Foreseen'.unwritten /\ Stage' # "workers" => \A w \in Workers : output'[w] = <<>>
    BY <1>1
  <2> QED  BY <1>1, <1>2, <2>4, <2>5, <2>6 DEF PlanInv
<1>8. OutputInv'
  <2> SUFFICES ASSUME Stage' = "workers" PROVE OutputInv'
    BY DEF OutputInv
  <2>1. Settled' = 0 /\ \A w \in Workers : output'[w] = <<>> /\ exits'[w] = "none"
    BY <1>1, <1>2, <1>6 DEF Offspring
  <2>2. \A w \in Workers : Len(output'[w]) = 0
    BY <2>1
  <2>3. \A n \in 0..(Settled' - 1) : FALSE
    BY <2>1
  <2>4. \A i \in 1..0 : FALSE
    OBVIOUS
  <2>5. \A w \in Workers : Len(output'[w]) <= PerWorker /\ Len(output'[w]) < PerWorker
    BY <2>2, WidthAssumption
  <2>6. \A w \in Workers : \A i \in 1..Len(output'[w]) : FALSE
    BY <2>2, <2>4, Zenon
  <2>7. \A w \in Workers :
          /\ exits'[w] \in {"none", "running", "error", "0"}
          /\ Len(output'[w]) <= PerWorker
          /\ exits'[w] \in {"none", "running"} => Len(output'[w]) < PerWorker
          /\ exits'[w] = "0" => Len(output'[w]) = PerWorker
    BY <2>1, <2>5
  <2> QED  BY <2>3, <2>6, <2>7, Zenon DEF OutputInv
<1>9. CampaignSound'
  BY <1>1 DEF CampaignSound
<1> QED  BY <1>3, <1>4, <1>5, <1>7, <1>8, <1>9 DEF CampaignInv

(* Returned nonces are numbers.                                            *)
LEMMA IssuedNumbers ==
    ASSUME NEW q \in Seq([scope : {Scope, OtherScope}, nonce : Nat])
    PROVE  /\ Len(q) \in Nat
           /\ \A i \in 1..Len(q) : q[i].nonce \in Nat
<1>1. PICK T : T = [scope : {Scope, OtherScope}, nonce : Nat]
  OBVIOUS
<1>2. q \in Seq(T)
  BY <1>1
<1>3. Len(q) \in Nat /\ \A i \in 1..Len(q) : q[i] \in T
  BY <1>2
<1>4. \A t \in T : t.nonce \in Nat
  BY <1>1
<1> QED  BY <1>3, <1>4

(* Where no nonce is returned twice, no rollback is missed.                *)
LEMMA NothingToCatch ==
    ASSUME TypeOK', Counter!NoNonceReuse'
    PROVE  RollbackCaught'
<1>1. \A i \in 1..Len(issued') : issued'[i].nonce \in Nat
  <2>1. PICK q : q = issued'
    OBVIOUS
  <2> QED  BY <2>1, IssuedNumbers DEF TypeOK
<1>2. \A a, b \in Nat : a < b => a # b
  OBVIOUS
<1>3. \A i, j \in 1..Len(issued') : i < j => issued'[i].nonce # issued'[j].nonce
  BY <1>1, <1>2 DEF Counter!NoNonceReuse
<1> QED  BY <1>3 DEF RollbackCaught

(* The history is not touched.                                             *)
LEMMA HistoryKept ==
    ASSUME CampaignInv, UNCHANGED issued, Foreseen'.mode = Foreseen.mode,
           Foreseen.mode = "normal" => Settled' >= Settled /\ Settled' \in Nat
    PROVE  HistoryInv'
<1>1. Foreseen'.mode # "replayed" => Counter!NoNonceReuse'
  BY DEF CampaignInv, HistoryInv, Counter!NoNonceReuse
<1>2. \A i \in 1..Len(issued) : issued[i].nonce \in Nat
  BY IssuedNumbers DEF CampaignInv, TypeOK
<1>3. Settled \in Nat
  BY HolderFacts, WidthAssumption
<1>4. Foreseen'.mode = "normal" => \A i \in 1..Len(issued') : issued'[i].nonce < Settled'
  <2> SUFFICES ASSUME Foreseen'.mode = "normal", NEW i \in 1..Len(issued')
               PROVE  issued'[i].nonce < Settled'
    OBVIOUS
  <2>1. issued[i].nonce < Settled /\ issued'[i].nonce = issued[i].nonce
    BY DEF CampaignInv, HistoryInv
  <2> QED  BY <2>1, <1>2, <1>3
<1> QED  BY <1>1, <1>4 DEF HistoryInv

-----------------------------------------------------------------------------
(* A requirement that is about to be met by a step of the parent alone.    *)
LEMMA Ready ==
    ASSUME CampaignInv, NEW op, At(op), op \notin {"allocate", "refuse", "replay",
                                                   "crash", "workers"}
    PROVE  /\ Resting /\ Settled = Value /\ Value \in 0..(MaxNonce + 1)
           /\ script # <<>> /\ script[1].op = op
           /\ Met(script[1], Foreseen) /\ Foreseen \in Forecasts
<1>1. verdict = "running" /\ script # <<>> /\ script[1].op = op /\ Stage = op
  BY DEF At, Op, Stage
<1>2. pc[Parent] = "idle"
  BY <1>1 DEF CampaignInv, CallerInv
<1>3. Resting
  BY <1>1, <1>2, Rested
<1>4. Met(script[1], Foreseen) /\ Foreseen \in Forecasts
  BY <1>1, ScriptFacts DEF CampaignInv
<1> QED  BY <1>1, <1>3, <1>4, HolderFacts DEF Resting

(* A requirement is met, the counter and the processes stay as they are.   *)
LEMMA Noted ==
    ASSUME CampaignInv, NEW op, At(op),
           op \in {"directory", "detector", "observe", "observations", "xor", "copy"},
           script' = Tail(script), verdict' = verdict,
           UNCHANGED <<counter, output, exits, ioError>>,
           TypeOK', observed' = After(script[1], Foreseen).obs,
           snapshot' = FileAt(After(script[1], Foreseen).snap),
           RollbackCaught'
    PROVE  CampaignInv'
<1>1. /\ Resting /\ Settled = Value /\ script # <<>> /\ script[1].op = op
  BY Ready
<1>2. ScriptInv' /\ Foreseen' = After(script[1], Foreseen)
  BY <1>1, Advance DEF CampaignInv
<1>3. /\ Foreseen'.next = Foreseen.next /\ Foreseen'.mode = Foreseen.mode
      /\ Foreseen'.unforked => Foreseen.unforked
      /\ Foreseen'.unwritten => Foreseen.unwritten
  BY <1>1, <1>2 DEF After
<1>4. Value' = Value /\ Settled' = Settled
  BY DEF Value, Settled, counter
<1>5. Resting'
  BY <1>1, <1>2, <1>3, <1>4 DEF Resting, counter
<1>6. HistoryInv'
  <2>1. Settled \in Nat
    BY HolderFacts, WidthAssumption
  <2> QED  BY <1>3, <1>4, <2>1, HistoryKept DEF counter
<1> QED  BY <1>2, <1>5, <1>6, NextStarts

(* The temporary directory is made.                                        *)
LEMMA DirectoryStep ==
    ASSUME CampaignInv, make_temporary_directory
    PROVE  CampaignInv'
<1>1. /\ At("directory") /\ script' = Tail(script) /\ verdict' = verdict
      /\ UNCHANGED <<counter, snapshot, observed, reports, output, exits, ioError>>
  BY DEF make_temporary_directory, Require
<1>2. /\ Resting /\ script # <<>> /\ script[1].op = "directory"
  BY <1>1, Ready
<1>3. /\ After(script[1], Foreseen).obs = Foreseen.obs
      /\ After(script[1], Foreseen).snap = Foreseen.snap
  BY <1>2 DEF After
<1>4. TypeOK' /\ RollbackCaught'
  BY <1>1 DEF CampaignInv, TypeOK, RollbackCaught, counter
<1>5. snapshot' = FileAt(After(script[1], Foreseen).snap)
      /\ observed' = After(script[1], Foreseen).obs
  BY <1>1, <1>2, <1>3 DEF Resting
<1>6. PICK op : op = "directory"
  OBVIOUS
<1> QED  BY <1>1, <1>4, <1>5, <1>6, Noted

-----------------------------------------------------------------------------
(* A new state path.                                                       *)
LEMMA PathStep ==
    ASSUME CampaignInv, NewPath
    PROVE  CampaignInv'
<1>1. /\ At("path")
      /\ state' = NoFile /\ issued' = <<>>
      /\ exits' = [p \in DOMAIN exits |-> "none"]
      /\ script' = Tail(script) /\ verdict' = verdict
      /\ UNCHANGED <<pc, arg, cur, lock, snapshot, observed, reports, output, ioError>>
  BY DEF NewPath, Require
<1>2. /\ Resting /\ script # <<>> /\ script[1].op = "path"
      /\ Met(script[1], Foreseen)
  BY <1>1, Ready
<1>3. ScriptInv' /\ Foreseen' = After(script[1], Foreseen)
  BY <1>1, <1>2, Advance DEF CampaignInv
<1>4. /\ Foreseen'.next = 0 /\ Foreseen'.snap = Foreseen.snap
      /\ Foreseen'.obs = Foreseen.obs
      /\ Foreseen'.unwritten => Foreseen.unwritten
  BY <1>2, <1>3 DEF After
<1>5. Value' = 0
  BY <1>1 DEF Value, Counter!Floor
<1>6. state' = FileAt(Value')
  BY <1>1, <1>5 DEF FileAt
<1>7. \A p \in Offspring : exits'[p] = "none"
  BY <1>1 DEF CampaignInv, TypeOK
<1>8. Resting'
  <2>1. \A p \in Offspring : exits'[p] # "running" /\ (exits'[p] = "error" => ioError')
    BY <1>7
  <2> QED  BY <1>1, <1>2, <1>4, <1>5, <1>6, <1>7, <2>1 DEF Resting
<1>9. TypeOK'
  <2>1. exits' \in [Offspring -> {"none", "running", "error", "0"} \cup Counter!Holding]
    BY <1>1 DEF CampaignInv, TypeOK
  <2>2. state' \in Counter!Contents
    BY <1>1 DEF Counter!Contents
  <2>3. issued' \in Seq([scope : {Scope, OtherScope}, nonce : Nat])
    BY <1>1
  <2> QED  BY <1>1, <2>1, <2>2, <2>3 DEF CampaignInv, TypeOK
<1>10. \A i \in 1..Len(issued') : FALSE
  BY <1>1
<1>11. HistoryInv' /\ RollbackCaught'
  BY <1>10 DEF HistoryInv, RollbackCaught, Counter!NoNonceReuse
<1> QED  BY <1>3, <1>8, <1>9, <1>11, NextStarts

(* What is observed and reported keeps its type.                           *)
LEMMA ReportType ==
    ASSUME CampaignInv, NEW k \in {"first", "second", "key"}, NEW n \in Nat,
           Observing(k, n)
    PROVE  /\ reports' \in Seq({"first", "second", "key"} \X Nat \X {"Fresh", "Reused"})
           /\ Len(reports') = Len(reports) + 1 /\ Len(reports) \in Nat
           /\ \A i \in 1..Len(reports) : reports'[i] = reports[i]
           /\ reports'[Len(reports) + 1] = <<k, n, Observation(k, n)>>
<1>1. PICK T : T = {"first", "second", "key"} \X Nat \X {"Fresh", "Reused"}
  OBVIOUS
<1>2. reports \in Seq(T)
  BY <1>1 DEF CampaignInv, TypeOK
<1>3. PICK x : x = <<k, n, Observation(k, n)>>
  OBVIOUS
<1>4. x \in T
  BY <1>1, <1>3 DEF Observation
<1>5. reports' = Append(reports, x)
  BY <1>3 DEF Observing
<1>6. /\ reports' \in Seq(T) /\ Len(reports') = Len(reports) + 1 /\ Len(reports) \in Nat
      /\ \A i \in 1..Len(reports) : reports'[i] = reports[i]
      /\ reports'[Len(reports) + 1] = x
  BY <1>2, <1>4, <1>5
<1> QED  BY <1>1, <1>3, <1>6

(* Reports are only added.                                                 *)
LEMMA ReportsKept ==
    ASSUME CampaignInv, UNCHANGED <<issued, snapshot>>,
           Len(reports') = Len(reports) + 1, Len(reports) \in Nat,
           \A i \in 1..Len(reports) : reports'[i] = reports[i]
    PROVE  RollbackCaught'
<1>1. \A k \in 1..Len(reports) : k \in 1..Len(reports')
  OBVIOUS
<1>2. ASSUME NEW i \in 1..Len(issued), NEW j \in 1..Len(issued),
             i < j, issued[i].nonce = issued[j].nonce
      PROVE  /\ snapshot # NoFile /\ issued[i].nonce >= snapshot.next
             /\ \E k \in 1..Len(reports') :
                   reports'[k] = <<"key", issued[j].nonce, "Reused">>
  <2>1. /\ snapshot # NoFile /\ issued[i].nonce >= snapshot.next
        /\ \E k \in 1..Len(reports) : reports[k] = <<"key", issued[j].nonce, "Reused">>
    BY <1>2 DEF CampaignInv, RollbackCaught
  <2>2. PICK k \in 1..Len(reports) : reports[k] = <<"key", issued[j].nonce, "Reused">>
    BY <2>1
  <2>3. k \in 1..Len(reports') /\ reports'[k] = <<"key", issued[j].nonce, "Reused">>
    BY <2>2, <1>1
  <2> QED  BY <2>1, <2>3
<1> QED  BY <1>2, Zenon DEF RollbackCaught

(* A new detector.                                                         *)
LEMMA DetectorStep ==
    ASSUME CampaignInv, NewDetector
    PROVE  CampaignInv'
<1>1. /\ At("detector") /\ observed' = {} /\ reports' = <<>>
      /\ script' = Tail(script) /\ verdict' = verdict
      /\ UNCHANGED <<counter, snapshot, output, exits, ioError>>
  BY DEF NewDetector, Require
<1>2. /\ Resting /\ script # <<>> /\ script[1].op = "detector"
      /\ Met(script[1], Foreseen)
  BY <1>1, Ready
<1>3. After(script[1], Foreseen).obs = {} /\ After(script[1], Foreseen).snap = Foreseen.snap
  BY <1>2 DEF After
<1>4. Foreseen.mode # "replayed"
  BY <1>2 DEF Met
<1>5. TypeOK'
  <2>1. reports' \in Seq({"first", "second", "key"} \X Nat \X {"Fresh", "Reused"})
    BY <1>1
  <2> QED  BY <1>1, <2>1 DEF CampaignInv, TypeOK, counter
<1>6. Counter!NoNonceReuse'
  BY <1>1, <1>4 DEF CampaignInv, HistoryInv, Counter!NoNonceReuse, counter
<1>7. RollbackCaught'
  BY <1>5, <1>6, NothingToCatch
<1>8. snapshot' = FileAt(After(script[1], Foreseen).snap)
  BY <1>1, <1>2, <1>3 DEF Resting
<1>9. observed' = After(script[1], Foreseen).obs
  BY <1>1, <1>3
<1>10. PICK op : op = "detector"
  OBVIOUS
<1> QED  BY <1>1, <1>5, <1>7, <1>8, <1>9, <1>10, Noted

(* The detector answers as the test expects.                               *)
LEMMA ObserveSteps ==
    ASSUME CampaignInv, ObserveStep
    PROVE  CampaignInv'
<1>1. /\ At("observe") /\ Observing(script[1].key, script[1].nonce)
      /\ Require(Observation(script[1].key, script[1].nonce) = script[1].expect)
      /\ UNCHANGED <<counter, snapshot, output, exits, ioError>>
  BY DEF ObserveStep
<1>2. /\ Resting /\ script # <<>> /\ script[1].op = "observe"
      /\ Met(script[1], Foreseen)
  BY <1>1, Ready
<1>3. PICK k, n : k = script[1].key /\ n = script[1].nonce
  OBVIOUS
<1>4. /\ k \in {"first", "second", "key"} /\ n \in Nat
      /\ script[1].expect = IF <<k, n>> \in Foreseen.obs THEN "Reused" ELSE "Fresh"
  BY <1>2, <1>3 DEF Met
<1>5. observed = Foreseen.obs
  BY <1>2 DEF Resting
<1>6. Observation(k, n) = script[1].expect
  BY <1>4, <1>5 DEF Observation
<1>7. script' = Tail(script) /\ verdict' = verdict
  BY <1>1, <1>3, <1>6 DEF Require
<1>8. /\ After(script[1], Foreseen).obs = Foreseen.obs \cup {<<k, n>>}
      /\ After(script[1], Foreseen).snap = Foreseen.snap
  BY <1>2, <1>3 DEF After
<1>9. Observing(k, n)
  BY <1>1, <1>3
<1>10. observed' = After(script[1], Foreseen).obs
  BY <1>5, <1>8, <1>9 DEF Observing
<1>11. /\ reports' \in Seq({"first", "second", "key"} \X Nat \X {"Fresh", "Reused"})
       /\ Len(reports') = Len(reports) + 1 /\ Len(reports) \in Nat
       /\ \A i \in 1..Len(reports) : reports'[i] = reports[i]
  BY <1>4, <1>9, ReportType
<1>12. TypeOK'
  BY <1>1, <1>7, <1>11 DEF CampaignInv, TypeOK, counter
<1>13. RollbackCaught'
  BY <1>1, <1>11, ReportsKept DEF counter
<1>14. snapshot' = FileAt(After(script[1], Foreseen).snap)
  BY <1>1, <1>2, <1>8 DEF Resting
<1>15. PICK op : op = "observe"
  OBVIOUS
<1> QED  BY <1>1, <1>7, <1>10, <1>12, <1>13, <1>14, <1>15, Noted

(* The detector has counted what it has seen.                              *)
LEMMA ObservationsStep ==
    ASSUME CampaignInv, Observations
    PROVE  CampaignInv'
<1>1. /\ At("observations")
      /\ Require(Cardinality(observed) = script[1].expect)
      /\ UNCHANGED <<counter, snapshot, observed, reports, output, exits, ioError>>
  BY DEF Observations
<1>2. /\ Resting /\ script # <<>> /\ script[1].op = "observations"
      /\ Met(script[1], Foreseen)
  BY <1>1, Ready
<1>3. Cardinality(observed) = script[1].expect
  BY <1>2 DEF Met, Resting
<1>4. script' = Tail(script) /\ verdict' = verdict
  BY <1>1, <1>3 DEF Require
<1>5. /\ After(script[1], Foreseen).obs = Foreseen.obs
      /\ After(script[1], Foreseen).snap = Foreseen.snap
  BY <1>2 DEF After
<1>6. TypeOK'
  BY <1>1, <1>4 DEF CampaignInv, TypeOK, counter
<1>7. RollbackCaught'
  BY <1>1 DEF CampaignInv, RollbackCaught, counter
<1>8. snapshot' = FileAt(After(script[1], Foreseen).snap)
      /\ observed' = After(script[1], Foreseen).obs
  BY <1>1, <1>2, <1>5 DEF Resting
<1>9. PICK op : op = "observations"
  OBVIOUS
<1> QED  BY <1>1, <1>4, <1>6, <1>7, <1>8, <1>9, Noted

(* The state file is copied.                                               *)
LEMMA CopyStep ==
    ASSUME CampaignInv, CopySnapshot
    PROVE  CampaignInv'
<1>1. /\ At("copy") /\ snapshot' = state
      /\ script' = Tail(script) /\ verdict' = verdict
      /\ UNCHANGED <<counter, observed, reports, output, exits, ioError>>
  BY DEF CopySnapshot, Require
<1>2. /\ Resting /\ script # <<>> /\ script[1].op = "copy"
      /\ Met(script[1], Foreseen)
  BY <1>1, Ready
<1>3. /\ After(script[1], Foreseen).obs = Foreseen.obs
      /\ After(script[1], Foreseen).snap = Foreseen.next
  BY <1>2 DEF After
<1>4. Foreseen.mode = "normal"
  BY <1>2 DEF Met
<1>5. TypeOK'
  BY <1>1 DEF CampaignInv, TypeOK, counter
<1>6. Counter!NoNonceReuse'
  BY <1>1, <1>4 DEF CampaignInv, HistoryInv, Counter!NoNonceReuse, counter
<1>7. RollbackCaught'
  BY <1>5, <1>6, NothingToCatch
<1>8. snapshot' = FileAt(After(script[1], Foreseen).snap)
      /\ observed' = After(script[1], Foreseen).obs
  BY <1>1, <1>2, <1>3 DEF Resting
<1>9. PICK op : op = "copy"
  OBVIOUS
<1> QED  BY <1>1, <1>5, <1>7, <1>8, <1>9, Noted

(* The copy takes the place of the state file.                             *)
LEMMA RestoreStep ==
    ASSUME CampaignInv, RestoreSnapshot
    PROVE  CampaignInv'
<1>1. /\ At("restore") /\ state' = snapshot
      /\ script' = Tail(script) /\ verdict' = verdict
      /\ UNCHANGED <<pc, arg, cur, lock, issued, snapshot, observed, reports, output, exits,
                     ioError>>
  BY DEF RestoreSnapshot, Require
<1>2. /\ Resting /\ script # <<>> /\ script[1].op = "restore"
      /\ Met(script[1], Foreseen) /\ Foreseen \in Forecasts
  BY <1>1, Ready
<1>3. ScriptInv' /\ Foreseen' = After(script[1], Foreseen)
  BY <1>1, <1>2, Advance DEF CampaignInv
<1>4. /\ Foreseen'.next = Foreseen.snap /\ Foreseen'.snap = Foreseen.snap
      /\ Foreseen'.obs = Foreseen.obs /\ Foreseen'.mode = "restored"
      /\ Foreseen'.unforked => Foreseen.unforked
      /\ Foreseen'.unwritten => Foreseen.unwritten
  BY <1>2, <1>3 DEF After
<1>5. Foreseen.snap \in 0..(MaxNonce + 1) /\ Foreseen.mode = "normal"
  BY <1>2, WidthAssumption DEF Forecasts, Met
<1>6. PICK n \in 0..(MaxNonce + 1) : n = Foreseen.snap
  BY <1>5
<1>7. state' = FileAt(n) /\ Value' = Counter!Floor(FileAt(n))
  <2>1. state' = FileAt(n)
    BY <1>1, <1>2, <1>6 DEF Resting
  <2>2. Value' = Counter!Floor(state')
    BY DEF Value, Counter!Floor
  <2> QED  BY <2>1, <2>2
<1>8. Value' = n /\ state' \in Counter!Contents
  BY <1>7, FileFacts
<1>9. Resting'
  BY <1>1, <1>2, <1>4, <1>6, <1>7, <1>8 DEF Resting
<1>10. TypeOK'
  BY <1>1, <1>8 DEF CampaignInv, TypeOK
<1>11. Counter!NoNonceReuse'
  BY <1>1, <1>5 DEF CampaignInv, HistoryInv, Counter!NoNonceReuse
<1>12. HistoryInv' /\ RollbackCaught'
  BY <1>4, <1>10, <1>11, NothingToCatch DEF HistoryInv
<1> QED  BY <1>3, <1>9, <1>10, <1>12, NextStarts

-----------------------------------------------------------------------------
-----------------------------------------------------------------------------
(* One mask on two bytes cancels.                                          *)
LEMMA XorCommon ==
    ASSUME NEW a, NEW b, NEW k
    PROVE  Xor(Xor(a, k), Xor(b, k)) = Xor(a, b)
  BY SMT DEF Xor

(* Two messages under one nonce: the test's relation holds in the model.   *)
LEMMA XorHolds == XorRelation
<1> DEFINE keys  == [encryption_key |-> "first", authentication_key |-> "a"]
           nonce == [i \in 1..NonceBytes |-> Octet(7)]
           p1 == [i \in 1..(BlockSize + 1) |-> Const(<<"p1", i>>)]
           p2 == [i \in 1..(BlockSize + 1) |-> Const(<<"p2", i>>)]
           first  == seal(keys, nonce, <<Octet(1)>>, p1, BlockSize)
           second == seal(keys, nonce, <<Octet(4), Octet(5)>>, p2, BlockSize)
<1>1. PICK S : S = {p1[i] : i \in 1..(BlockSize + 1)} \cup {p2[i] : i \in 1..(BlockSize + 1)}
  OBVIOUS
<1>2. BlockSize + 1 \in Nat
  BY BlockSizeAssumption
<1>3. p1 \in Seq(S) /\ p2 \in Seq(S) /\ Len(p1) = BlockSize + 1 /\ Len(p2) = BlockSize + 1
  <2>1. p1 \in [1..(BlockSize + 1) -> S] /\ p2 \in [1..(BlockSize + 1) -> S]
    BY <1>1
  <2> HIDE DEF p1, p2
  <2> QED  BY <1>2, <2>1
<1> HIDE DEF keys, nonce, p1, p2
<1>4. /\ first.ciphertext = apply_keystream(keys.encryption_key, nonce, p1, BlockSize)
      /\ second.ciphertext = apply_keystream(keys.encryption_key, nonce, p2, BlockSize)
  BY DEF seal
<1>5. PICK c1, c2, ek, q1, q2 :
         /\ c1 = first.ciphertext /\ c2 = second.ciphertext /\ q1 = p1 /\ q2 = p2
         /\ ek = keys.encryption_key
  OBVIOUS
<1> HIDE DEF first, second
<1>a. /\ c1 = apply_keystream(ek, nonce, q1, BlockSize)
      /\ c2 = apply_keystream(ek, nonce, q2, BlockSize)
      /\ q1 \in Seq(S) /\ q2 \in Seq(S) /\ Len(q1) = Len(q2)
  BY <1>3, <1>4, <1>5
<1>b. /\ c1 = [j \in 1..Len(q1) |-> Xor(q1[j], StreamByte(ek, nonce, j, BlockSize))]
      /\ c2 = [j \in 1..Len(q2) |-> Xor(q2[j], StreamByte(ek, nonce, j, BlockSize))]
  <2>1. apply_keystream(ek, nonce, q1, BlockSize)
          = [j \in 1..Len(q1) |-> Xor(q1[j], StreamByte(ek, nonce, j, BlockSize))]
    BY <1>a, KeystreamFacts
  <2>2. apply_keystream(ek, nonce, q2, BlockSize)
          = [j \in 1..Len(q2) |-> Xor(q2[j], StreamByte(ek, nonce, j, BlockSize))]
    BY <1>a, KeystreamFacts
  <2> QED  BY <2>1, <2>2, <1>a, Zenon
<1>7. Len(first.ciphertext) = Len(second.ciphertext)
  <2>1. Len(q1) \in Nat
    BY <1>a, LenProperties
  <2>2. PICK T : T = {c1[j] : j \in 1..Len(q1)} \cup {c2[j] : j \in 1..Len(q1)}
    OBVIOUS
  <2>3. c1 \in [1..Len(q1) -> T] /\ c2 \in [1..Len(q1) -> T]
    BY <1>a, <1>b, <2>2, Zenon
  <2>4. Len(c1) = Len(q1) /\ Len(c2) = Len(q1)
    BY <2>1, <2>3
  <2> QED  BY <2>4, <1>5
<1>8. \A i \in 1..Len(p1) :
          Xor(first.ciphertext[i], second.ciphertext[i]) = Xor(p1[i], p2[i])
  <2>1. \A i \in 1..Len(q1) : Xor(c1[i], c2[i]) = Xor(q1[i], q2[i])
    <3> TAKE i \in 1..Len(q1)
    <3>1. /\ c1[i] = Xor(q1[i], StreamByte(ek, nonce, i, BlockSize))
          /\ c2[i] = Xor(q2[i], StreamByte(ek, nonce, i, BlockSize))
      BY <1>a, <1>b, Zenon
    <3>2. PICK a, b, k : /\ a = q1[i] /\ b = q2[i]
                         /\ k = StreamByte(ek, nonce, i, BlockSize)
      OBVIOUS
    <3>3. c1[i] = Xor(a, k) /\ c2[i] = Xor(b, k)
      BY <3>1, <3>2, Zenon
    <3>4. Xor(Xor(a, k), Xor(b, k)) = Xor(a, b)
      BY XorCommon
    <3> QED  BY <3>2, <3>3, <3>4
  <2> QED  BY <2>1, <1>5, Zenon
<1> USE DEF first, second
<1>9. /\ open(keys, nonce, <<Octet(1)>>, first.ciphertext, first.tag)
            = [opened |-> TRUE, plaintext |-> p1]
      /\ open(keys, nonce, <<Octet(4), Octet(5)>>, second.ciphertext, second.tag)
            = [opened |-> TRUE, plaintext |-> p2]
  BY <1>3, FullTagAssumption, OpenInvertsSeal
<1>10. /\ open(keys, nonce, <<Octet(1)>>, first.ciphertext, first.tag).opened
       /\ open(keys, nonce, <<Octet(4), Octet(5)>>, second.ciphertext, second.tag).opened
  <2>1. \A x : [opened |-> TRUE, plaintext |-> x].opened
    OBVIOUS
  <2> QED  BY <1>9, <2>1, Zenon
<1> QED  BY <1>7, <1>8, <1>10, Zenon DEF XorRelation, keys, nonce, p1, p2

(* The XOR test.                                                           *)
LEMMA XorSteps ==
    ASSUME CampaignInv, XorStep
    PROVE  CampaignInv'
<1>1. /\ At("xor") /\ Require(XorRelation)
      /\ UNCHANGED <<counter, snapshot, observed, reports, output, exits, ioError>>
  BY DEF XorStep
<1>2. /\ Resting /\ script # <<>> /\ script[1].op = "xor"
  BY <1>1, Ready
<1>3. script' = Tail(script) /\ verdict' = verdict
  BY <1>1, XorHolds DEF Require
<1>4. /\ After(script[1], Foreseen).obs = Foreseen.obs
      /\ After(script[1], Foreseen).snap = Foreseen.snap
  BY <1>2 DEF After
<1>5. TypeOK'
  BY <1>1, <1>3 DEF CampaignInv, TypeOK, counter
<1>6. RollbackCaught'
  BY <1>1 DEF CampaignInv, RollbackCaught, counter
<1>7. snapshot' = FileAt(After(script[1], Foreseen).snap)
      /\ observed' = After(script[1], Foreseen).obs
  BY <1>1, <1>2, <1>4 DEF Resting
<1>8. PICK op : op = "xor"
  OBVIOUS
<1> QED  BY <1>1, <1>3, <1>5, <1>6, <1>7, <1>8, Noted

-----------------------------------------------------------------------------
(* A returned value is the settled one: new while the counter only grows.  *)
LEMMA ReturnHistory ==
    ASSUME CampaignInv, NEW s \in {Scope, OtherScope},
           issued' = Append(issued, [scope |-> s, nonce |-> Settled])
    PROVE  /\ issued' \in Seq([scope : {Scope, OtherScope}, nonce : Nat])
           /\ Len(issued) \in Nat /\ Len(issued') = Len(issued) + 1
           /\ \A i \in 1..Len(issued) : issued'[i] = issued[i]
           /\ issued'[Len(issued) + 1].nonce = Settled
           /\ Foreseen.mode = "normal" =>
                 /\ Counter!NoNonceReuse'
                 /\ \A i \in 1..Len(issued') : issued'[i].nonce < Settled + 1
<1>1. PICK T : T = [scope : {Scope, OtherScope}, nonce : Nat]
  OBVIOUS
<1>2. PICK x : x = [scope |-> s, nonce |-> Settled]
  OBVIOUS
<1>3. Settled \in Nat
  BY HolderFacts, WidthAssumption
<1>4. issued \in Seq(T) /\ x \in T /\ x.nonce = Settled /\ issued' = Append(issued, x)
  BY <1>1, <1>2, <1>3 DEF CampaignInv, TypeOK
<1>5. /\ issued' \in Seq(T) /\ Len(issued) \in Nat /\ Len(issued') = Len(issued) + 1
      /\ \A i \in 1..Len(issued) : issued'[i] = issued[i]
      /\ issued'[Len(issued) + 1] = x
  BY <1>4
<1>6. \A i \in 1..Len(issued) : issued[i].nonce \in Nat
  BY IssuedNumbers DEF CampaignInv, TypeOK
<1>7. ASSUME Foreseen.mode = "normal"
      PROVE  /\ Counter!NoNonceReuse'
             /\ \A i \in 1..Len(issued') : issued'[i].nonce < Settled + 1
  <2>1. /\ \A i, j \in 1..Len(issued) : i < j => issued[i].nonce < issued[j].nonce
        /\ \A i \in 1..Len(issued) : issued[i].nonce < Settled
    BY <1>7 DEF CampaignInv, HistoryInv, Counter!NoNonceReuse
  <2>2. \A i \in 1..Len(issued') : i \in 1..Len(issued) \/ i = Len(issued) + 1
    BY <1>5
  <2>3. \A i \in 1..Len(issued') : issued'[i].nonce < Settled + 1
    BY <1>3, <1>4, <1>5, <1>6, <2>1, <2>2
  <2>4. ASSUME NEW i \in 1..Len(issued'), NEW j \in 1..Len(issued'), i < j
        PROVE  issued'[i].nonce < issued'[j].nonce
    <3>1. i \in 1..Len(issued) /\ issued'[i] = issued[i]
      BY <1>5, <2>4
    <3>2. CASE j \in 1..Len(issued)
      BY <3>1, <3>2, <2>1, <2>4, <1>5
    <3>3. CASE j = Len(issued) + 1
      BY <3>1, <3>3, <2>1, <1>4, <1>5
    <3> QED  BY <3>2, <3>3, <2>2
  <2>5. Counter!NoNonceReuse'
    BY <2>4 DEF Counter!NoNonceReuse
  <2> QED  BY <2>3, <2>5
<1> QED  BY <1>1, <1>4, <1>5, <1>7

(* A value of the first branch is returned again, and reported.            *)
LEMMA ReplayCaught ==
    ASSUME CampaignInv, Len(issued) \in Nat, Len(issued') = Len(issued) + 1,
           \A i \in 1..Len(issued) : issued'[i] = issued[i],
           NEW n \in Nat, issued'[Len(issued) + 1].nonce = n,
           Len(reports) \in Nat, Len(reports') = Len(reports) + 1,
           \A k \in 1..Len(reports) : reports'[k] = reports[k],
           reports'[Len(reports) + 1] = <<"key", n, "Reused">>,
           snapshot' = snapshot, snapshot # NoFile, n >= snapshot.next
    PROVE  RollbackCaught'
<1>1. \A k \in 1..(Len(reports) + 1) : k \in 1..Len(reports')
  OBVIOUS
<1>2. Len(reports) + 1 \in 1..Len(reports') /\ \A k \in 1..Len(reports) : k \in 1..Len(reports')
  OBVIOUS
<1>3. ASSUME NEW i \in 1..Len(issued'), NEW j \in 1..Len(issued'),
             i < j, issued'[i].nonce = issued'[j].nonce
      PROVE  /\ snapshot' # NoFile /\ issued'[i].nonce >= snapshot'.next
             /\ \E k \in 1..Len(reports') :
                   reports'[k] = <<"key", issued'[j].nonce, "Reused">>
  <2>1. i \in 1..Len(issued) /\ issued'[i] = issued[i]
    BY <1>3
  <2>2. CASE j \in 1..Len(issued)
    <3>1. issued'[j] = issued[j]
      BY <2>2
    <3>2. /\ snapshot # NoFile /\ issued[i].nonce >= snapshot.next
          /\ \E k \in 1..Len(reports) : reports[k] = <<"key", issued[j].nonce, "Reused">>
      BY <1>3, <2>1, <2>2, <3>1 DEF CampaignInv, RollbackCaught
    <3>3. PICK k \in 1..Len(reports) : reports[k] = <<"key", issued[j].nonce, "Reused">>
      BY <3>2
    <3>4. k \in 1..Len(reports') /\ reports'[k] = <<"key", issued'[j].nonce, "Reused">>
      BY <3>1, <3>3, <1>2
    <3> QED  BY <2>1, <3>2, <3>4
  <2>3. CASE j = Len(issued) + 1
    <3>1. issued'[j].nonce = n /\ issued'[i].nonce = n
      BY <2>3, <1>3
    <3> QED  BY <3>1, <1>2
  <2> QED  BY <2>2, <2>3
<1> QED  BY <1>3, Zenon DEF RollbackCaught

(* The parent's call returns the value its test requires.                  *)
LEMMA ReturnStep ==
    ASSUME CampaignInv, ParentReturns
    PROVE  CampaignInv'
<1>1. /\ verdict = "running" /\ pc[Parent] = "durable"
      /\ pc' = [pc EXCEPT ![Parent] = "idle"]
      /\ issued' = Append(issued, [scope |-> arg[Parent], nonce |-> cur[Parent].next])
      /\ lock' = Nobody
      /\ UNCHANGED <<arg, cur, state, stateDisk, tmp, tmpDisk, lost>>
      /\ UNCHANGED <<snapshot, output, exits, ioError>>
  BY DEF ParentReturns, Counter!Return, Counter!Goto, Counter!files
<1>2. PICK n : n = Settled
  OBVIOUS
<1>3. /\ Parent \in Procs /\ pc[Parent] \in Counter!Committed
      /\ pc[Parent] \in Counter!Holding \ {"locked"}
  BY <1>1 DEF Procs, Counter!Committed, Counter!Holding
<1>4. /\ n \in 0..MaxNonce /\ n \in Nat /\ cur[Parent].next = n /\ Value = n + 1
      /\ state = FileAt(Value)
  <2>1. Settled \in 0..MaxNonce /\ cur[Parent] = Drawing(Settled) /\ Value = Settled + 1
    BY <1>3, HolderFacts
  <2> QED  BY <1>2, <2>1, HolderFacts, WidthAssumption DEF Drawing
<1>5. Stage \in {"allocate", "replay"} /\ script # <<>> /\ script[1].op = Stage
  <2>1. Stage \in {"allocate", "refuse", "replay"} /\ Stage # "refuse"
    BY <1>1 DEF CampaignInv, CallerInv
  <2> QED  BY <2>1 DEF Stage, Op
<1>6. Met(script[1], Foreseen) /\ Foreseen \in Forecasts
  BY <1>5, ScriptFacts DEF CampaignInv
<1>7. n = Foreseen.next /\ observed = Foreseen.obs /\ snapshot = FileAt(Foreseen.snap)
  BY <1>1, <1>2, <1>5 DEF CampaignInv, PlanInv
<1>8. /\ script[1].expect = n
      /\ Stage = "allocate" => Foreseen.mode = "normal"
      /\ Stage = "replay" => Foreseen.snap \in 1..n /\ <<"key", n>> \in observed
  BY <1>5, <1>6, <1>7 DEF Met
<1>9. Stage = "replay" => Observation("key", n) = "Reused" /\ Observing("key", n)
  BY <1>1, <1>4, <1>5, <1>8 DEF ParentReturns, Observation, Op
<1>10. Stage = "allocate" => UNCHANGED <<observed, reports>>
  BY <1>5 DEF ParentReturns, Op
<1>11. script' = Tail(script) /\ verdict' = verdict
  <2>1. script[1].op # "refuse" /\ (script[1].op = "replay" => Observation("key", n) = "Reused")
    BY <1>5, <1>9
  <2>2. Require(/\ script[1].op # "refuse" /\ n = script[1].expect
                /\ script[1].op = "replay" => Observation("key", n) = "Reused")
    BY <1>4 DEF ParentReturns, Op
  <2> QED  BY <1>8, <2>1, <2>2 DEF Require
<1>12. ScriptInv' /\ Foreseen' = After(script[1], Foreseen)
  BY <1>5, <1>11, Advance DEF CampaignInv
<1>13. /\ Foreseen'.next = Foreseen.next + 1 /\ Foreseen'.snap = Foreseen.snap
       /\ Foreseen'.obs = Foreseen.obs
       /\ Foreseen'.mode = IF Stage = "replay" THEN "replayed" ELSE Foreseen.mode
       /\ Foreseen'.unforked => Foreseen.unforked
       /\ Foreseen'.unwritten => Foreseen.unwritten
  BY <1>5, <1>12 DEF After
<1>14. arg[Parent] \in {Scope, OtherScope}
  BY <1>3 DEF CampaignInv, TypeOK
<1>15. /\ issued' \in Seq([scope : {Scope, OtherScope}, nonce : Nat])
       /\ Len(issued) \in Nat /\ Len(issued') = Len(issued) + 1
       /\ \A i \in 1..Len(issued) : issued'[i] = issued[i]
       /\ issued'[Len(issued) + 1].nonce = n
       /\ Foreseen.mode = "normal" =>
             /\ Counter!NoNonceReuse'
             /\ \A i \in 1..Len(issued') : issued'[i].nonce < n + 1
  BY <1>1, <1>2, <1>4, <1>14, ReturnHistory
<1>16. observed' = observed
  BY <1>5, <1>8, <1>9, <1>10 DEF Observing
<1>17. Stage = "replay" =>
          /\ reports' \in Seq({"first", "second", "key"} \X Nat \X {"Fresh", "Reused"})
          /\ Len(reports') = Len(reports) + 1 /\ Len(reports) \in Nat
          /\ \A i \in 1..Len(reports) : reports'[i] = reports[i]
          /\ reports'[Len(reports) + 1] = <<"key", n, "Reused">>
  <2> SUFFICES ASSUME Stage = "replay" PROVE
          /\ reports' \in Seq({"first", "second", "key"} \X Nat \X {"Fresh", "Reused"})
          /\ Len(reports') = Len(reports) + 1 /\ Len(reports) \in Nat
          /\ \A i \in 1..Len(reports) : reports'[i] = reports[i]
          /\ reports'[Len(reports) + 1] = <<"key", n, "Reused">>
    OBVIOUS
  <2>1. "key" \in {"first", "second", "key"}
    OBVIOUS
  <2>2. PICK k \in {"first", "second", "key"} : k = "key"
    BY <2>1
  <2> QED  BY <2>2, <1>4, <1>9, ReportType
<1>18. reports' \in Seq({"first", "second", "key"} \X Nat \X {"Fresh", "Reused"})
  BY <1>5, <1>10, <1>17 DEF CampaignInv, TypeOK
<1>19. TypeOK'
  BY <1>1, <1>11, <1>15, <1>18 DEF CampaignInv, TypeOK, Counter!Labels
<1>20. Value' = n + 1 /\ Settled' = n + 1
  <2>1. Value' = Value
    BY <1>1 DEF Value
  <2> QED  BY <2>1, <1>1, <1>4 DEF Settled
<1>21. Resting'
  <2>1. \A p \in Offspring : pc[p] = "idle" /\ exits[p] # "running"
    BY <1>5, OffspringIdle
  <2>2. \A p \in Procs : pc'[p] = "idle"
    BY <2>1, <1>1 DEF CampaignInv, TypeOK, Procs
  <2>3. Foreseen'.unforked => \A p \in Offspring : exits'[p] = "none"
    BY <1>1, <1>5, <1>13 DEF CampaignInv, PlanInv
  <2>4. Foreseen'.unwritten => \A w \in Workers : output'[w] = <<>>
    BY <1>1, <1>5, <1>13 DEF CampaignInv, PlanInv
  <2>5. \A p \in Offspring : exits'[p] # "running" /\ (exits'[p] = "error" => ioError')
    BY <1>1, <2>1 DEF CampaignInv, CallerInv
  <2>6. state' = FileAt(Value') /\ Value' = Foreseen'.next
    BY <1>1, <1>4, <1>7, <1>13, <1>20
  <2> QED  BY <1>1, <1>7, <1>11, <1>13, <1>16, <2>2, <2>3, <2>4, <2>5, <2>6 DEF Resting
<1>22. CASE Stage = "allocate"
  <2>1. HistoryInv'
    BY <1>22, <1>8, <1>13, <1>15, <1>20 DEF HistoryInv
  <2>2. RollbackCaught'
    BY <1>22, <1>8, <1>15, <1>19, NothingToCatch
  <2> QED  BY <2>1, <2>2, <1>12, <1>19, <1>21, NextStarts
<1>23. CASE Stage = "replay"
  <2>1. HistoryInv'
    BY <1>23, <1>13 DEF HistoryInv
  <2>2. snapshot # NoFile /\ snapshot.next = Foreseen.snap
    <3>1. Foreseen.snap \in 1..MaxNonce
      BY <1>4, <1>8, <1>23, WidthAssumption
    <3>2. PICK s \in 1..MaxNonce : s = Foreseen.snap
      BY <3>1
    <3>3. s \in 0..(MaxNonce + 1) /\ s # 0 /\ ~ (s > MaxNonce)
      BY WidthAssumption
    <3>4. FileAt(s) = [scope |-> Scope, next |-> s, exhausted |-> s > MaxNonce]
      BY <3>3 DEF FileAt
    <3>5. Counter!Readable(FileAt(s), OtherScope) = FALSE
      <4>1. s > 0
        BY <3>3, WidthAssumption
      <4> QED  BY <4>1, <3>3, FileFacts
    <3>6. FileAt(s) # NoFile
      BY <3>5 DEF Counter!Readable
    <3> QED  BY <3>2, <3>4, <3>6, <1>7
  <2>3. n >= snapshot.next
    BY <2>2, <1>4, <1>8, <1>23
  <2>4. RollbackCaught'
    BY <2>2, <2>3, <1>1, <1>4, <1>15, <1>17, <1>23, ReplayCaught
  <2> QED  BY <2>1, <2>4, <1>12, <1>19, <1>21, NextStarts
<1> QED  BY <1>5, <1>22, <1>23

(* The call with another scope is refused; no other call of a test is.     *)
LEMMA RejectStep ==
    ASSUME CampaignInv, ParentRejected
    PROVE  CampaignInv'
<1>1. /\ verdict = "running" /\ pc[Parent] = "locked"
      /\ pc' = [pc EXCEPT ![Parent] = "idle"] /\ lock' = Nobody
      /\ Counter!Readable(state, arg[Parent])
            => Counter!Resolve(state, arg[Parent]).exhausted
      /\ Require(Op = "refuse" /\ InvalidArgument(arg[Parent]))
      /\ UNCHANGED <<arg, cur, state, stateDisk, tmp, tmpDisk, issued, lost>>
      /\ UNCHANGED <<snapshot, observed, reports, output, exits, ioError>>
  BY DEF ParentRejected, Counter!RejectState, Counter!Goto, Counter!files, Counter!history
<1>2. Parent \in Procs /\ pc[Parent] # "idle"
      /\ pc[Parent] \in Counter!Holding \ Counter!Committed
  BY <1>1 DEF Procs, Counter!Holding, Counter!Committed
<1>3. Stage \in {"allocate", "refuse", "replay"} /\ script # <<>> /\ script[1].op = Stage
  <2>1. Stage \in {"allocate", "refuse", "replay"}
    BY <1>2 DEF CampaignInv, CallerInv
  <2> QED  BY <2>1 DEF Stage, Op
<1>4. Met(script[1], Foreseen) /\ Foreseen \in Forecasts
  BY <1>3, ScriptFacts DEF CampaignInv
<1>5. /\ Value \in 0..(MaxNonce + 1) /\ state = FileAt(Value) /\ Settled = Value
      /\ Value = Foreseen.next
  <2>1. Value \in 0..(MaxNonce + 1) /\ state = FileAt(Value) /\ Settled = Value
    BY <1>2, HolderFacts
  <2> QED  BY <2>1, <1>1, <1>3 DEF CampaignInv, PlanInv
<1>6. Stage = "refuse"
  <2> SUFFICES ASSUME Stage # "refuse" PROVE FALSE
    OBVIOUS
  <2>1. Value <= MaxNonce
    BY <1>3, <1>4, <1>5 DEF Met
  <2>2. arg[Parent] = Scope
    BY <1>2, ScopeOfCaller
  <2>3. /\ Counter!Readable(state, Scope) /\ Counter!Resolve(state, Scope) = Drawing(Value)
    BY <2>1, <1>5, FileFacts
  <2>4. ~ Drawing(Value).exhausted
    BY DEF Drawing
  <2> QED  BY <1>1, <2>2, <2>3, <2>4
<1>7. script' = Tail(script) /\ verdict' = verdict
  <2>1. arg[Parent] = OtherScope /\ Value > 0
    BY <1>2, <1>3, <1>4, <1>5, <1>6 DEF CampaignInv, CallerInv, Met
  <2>2. state \notin {NoFile, Torn} /\ state.scope = Scope
    BY <2>1, <1>5, FileFacts
  <2>3. InvalidArgument(arg[Parent])
    BY <2>1, <2>2, RecordAssumption DEF InvalidArgument
  <2> QED  BY <2>3, <1>1, <1>3, <1>6 DEF Require, Op
<1>8. ScriptInv' /\ Foreseen' = After(script[1], Foreseen)
  BY <1>3, <1>7, Advance DEF CampaignInv
<1>9. /\ Foreseen'.next = Foreseen.next /\ Foreseen'.snap = Foreseen.snap
      /\ Foreseen'.obs = Foreseen.obs /\ Foreseen'.mode = Foreseen.mode
      /\ Foreseen'.unforked => Foreseen.unforked
      /\ Foreseen'.unwritten => Foreseen.unwritten
  BY <1>3, <1>6, <1>8 DEF After
<1>10. TypeOK'
  BY <1>1, <1>7 DEF CampaignInv, TypeOK, Counter!Labels
<1>11. Value' = Value /\ Settled' = Settled /\ Settled \in Nat
  <2>1. Value' = Value
    BY <1>1 DEF Value
  <2> QED  BY <2>1, <1>1, <1>5, WidthAssumption DEF Settled
<1>12. Resting'
  <2>1. \A p \in Offspring : pc[p] = "idle" /\ exits[p] # "running"
    BY <1>6, OffspringIdle
  <2>2. \A p \in Procs : pc'[p] = "idle"
    BY <2>1, <1>1 DEF CampaignInv, TypeOK, Procs
  <2>3. Foreseen'.unforked => \A p \in Offspring : exits'[p] = "none"
    BY <1>1, <1>6, <1>9 DEF CampaignInv, PlanInv
  <2>4. Foreseen'.unwritten => \A w \in Workers : output'[w] = <<>>
    BY <1>1, <1>6, <1>9 DEF CampaignInv, PlanInv
  <2>5. \A p \in Offspring : exits'[p] # "running" /\ (exits'[p] = "error" => ioError')
    BY <1>1, <2>1 DEF CampaignInv, CallerInv
  <2>6. observed' = Foreseen'.obs /\ snapshot' = FileAt(Foreseen'.snap)
    BY <1>1, <1>9 DEF CampaignInv, PlanInv
  <2> QED  BY <1>1, <1>5, <1>7, <1>9, <1>11, <2>2, <2>3, <2>4, <2>5, <2>6 DEF Resting
<1>13. HistoryInv'
  BY <1>1, <1>9, <1>11, HistoryKept
<1>14. RollbackCaught'
  BY <1>1 DEF CampaignInv, RollbackCaught
<1> QED  BY <1>8, <1>10, <1>12, <1>13, <1>14, NextStarts

-----------------------------------------------------------------------------
(* The campaign ends: with a failure only after a failed system call.      *)
LEMMA VerdictStep ==
    ASSUME CampaignInv, pc[Parent] = "idle",
           UNCHANGED <<counter, script, snapshot, observed, reports, output, exits>>,
           verdict' \in {"passed", "failed"}, ioError' \in BOOLEAN,
           verdict' = "failed" => ioError', ioError => ioError'
    PROVE  CampaignInv'
<1>1. UNCHANGED <<pc, arg, cur, lock, state, tmp, issued>>
  BY DEF counter
<1>2. Place' = Place /\ Value' = Value
  BY <1>1 DEF Place, Value
<1>3. Foreseen' = Foreseen /\ Stage' = Stage /\ Settled' = Settled
  BY <1>1, <1>2 DEF Foreseen, Stage, Op, Settled
<1>4. TypeOK'
  BY <1>1 DEF CampaignInv, TypeOK
<1>5. ScriptInv'
  BY <1>2 DEF CampaignInv, ScriptInv
<1>6. Counter!LockInv' /\ HoldInv'
  BY <1>1, <1>2, <1>3 DEF CampaignInv, HoldInv, Counter!LockInv
<1>7. CallerInv'
  BY <1>1, <1>3 DEF CampaignInv, CallerInv
<1>8. PlanInv'
  BY <1>3 DEF CampaignInv, PlanInv
<1>9. OutputInv'
  BY <1>3 DEF CampaignInv, OutputInv
<1>10. HistoryInv'
  BY <1>1, <1>3 DEF CampaignInv, HistoryInv, Counter!NoNonceReuse
<1>11. CampaignSound' /\ RollbackCaught'
  BY <1>1 DEF CampaignInv, CampaignSound, RollbackCaught
<1> QED  BY <1>4, <1>5, <1>6, <1>7, <1>8, <1>9, <1>10, <1>11 DEF CampaignInv

(* The parent waits in no call while it forks, waits or returns.           *)
LEMMA ParentIdle ==
    ASSUME CampaignInv, Stage \in {"crash", "workers", "end"}
    PROVE  pc[Parent] = "idle"
  BY DEF CampaignInv, CallerInv

(* main returns.                                                           *)
LEMMA ExitStep ==
    ASSUME CampaignInv, Exit
    PROVE  CampaignInv'
<1>1. /\ script = <<>> /\ verdict' = "passed"
      /\ UNCHANGED <<counter, script, snapshot, observed, reports, output, exits, ioError>>
  BY DEF Exit
<1>2. pc[Parent] = "idle"
  BY <1>1, ParentIdle DEF Stage
<1> QED  BY <1>1, <1>2, VerdictStep DEF CampaignInv, TypeOK

(* A call of the parent outside allocate fails.                            *)
LEMMA CallFailsStep ==
    ASSUME CampaignInv, CallFails
    PROVE  CampaignInv'
<1>1. Stage \in {"directory", "copy", "restore", "crash", "workers"}
  BY DEF CallFails, At, Stage
<1>2. pc[Parent] = "idle"
  BY <1>1 DEF CampaignInv, CallerInv
<1> QED  BY <1>2, VerdictStep DEF CallFails

(* A forked process starts.                                                *)
LEMMA ForkStep ==
    ASSUME CampaignInv, NEW p \in Offspring, Fork(p)
    PROVE  CampaignInv'
<1>1. /\ verdict = "running" /\ script # <<>> /\ exits[p] = "none"
      /\ Stage = IF p = Child THEN "crash" ELSE "workers"
      /\ exits' = [exits EXCEPT ![p] = "running"]
      /\ UNCHANGED <<counter, script, snapshot, observed, reports, output, verdict, ioError>>
  BY DEF Fork, At, Stage
<1>2. UNCHANGED <<pc, arg, cur, lock, state, tmp, issued>>
  BY <1>1 DEF counter
<1>3. Place' = Place /\ Value' = Value
  BY <1>1, <1>2 DEF Place, Value
<1>4. Foreseen' = Foreseen /\ Stage' = Stage /\ Settled' = Settled
  BY <1>1, <1>2, <1>3 DEF Foreseen, Stage, Op, Settled
<1>5. \A q \in Offspring : exits'[q] = IF q = p THEN "running" ELSE exits[q]
  BY <1>1 DEF CampaignInv, TypeOK
<1>6. TypeOK'
  BY <1>1, <1>2 DEF CampaignInv, TypeOK
<1>7. ScriptInv'
  BY <1>1, <1>3 DEF CampaignInv, ScriptInv
<1>8. Counter!LockInv' /\ HoldInv'
  BY <1>2, <1>3, <1>4 DEF CampaignInv, HoldInv, Counter!LockInv
<1>9. CallerInv'
  <2>1. pc'[Parent] = "idle"
    BY <1>1, <1>2, ParentIdle
  <2>2. \A q \in Offspring :
          /\ pc'[q] # "idle" => exits'[q] = "running" /\ arg'[q] = Scope
          /\ exits'[q] = "running" => Stage' = IF q = Child THEN "crash" ELSE "workers"
          /\ exits'[q] = "error" => ioError'
    BY <1>1, <1>2, <1>4, <1>5 DEF CampaignInv, CallerInv
  <2> QED  BY <2>1, <2>2 DEF CallerInv
<1>10. PlanInv'
  <2>1. Stage = "crash" => p = Child
    BY <1>1
  <2>2. Stage = "crash" =>
          /\ exits'[Child] = "running" /\ exits[Child] = "none"
          /\ Settled = Foreseen.next + IF "none" \in Counter!Committed THEN 1 ELSE 0
    BY <1>1, <1>5, <2>1 DEF CampaignInv, PlanInv
  <2>3. "none" \notin Counter!Committed /\ "running" \notin Counter!Committed
    BY DEF Counter!Committed
  <2>4. Stage' = "crash" =>
          /\ exits'[Child] \in {"none", "running", "error", script'[1].point}
          /\ exits'[Child] # "error" =>
                Settled' = Foreseen'.next
                          + IF exits'[Child] \in Counter!Committed THEN 1 ELSE 0
    BY <1>4, <2>2, <2>3
  <2>5. Stage' \in {"crash", "workers"}
    BY <1>1, <1>4
  <2>6. /\ observed' = Foreseen'.obs /\ snapshot' = FileAt(Foreseen'.snap)
        /\ Foreseen'.unwritten /\ Stage' # "workers" => \A w \in Workers : output'[w] = <<>>
    BY <1>1, <1>4 DEF CampaignInv, PlanInv
  <2> QED  BY <2>4, <2>5, <2>6 DEF PlanInv
<1>11. OutputInv'
  <2> SUFFICES ASSUME Stage' = "workers" PROVE OutputInv'
    BY DEF OutputInv
  <2>1. /\ \A w \in Workers :
              /\ exits[w] \in {"none", "running", "error", "0"}
              /\ Len(output[w]) <= PerWorker
              /\ exits[w] \in {"none", "running"} => Len(output[w]) < PerWorker
              /\ exits[w] = "0" => Len(output[w]) = PerWorker
        /\ \A w \in Workers : \A i \in 1..Len(output[w]) : output[w][i] < Settled
        /\ \A w, x \in Workers : \A i \in 1..Len(output[w]), j \in 1..Len(output[x]) :
              output[w][i] = output[x][j] => w = x /\ i = j
        /\ (\A w \in Workers : exits[w] # "error") =>
              \A n \in 0..(Settled - 1) :
                 \E w \in Workers : \E i \in 1..Len(output[w]) : output[w][i] = n
    BY <1>4 DEF CampaignInv, OutputInv
  <2>2. \A w \in Workers :
          /\ exits'[w] \in {"none", "running", "error", "0"}
          /\ exits'[w] \in {"none", "running"} => exits[w] \in {"none", "running"}
          /\ exits'[w] = "0" => exits[w] = "0"
          /\ exits[w] = "error" => exits'[w] = "error"
    BY <1>1, <1>5, <2>1 DEF Offspring
  <2> QED  BY <1>1, <1>4, <2>1, <2>2 DEF OutputInv
<1>12. HistoryInv'
  BY <1>2, <1>4 DEF CampaignInv, HistoryInv, Counter!NoNonceReuse
<1>13. CampaignSound' /\ RollbackCaught'
  BY <1>1, <1>2 DEF CampaignInv, CampaignSound, RollbackCaught
<1> QED  BY <1>6, <1>7, <1>8, <1>9, <1>10, <1>11, <1>12, <1>13 DEF CampaignInv

(* A call of the parent begins.                                            *)
LEMMA ParentCallsStep ==
    ASSUME CampaignInv, ParentCalls
    PROVE  CampaignInv'
<1>1. /\ verdict = "running" /\ script # <<>>
      /\ Stage \in {"allocate", "refuse", "replay"} /\ script[1].op = Stage
      /\ Counter!Begin(Parent, script[1].scope) /\ UNCHANGED others
  BY DEF ParentCalls, At, Call, Stage, Op, others
<1>2. Met(script[1], Foreseen)
  BY <1>1, ScriptFacts DEF CampaignInv
<1>3. script[1].scope \in {Scope, OtherScope}
  BY <1>1, <1>2 DEF Met
<1>4. Parent \in Procs /\ Parent \notin Offspring
  BY ProcessAssumption DEF Procs, Offspring
<1>5. PICK s \in {Scope, OtherScope} : s = script[1].scope
  BY <1>3
<1> QED  BY <1>1, <1>4, <1>5, CallSteps

(* A call of a forked process begins.                                      *)
LEMMA ChildCallsStep ==
    ASSUME CampaignInv, NEW p \in Offspring, ChildCalls(p)
    PROVE  CampaignInv'
<1>1. exits[p] = "running" /\ Counter!Begin(p, Scope) /\ UNCHANGED others
  BY DEF ChildCalls, Call, others
<1>2. p \in Procs /\ p # Parent
  BY ProcessAssumption DEF Procs, Offspring
<1>3. Scope \in {Scope, OtherScope}
  OBVIOUS
<1> QED  BY <1>1, <1>2, <1>3, CallSteps

-----------------------------------------------------------------------------
(* A call is cut short: the lock goes, the files stay, and a value that    *)
(* was persisted is lost.                                                  *)
LEMMA AbortFacts ==
    ASSUME CampaignInv, NEW p \in Procs, Counter!Abort(p)
    PROVE  /\ pc[p] # "idle" /\ pc' = [pc EXCEPT ![p] = "idle"]
           /\ \A q \in Procs : pc'[q] = IF q = p THEN "idle" ELSE pc[q]
           /\ lock' \in Procs \cup {Nobody}
           /\ UNCHANGED <<arg, cur, state, tmp, issued>>
           /\ Value' = Value
           /\ Settled' = IF pc[p] \in Counter!Committed THEN Settled + 1 ELSE Settled
           /\ Settled \in Nat /\ Settled' \in Nat /\ Settled' >= Settled
           /\ Counter!LockInv' /\ HoldInv'
<1>1. /\ pc[p] # "idle" /\ pc' = [pc EXCEPT ![p] = "idle"]
      /\ lock' = IF lock = p THEN Nobody ELSE lock
      /\ UNCHANGED <<arg, cur, state, stateDisk, tmp, tmpDisk, issued>>
  BY DEF Counter!Abort, Counter!files
<1>2. \A q \in Procs : pc'[q] = IF q = p THEN "idle" ELSE pc[q]
  BY <1>1 DEF CampaignInv, TypeOK
<1>3. lock \in Procs \cup {Nobody} /\ \A q \in Procs : pc[q] \in Counter!Holding <=> lock = q
  BY HolderFacts DEF CampaignInv, TypeOK
<1>4. "idle" \notin Counter!Holding /\ Counter!Committed \subseteq Counter!Holding
  BY DEF Counter!Holding, Counter!Committed
<1>5. Value' = Value
  BY <1>1 DEF Value
<1>6. /\ Settled \in Nat /\ state = FileAt(Value)
      /\ pc[p] \in Counter!Committed => Value = Settled + 1
      /\ pc[p] \in Counter!Holding \ Counter!Committed => Settled = Value
  BY HolderFacts, WidthAssumption
<1>7. Counter!LockInv'
  BY <1>1, <1>2, <1>3, <1>4, ProcessAssumption DEF Counter!LockInv
<1>8. CASE lock = p
  <2>1. pc[p] \in Counter!Holding /\ lock' = Nobody
    BY <1>1, <1>3, <1>8
  <2>2. Settled' = Value'
    BY <2>1 DEF Settled
  <2>3. Settled' = IF pc[p] \in Counter!Committed THEN Settled + 1 ELSE Settled
    BY <2>1, <2>2, <1>5, <1>6
  <2>4. \A q \in Procs : pc'[q] \notin Counter!Holding
    BY <1>2, <1>3, <1>4, <1>8
  <2>5. HoldInv'
    BY <2>4, <1>1, <1>5, <1>6 DEF HoldInv
  <2> QED  BY <1>1, <1>2, <1>5, <1>6, <1>7, <2>1, <2>3, <2>5
<1>9. CASE lock # p
  <2>1. pc[p] \notin Counter!Holding /\ pc[p] \notin Counter!Committed /\ lock' = lock
    BY <1>1, <1>3, <1>4, <1>9
  <2>2. Settled' = Settled
    <3>1. lock # Nobody => pc'[lock] = pc[lock]
      BY <1>2, <1>3, <1>9
    <3> QED  BY <3>1, <2>1, <1>5 DEF Settled
  <2>3. \A q \in Procs : pc'[q] \in Counter!Holding => pc'[q] = pc[q]
    BY <1>2, <1>4
  <2>4. HoldInv'
    BY <2>2, <2>3, <1>1, <1>5 DEF CampaignInv, HoldInv
  <2> QED  BY <1>1, <1>2, <1>3, <1>5, <1>6, <1>7, <2>1, <2>2, <2>4
<1> QED  BY <1>8, <1>9

(* The child dies at the persistence point the test has chosen.            *)
LEMMA CrashStep ==
    ASSUME CampaignInv, crash_hook
    PROVE  CampaignInv'
<1>1. /\ script # <<>> /\ Stage = "crash" /\ script[1].op = "crash"
      /\ pc[Child] = script[1].point /\ Counter!Abort(Child)
      /\ exits' = [exits EXCEPT ![Child] = script[1].point]
      /\ UNCHANGED <<script, snapshot, observed, reports, output, verdict, ioError>>
  <2>1. Child \in Offspring /\ exits[Child] = "running"
    BY DEF crash_hook, Offspring
  <2>2. Stage = "crash"
    BY <2>1 DEF CampaignInv, CallerInv
  <2> QED  BY <2>2 DEF crash_hook, Stage, Op
<1>2. Child \in Offspring /\ Child \in Procs /\ Child # Parent /\ Parent \in Procs
  BY ProcessAssumption DEF Offspring, Procs
<1>3. PICK point : point = script[1].point
  OBVIOUS
<1>4. /\ point \in Counter!Holding
      /\ point \notin {"none", "running", "error", "0", "idle"}
  <2>1. Met(script[1], Foreseen)
    BY <1>1, ScriptFacts DEF CampaignInv
  <2> QED  BY <1>1, <1>3, <2>1 DEF Met, Counter!Holding
<1>5. /\ pc' = [pc EXCEPT ![Child] = "idle"]
      /\ \A q \in Procs : pc'[q] = IF q = Child THEN "idle" ELSE pc[q]
      /\ lock' \in Procs \cup {Nobody}
      /\ UNCHANGED <<arg, cur, state, tmp, issued>>
      /\ Settled' = IF point \in Counter!Committed THEN Settled + 1 ELSE Settled
      /\ Settled \in Nat /\ Settled' \in Nat /\ Settled' >= Settled
      /\ Counter!LockInv' /\ HoldInv'
  BY <1>1, <1>2, <1>3, AbortFacts
<1>6. Place' = Place
  BY <1>1 DEF Place
<1>7. Foreseen' = Foreseen /\ Stage' = Stage
  BY <1>1, <1>6 DEF Foreseen, Stage, Op
<1>8. exits[Child] = "running" /\ exits'[Child] = point
      /\ \A q \in Offspring : q # Child => exits'[q] = exits[q]
  BY <1>1, <1>2, <1>3, <1>4 DEF CampaignInv, CallerInv, TypeOK
<1>9. TypeOK'
  <2>1. exits' \in [Offspring -> {"none", "running", "error", "0"} \cup Counter!Holding]
    BY <1>1, <1>3, <1>4 DEF CampaignInv, TypeOK
  <2> QED  BY <1>1, <1>5, <2>1 DEF CampaignInv, TypeOK, Counter!Labels
<1>10. ScriptInv'
  BY <1>1, <1>6 DEF CampaignInv, ScriptInv
<1>11. CallerInv'
  <2>1. pc'[Parent] = "idle"
    BY <1>1, <1>2, <1>5, ParentIdle
  <2>2. \A q \in Offspring :
          /\ pc'[q] # "idle" => exits'[q] = "running" /\ arg'[q] = Scope
          /\ exits'[q] = "running" => Stage' = IF q = Child THEN "crash" ELSE "workers"
          /\ exits'[q] = "error" => ioError'
    BY <1>1, <1>4, <1>5, <1>7, <1>8 DEF CampaignInv, CallerInv, Procs
  <2> QED  BY <2>1, <2>2 DEF CallerInv
<1>12. PlanInv'
  <2>1. "running" \notin Counter!Committed
    BY DEF Counter!Committed
  <2>2. Settled = Foreseen.next + IF exits[Child] \in Counter!Committed THEN 1 ELSE 0
    BY <1>1, <1>8 DEF CampaignInv, PlanInv
  <2>3. Foreseen.next \in Nat
    BY ScriptFacts, WidthAssumption DEF CampaignInv, Forecasts
  <2>4. Settled = Foreseen.next
    BY <1>8, <2>1, <2>2, <2>3
  <2>5. Settled' = Foreseen'.next + IF exits'[Child] \in Counter!Committed THEN 1 ELSE 0
    BY <1>5, <1>7, <1>8, <2>3, <2>4
  <2>6. /\ observed' = Foreseen'.obs /\ snapshot' = FileAt(Foreseen'.snap)
        /\ Foreseen'.unwritten /\ Stage' # "workers" => \A w \in Workers : output'[w] = <<>>
    BY <1>1, <1>7 DEF CampaignInv, PlanInv
  <2>7. exits'[Child] \in {"none", "running", "error", script'[1].point} /\ Stage' = "crash"
    BY <1>1, <1>3, <1>7, <1>8
  <2> QED  BY <2>5, <2>6, <2>7 DEF PlanInv
<1>13. OutputInv'
  BY <1>1, <1>7 DEF OutputInv
<1>14. HistoryInv'
  BY <1>5, <1>7, HistoryKept
<1>15. CampaignSound' /\ RollbackCaught'
  BY <1>1, <1>5 DEF CampaignInv, CampaignSound, RollbackCaught
<1> QED  BY <1>5, <1>9, <1>10, <1>11, <1>12, <1>13, <1>14, <1>15 DEF CampaignInv

(* A system call of the parent fails.                                      *)
LEMMA ParentFailsStep ==
    ASSUME CampaignInv, IoFails(Parent)
    PROVE  CampaignInv'
<1>1. /\ Counter!Abort(Parent) /\ ioError' = TRUE
      /\ verdict' = "failed"
      /\ UNCHANGED <<script, snapshot, observed, reports, output, exits>>
  BY DEF IoFails
<1>2. Parent \in Procs /\ Offspring \subseteq Procs /\ Parent \notin Offspring
  BY ProcessAssumption DEF Offspring, Procs
<1>3. /\ pc[Parent] # "idle" /\ pc' = [pc EXCEPT ![Parent] = "idle"]
      /\ \A q \in Procs : pc'[q] = IF q = Parent THEN "idle" ELSE pc[q]
      /\ lock' \in Procs \cup {Nobody}
      /\ UNCHANGED <<arg, cur, state, tmp, issued>>
      /\ Settled' \in Nat /\ Settled' >= Settled
      /\ Counter!LockInv' /\ HoldInv'
  BY <1>1, <1>2, AbortFacts
<1>4. Place' = Place
  BY <1>1 DEF Place
<1>5. Foreseen' = Foreseen /\ Stage' = Stage /\ Stage \notin {"crash", "workers"}
  <2>1. Stage \in {"allocate", "refuse", "replay"}
    BY <1>3 DEF CampaignInv, CallerInv
  <2> QED  BY <1>1, <1>4, <2>1 DEF Foreseen, Stage, Op
<1>6. TypeOK'
  BY <1>1, <1>3 DEF CampaignInv, TypeOK, Counter!Labels
<1>7. ScriptInv'
  BY <1>1, <1>4 DEF CampaignInv, ScriptInv
<1>8. CallerInv'
  <2>1. pc'[Parent] = "idle"
    BY <1>2, <1>3
  <2>2. \A q \in Offspring :
          /\ pc'[q] # "idle" => exits'[q] = "running" /\ arg'[q] = Scope
          /\ exits'[q] = "running" => Stage' = IF q = Child THEN "crash" ELSE "workers"
          /\ exits'[q] = "error" => ioError'
    BY <1>1, <1>2, <1>3, <1>5 DEF CampaignInv, CallerInv
  <2> QED  BY <2>1, <2>2 DEF CallerInv
<1>9. PlanInv'
  BY <1>1, <1>5 DEF CampaignInv, PlanInv
<1>10. OutputInv'
  BY <1>5 DEF OutputInv
<1>11. HistoryInv'
  BY <1>3, <1>5, HistoryKept
<1>12. CampaignSound' /\ RollbackCaught'
  BY <1>1, <1>3 DEF CampaignInv, CampaignSound, RollbackCaught
<1> QED  BY <1>3, <1>6, <1>7, <1>8, <1>9, <1>10, <1>11, <1>12 DEF CampaignInv

(* A forked process leaves with an error: the parent will find it, and no  *)
(* gap of the output files counts any more.                                *)
LEMMA LeavesWithError ==
    ASSUME CampaignInv, NEW p \in Offspring, exits[p] = "running",
           exits' = [exits EXCEPT ![p] = "error"], ioError' = TRUE,
           UNCHANGED <<script, snapshot, observed, reports, output, verdict, arg>>,
           \A q \in Procs : pc'[q] = IF q = p THEN "idle" ELSE pc[q],
           Settled \in Nat, Settled' \in Nat, Settled' >= Settled
    PROVE  /\ Foreseen' = Foreseen /\ Stage' = Stage
           /\ exits' \in [Offspring -> {"none", "running", "error", "0"} \cup Counter!Holding]
           /\ (ScriptInv /\ CallerInv /\ PlanInv /\ OutputInv /\ CampaignSound)'
<1>1. p \in Procs /\ p # Parent /\ Parent \in Procs /\ Offspring \subseteq Procs
  BY ProcessAssumption DEF Offspring, Procs
<1>2. Place' = Place
  BY DEF Place
<1>3. Foreseen' = Foreseen /\ Stage' = Stage
  BY <1>2 DEF Foreseen, Stage, Op
<1>4. Stage = IF p = Child THEN "crash" ELSE "workers"
  BY DEF CampaignInv, CallerInv
<1>5. \A q \in Offspring : exits'[q] = IF q = p THEN "error" ELSE exits[q]
  BY DEF CampaignInv, TypeOK
<1>6. exits' \in [Offspring -> {"none", "running", "error", "0"} \cup Counter!Holding]
  <2>1. PICK E : E = {"none", "running", "error", "0"} \cup Counter!Holding
    OBVIOUS
  <2>2. exits \in [Offspring -> E] /\ "error" \in E
    BY <2>1 DEF CampaignInv, TypeOK
  <2> QED  BY <2>1, <2>2
<1>7. ScriptInv'
  BY <1>2 DEF CampaignInv, ScriptInv
<1>8. CallerInv'
  <2>1. pc'[Parent] = "idle"
    BY <1>1, <1>4, ParentIdle
  <2>2. \A q \in Offspring :
          /\ pc'[q] # "idle" => exits'[q] = "running" /\ arg'[q] = Scope
          /\ exits'[q] = "running" => Stage' = IF q = Child THEN "crash" ELSE "workers"
          /\ exits'[q] = "error" => ioError'
    BY <1>1, <1>3, <1>5 DEF CampaignInv, CallerInv
  <2> QED  BY <2>1, <2>2 DEF CallerInv
<1>9. PlanInv'
  <2>1. Stage' = "crash" => exits'[Child] = "error"
    BY <1>3, <1>4, <1>5 DEF Offspring
  <2>2. Stage' \in {"crash", "workers"}
    BY <1>3, <1>4
  <2>3. /\ observed' = Foreseen'.obs /\ snapshot' = FileAt(Foreseen'.snap)
        /\ Foreseen'.unwritten /\ Stage' # "workers" => \A w \in Workers : output'[w] = <<>>
    BY <1>3 DEF CampaignInv, PlanInv
  <2>4. Stage' = "crash" =>
          /\ exits'[Child] \in {"none", "running", "error", script'[1].point}
          /\ ~ (exits'[Child] # "error")
    BY <2>1
  <2> QED  BY <2>2, <2>3, <2>4, Zenon DEF PlanInv
<1>10. OutputInv'
  <2> SUFFICES ASSUME Stage' = "workers" PROVE OutputInv'
    BY DEF OutputInv
  <2>1. /\ \A w \in Workers :
              /\ exits[w] \in {"none", "running", "error", "0"}
              /\ Len(output[w]) <= PerWorker
              /\ exits[w] \in {"none", "running"} => Len(output[w]) < PerWorker
              /\ exits[w] = "0" => Len(output[w]) = PerWorker
        /\ \A w \in Workers : \A i \in 1..Len(output[w]) : output[w][i] < Settled
        /\ \A w, x \in Workers : \A i \in 1..Len(output[w]), j \in 1..Len(output[x]) :
              output[w][i] = output[x][j] => w = x /\ i = j
    BY <1>3 DEF CampaignInv, OutputInv
  <2>2. p \in Workers /\ exits'[p] = "error" /\ Workers \subseteq Offspring
    BY <1>3, <1>4, <1>5 DEF Offspring
  <2>3. \A w \in Workers :
          /\ exits'[w] \in {"none", "running", "error", "0"}
          /\ Len(output'[w]) <= PerWorker
          /\ exits'[w] \in {"none", "running"} => Len(output'[w]) < PerWorker
          /\ exits'[w] = "0" => Len(output'[w]) = PerWorker
    BY <1>5, <2>1, <2>2
  <2>4. \A w \in Workers : output[w] \in Seq(Nat)
    BY DEF CampaignInv, TypeOK
  <2>5. \A w \in Workers : \A i \in 1..Len(output[w]) : output[w][i] < Settled'
    BY <2>1, <2>4
  <2>6. /\ \A w \in Workers : \A i \in 1..Len(output'[w]) : output'[w][i] < Settled'
        /\ \A w, x \in Workers : \A i \in 1..Len(output'[w]), j \in 1..Len(output'[x]) :
              output'[w][i] = output'[x][j] => w = x /\ i = j
    BY <2>1, <2>5
  <2>7. ~ (\A w \in Workers : exits'[w] # "error")
    BY <2>2
  <2> QED  BY <2>3, <2>6, <2>7 DEF OutputInv
<1>11. CampaignSound'
  BY DEF CampaignSound
<1> QED  BY <1>3, <1>6, <1>7, <1>8, <1>9, <1>10, <1>11

(* A system call of a forked process fails.                                *)
LEMMA ChildFailsStep ==
    ASSUME CampaignInv, NEW p \in Offspring, IoFails(p)
    PROVE  CampaignInv'
<1>1. p \in Procs /\ p # Parent
  BY ProcessAssumption DEF Offspring, Procs
<1>2. /\ Counter!Abort(p) /\ ioError' = TRUE
      /\ exits' = [exits EXCEPT ![p] = "error"]
      /\ UNCHANGED <<script, snapshot, observed, reports, output, verdict>>
  BY <1>1 DEF IoFails
<1>3. /\ pc[p] # "idle" /\ pc' = [pc EXCEPT ![p] = "idle"]
      /\ \A q \in Procs : pc'[q] = IF q = p THEN "idle" ELSE pc[q]
      /\ lock' \in Procs \cup {Nobody}
      /\ UNCHANGED <<arg, cur, state, tmp, issued>>
      /\ Settled \in Nat /\ Settled' \in Nat /\ Settled' >= Settled
      /\ Counter!LockInv' /\ HoldInv'
  BY <1>1, <1>2, AbortFacts
<1>4. exits[p] = "running"
  BY <1>3 DEF CampaignInv, CallerInv
<1>5. /\ Foreseen' = Foreseen /\ Stage' = Stage
      /\ exits' \in [Offspring -> {"none", "running", "error", "0"} \cup Counter!Holding]
      /\ (ScriptInv /\ CallerInv /\ PlanInv /\ OutputInv /\ CampaignSound)'
  BY <1>2, <1>3, <1>4, LeavesWithError
<1>6. TypeOK'
  BY <1>2, <1>3, <1>5 DEF CampaignInv, TypeOK, Counter!Labels
<1>7. HistoryInv'
  BY <1>3, <1>5, HistoryKept
<1>8. RollbackCaught'
  BY <1>2, <1>3 DEF CampaignInv, RollbackCaught
<1> QED  BY <1>3, <1>5, <1>6, <1>7, <1>8 DEF CampaignInv

-----------------------------------------------------------------------------
(* A worker's call returns: its output file takes the settled value.       *)
LEMMA OutputGrows ==
    ASSUME CampaignInv, Stage = "workers", NEW w \in Workers, exits[w] = "running",
           output' = [output EXCEPT ![w] = Append(@, Settled)],
           exits' = [exits EXCEPT ![w] = IF Len(output'[w]) = PerWorker THEN "0" ELSE @],
           Settled' = Settled + 1
    PROVE  OutputInv' /\ output' \in [Workers -> Seq(Nat)]
<1>1. /\ \A x \in Workers :
            /\ exits[x] \in {"none", "running", "error", "0"}
            /\ Len(output[x]) <= PerWorker
            /\ exits[x] \in {"none", "running"} => Len(output[x]) < PerWorker
            /\ exits[x] = "0" => Len(output[x]) = PerWorker
      /\ \A x \in Workers : \A i \in 1..Len(output[x]) : output[x][i] < Settled
      /\ \A x, y \in Workers : \A i \in 1..Len(output[x]), j \in 1..Len(output[y]) :
            output[x][i] = output[y][j] => x = y /\ i = j
      /\ (\A x \in Workers : exits[x] # "error") =>
            \A n \in 0..(Settled - 1) :
               \E x \in Workers : \E i \in 1..Len(output[x]) : output[x][i] = n
  BY DEF CampaignInv, OutputInv
<1>2. PICK n : n = Settled
  OBVIOUS
<1>3. n \in Nat /\ PerWorker \in Nat
  BY <1>2, HolderFacts, WidthAssumption
<1>4. /\ output \in [Workers -> Seq(Nat)] /\ w \in Offspring /\ Workers \subseteq Offspring
      /\ \A x \in Offspring : exits'[x] = IF x = w
            THEN IF Len(output'[w]) = PerWorker THEN "0" ELSE "running" ELSE exits[x]
  BY DEF CampaignInv, TypeOK, Offspring
<1>5. output' \in [Workers -> Seq(Nat)]
  BY <1>2, <1>3, <1>4
<1>6. PICK k : k = Len(output[w]) + 1
  OBVIOUS
<1>7. /\ k \in Nat /\ Len(output[w]) \in Nat /\ Len(output'[w]) = k /\ output'[w][k] = n
      /\ \A i \in 1..Len(output[w]) : output'[w][i] = output[w][i]
      /\ \A x \in Workers : x # w => output'[x] = output[x]
  BY <1>2, <1>3, <1>4, <1>6
<1>8. /\ \A i \in 1..Len(output'[w]) : i = k \/ i \in 1..Len(output[w])
      /\ \A i \in 1..Len(output[w]) : i \in 1..Len(output'[w])
      /\ k \in 1..Len(output'[w])
  BY <1>6, <1>7
<1>9. \A x \in Workers :
          /\ exits'[x] \in {"none", "running", "error", "0"}
          /\ Len(output'[x]) <= PerWorker
          /\ exits'[x] \in {"none", "running"} => Len(output'[x]) < PerWorker
          /\ exits'[x] = "0" => Len(output'[x]) = PerWorker
  <2>1. Len(output[w]) < PerWorker
    BY <1>1
  <2>2. Len(output'[w]) <= PerWorker
    BY <2>1, <1>3, <1>6, <1>7
  <2>3. Len(output'[w]) # PerWorker => Len(output'[w]) < PerWorker
    BY <2>2, <1>3, <1>7
  <2> QED  BY <2>2, <2>3, <1>1, <1>4, <1>7
<1>10. \A x \in Workers : \A i \in 1..Len(output'[x]) :
          \/ x = w /\ i = k /\ output'[x][i] = n
          \/ ~ (x = w /\ i = k) /\ i \in 1..Len(output[x]) /\ output'[x][i] = output[x][i]
  <2>1. k \notin 1..Len(output[w])
    BY <1>6, <1>7
  <2> QED  BY <2>1, <1>7, <1>8
<1>11. \A x \in Workers : \A i \in 1..Len(output[x]) : output[x][i] \in Nat
  BY <1>4
<1>12. \A x \in Workers : \A i \in 1..Len(output[x]) : output[x][i] < n /\ output[x][i] # n
  BY <1>1, <1>2, <1>3, <1>11
<1>13. \A x \in Workers : \A i \in 1..Len(output'[x]) : output'[x][i] < Settled'
  <2> TAKE x \in Workers
  <2> TAKE i \in 1..Len(output'[x])
  <2>1. CASE x = w /\ i = k /\ output'[x][i] = n
    BY <2>1, <1>2, <1>3
  <2>2. CASE i \in 1..Len(output[x]) /\ output'[x][i] = output[x][i]
    BY <2>2, <1>2, <1>3, <1>11, <1>12
  <2> QED  BY <2>1, <2>2, <1>10
<1>14. \A x, y \in Workers : \A i \in 1..Len(output'[x]), j \in 1..Len(output'[y]) :
          output'[x][i] = output'[y][j] => x = y /\ i = j
  <2> SUFFICES ASSUME NEW x \in Workers, NEW y \in Workers, NEW i \in 1..Len(output'[x]),
                      NEW j \in 1..Len(output'[y]), output'[x][i] = output'[y][j]
               PROVE  x = y /\ i = j
    OBVIOUS
  <2>1. CASE x = w /\ i = k
    <3>1. output'[x][i] = n
      BY <2>1, <1>10
    <3>2. y = w /\ j = k
      BY <3>1, <1>10, <1>12
    <3> QED  BY <2>1, <3>2
  <2>2. CASE ~ (x = w /\ i = k)
    <3>1. i \in 1..Len(output[x]) /\ output'[x][i] = output[x][i]
      BY <2>2, <1>10
    <3>2. j \in 1..Len(output[y]) /\ output'[y][j] = output[y][j]
      BY <3>1, <1>10, <1>12
    <3> QED  BY <3>1, <3>2, <1>1
  <2> QED  BY <2>1, <2>2
<1>15. ASSUME \A x \in Workers : exits'[x] # "error", NEW m \in 0..(Settled' - 1)
       PROVE  \E x \in Workers : \E i \in 1..Len(output'[x]) : output'[x][i] = m
  <2>1. CASE m = n
    BY <2>1, <1>7, <1>8
  <2>2. CASE m # n
    <3>1. m \in 0..(Settled - 1)
      BY <2>2, <1>2, <1>3
    <3>2. \A x \in Workers : exits[x] # "error"
      BY <1>4, <1>15
    <3>3. PICK x \in Workers : \E i \in 1..Len(output[x]) : output[x][i] = m
      BY <3>1, <3>2, <1>1
    <3>4. PICK i \in 1..Len(output[x]) : output[x][i] = m
      BY <3>3
    <3>5. i \in 1..Len(output'[x]) /\ output'[x][i] = m
      BY <3>4, <1>7, <1>8
    <3> QED  BY <3>5
  <2> QED  BY <2>1, <2>2
<1> QED  BY <1>5, <1>9, <1>13, <1>14, <1>15, Zenon DEF OutputInv

(* A worker's call returns.                                                *)
LEMMA WorkerReturnsStep ==
    ASSUME CampaignInv, NEW w \in Workers, WorkerReturns(w)
    PROVE  CampaignInv'
<1>1. /\ pc[w] = "durable" /\ pc' = [pc EXCEPT ![w] = "idle"]
      /\ issued' = Append(issued, [scope |-> arg[w], nonce |-> cur[w].next])
      /\ lock' = Nobody
      /\ UNCHANGED <<arg, cur, state, stateDisk, tmp, tmpDisk, lost>>
      /\ output' = [output EXCEPT ![w] = Append(@, cur[w].next)]
      /\ exits' = [exits EXCEPT ![w] = IF Len(output'[w]) = PerWorker THEN "0" ELSE @]
      /\ UNCHANGED <<script, snapshot, observed, reports, verdict, ioError>>
  BY DEF WorkerReturns, Counter!Return, Counter!Goto, Counter!files
<1>2. /\ w \in Offspring /\ w \in Procs /\ w # Parent /\ w # Child
      /\ Parent \in Procs /\ Offspring \subseteq Procs
  BY ProcessAssumption DEF Offspring, Procs
<1>3. /\ pc[w] \in Counter!Committed /\ pc[w] \in Counter!Holding \ {"locked"}
  BY <1>1 DEF Counter!Committed, Counter!Holding
<1>4. exits[w] = "running" /\ Stage = "workers" /\ arg[w] = Scope
  BY <1>1, <1>2 DEF CampaignInv, CallerInv
<1>5. /\ Settled \in 0..MaxNonce /\ cur[w].next = Settled /\ Value = Settled + 1
      /\ state = FileAt(Value) /\ \A q \in Procs : pc[q] \in Counter!Holding <=> lock = q
  <2>1. Settled \in 0..MaxNonce /\ cur[w] = Drawing(Settled) /\ Value = Settled + 1
    BY <1>2, <1>3, HolderFacts
  <2> QED  BY <2>1, HolderFacts DEF Drawing
<1>6. Foreseen.mode = "normal"
  <2>1. script # <<>> /\ script[1].op = "workers"
    BY <1>4 DEF Stage, Op
  <2>2. Met(script[1], Foreseen)
    BY <2>1, ScriptFacts DEF CampaignInv
  <2> QED  BY <2>1, <2>2 DEF Met
<1>7. Place' = Place /\ Value' = Value
  BY <1>1 DEF Place, Value
<1>8. Foreseen' = Foreseen /\ Stage' = Stage
  BY <1>1, <1>7 DEF Foreseen, Stage, Op
<1>9. Settled' = Settled + 1
  BY <1>1, <1>5, <1>7 DEF Settled
<1>10. OutputInv' /\ output' \in [Workers -> Seq(Nat)]
  <2>1. output' = [output EXCEPT ![w] = Append(@, Settled)]
    BY <1>1, <1>5
  <2> QED  BY <2>1, <1>1, <1>4, <1>9, OutputGrows
<1>11. /\ issued' \in Seq([scope : {Scope, OtherScope}, nonce : Nat])
       /\ Counter!NoNonceReuse'
       /\ \A i \in 1..Len(issued') : issued'[i].nonce < Settled'
  <2>1. arg[w] \in {Scope, OtherScope}
    BY <1>4
  <2> QED  BY <2>1, <1>1, <1>5, <1>6, <1>9, ReturnHistory
<1>12. \A q \in Offspring : exits'[q] = IF q = w
            THEN IF Len(output'[w]) = PerWorker THEN "0" ELSE "running" ELSE exits[q]
  BY <1>1, <1>4 DEF CampaignInv, TypeOK
<1>13. TypeOK'
  <2>1. exits' \in [Offspring -> {"none", "running", "error", "0"} \cup Counter!Holding]
    <3>1. PICK E : E = {"none", "running", "error", "0"} \cup Counter!Holding
      OBVIOUS
    <3>2. PICK e \in E : e = IF Len(output'[w]) = PerWorker THEN "0" ELSE "running"
      BY <3>1
    <3>3. exits' = [exits EXCEPT ![w] = e]
      BY <1>1, <1>4, <3>2
    <3>4. exits \in [Offspring -> E]
      BY <3>1 DEF CampaignInv, TypeOK
    <3> QED  BY <3>1, <3>3, <3>4
  <2> QED  BY <1>1, <1>10, <1>11, <2>1 DEF CampaignInv, TypeOK, Counter!Labels
<1>14. ScriptInv'
  BY <1>1, <1>7 DEF CampaignInv, ScriptInv
<1>15. \A q \in Procs : pc'[q] = IF q = w THEN "idle" ELSE pc[q]
  BY <1>1 DEF CampaignInv, TypeOK
<1>16. \A q \in Procs : pc'[q] \notin Counter!Holding
  <2>1. lock = w
    BY <1>2, <1>3, <1>5
  <2>2. \A q \in Procs : q # w => pc[q] \notin Counter!Holding
    BY <2>1, <1>5
  <2>3. "idle" \notin Counter!Holding
    BY DEF Counter!Holding
  <2> QED  BY <2>2, <2>3, <1>15
<1>17. Counter!LockInv' /\ HoldInv'
  BY <1>1, <1>5, <1>7, <1>16, ProcessAssumption DEF Counter!LockInv, HoldInv
<1>18. CallerInv'
  <2>1. pc'[Parent] = "idle"
    BY <1>2, <1>4, <1>15, ParentIdle
  <2>2. \A q \in Offspring :
          /\ pc'[q] # "idle" => exits'[q] = "running" /\ arg'[q] = Scope
          /\ exits'[q] = "running" => Stage' = IF q = Child THEN "crash" ELSE "workers"
          /\ exits'[q] = "error" => ioError'
    BY <1>1, <1>2, <1>4, <1>8, <1>12, <1>15 DEF CampaignInv, CallerInv
  <2> QED  BY <2>1, <2>2 DEF CallerInv
<1>19. PlanInv'
  <2>1. Stage' = "workers" /\ observed' = Foreseen'.obs /\ snapshot' = FileAt(Foreseen'.snap)
    BY <1>1, <1>4, <1>8 DEF CampaignInv, PlanInv
  <2> QED  BY <2>1 DEF PlanInv
<1>20. HistoryInv'
  BY <1>11 DEF HistoryInv
<1>21. CampaignSound' /\ RollbackCaught'
  BY <1>1, <1>11, <1>13, NothingToCatch DEF CampaignInv, CampaignSound
<1> QED  BY <1>10, <1>13, <1>14, <1>17, <1>18, <1>19, <1>20, <1>21 DEF CampaignInv

(* A worker cannot open its output file.                                   *)
LEMMA OpenFailsStep ==
    ASSUME CampaignInv, NEW w \in Workers, OutputFails(w), UNCHANGED counter,
           pc[w] = "idle"
    PROVE  CampaignInv'
<1>1. /\ exits[w] = "running" /\ ioError' = TRUE
      /\ exits' = [exits EXCEPT ![w] = "error"]
      /\ UNCHANGED <<script, snapshot, observed, reports, output, verdict>>
  BY DEF OutputFails
<1>2. UNCHANGED <<pc, arg, cur, lock, state, tmp, issued>> /\ w \in Offspring
  BY DEF counter, Offspring
<1>3. Value' = Value /\ Settled' = Settled /\ Settled \in Nat
  <2>1. Value' = Value /\ Settled' = Settled
    BY <1>2 DEF Value, Settled
  <2> QED  BY <2>1, HolderFacts, WidthAssumption
<1>4. \A q \in Procs : pc'[q] = IF q = w THEN "idle" ELSE pc[q]
  BY <1>2
<1>5. /\ Foreseen' = Foreseen /\ Stage' = Stage
      /\ exits' \in [Offspring -> {"none", "running", "error", "0"} \cup Counter!Holding]
      /\ (ScriptInv /\ CallerInv /\ PlanInv /\ OutputInv /\ CampaignSound)'
  <2>1. Settled' \in Nat /\ Settled' >= Settled /\ Settled \in Nat
    BY <1>3
  <2>2. UNCHANGED <<script, snapshot, observed, reports, output, verdict, arg>>
    BY <1>1, <1>2
  <2> QED  BY <1>1, <1>2, <1>4, <2>1, <2>2, LeavesWithError
<1>6. TypeOK'
  BY <1>1, <1>2, <1>5 DEF CampaignInv, TypeOK
<1>7. Counter!LockInv' /\ HoldInv'
  BY <1>2, <1>3 DEF CampaignInv, HoldInv, Counter!LockInv
<1>8. HistoryInv'
  BY <1>2, <1>3, <1>5, HistoryKept
<1>9. RollbackCaught'
  BY <1>1, <1>2 DEF CampaignInv, RollbackCaught
<1> QED  BY <1>5, <1>6, <1>7, <1>8, <1>9 DEF CampaignInv

(* A worker's call returns, and its output file does not take the value.   *)
LEMMA WriteFailsStep ==
    ASSUME CampaignInv, NEW w \in Workers, OutputFails(w), Counter!Return(w)
    PROVE  CampaignInv'
<1>1. /\ pc[w] = "durable" /\ pc' = [pc EXCEPT ![w] = "idle"]
      /\ issued' = Append(issued, [scope |-> arg[w], nonce |-> cur[w].next])
      /\ lock' = Nobody
      /\ UNCHANGED <<arg, cur, state, stateDisk, tmp, tmpDisk, lost>>
  BY DEF Counter!Return, Counter!Goto, Counter!files
<1>2. /\ exits[w] = "running" /\ ioError' = TRUE
      /\ exits' = [exits EXCEPT ![w] = "error"]
      /\ UNCHANGED <<script, snapshot, observed, reports, output, verdict>>
  BY DEF OutputFails
<1>3. w \in Offspring /\ w \in Procs /\ w # Child
  BY ProcessAssumption DEF Offspring, Procs
<1>4. arg[w] = Scope /\ Stage = "workers"
  BY <1>1, <1>2, <1>3 DEF CampaignInv, CallerInv
<1>5. /\ Settled \in 0..MaxNonce /\ cur[w].next = Settled /\ Value = Settled + 1
      /\ state = FileAt(Value) /\ \A q \in Procs : pc[q] \in Counter!Holding <=> lock = q
      /\ Settled \in Nat /\ lock = w
  <2>1. pc[w] \in Counter!Committed /\ pc[w] \in Counter!Holding \ {"locked"}
    BY <1>1 DEF Counter!Committed, Counter!Holding
  <2>2. Settled \in 0..MaxNonce /\ cur[w] = Drawing(Settled) /\ Value = Settled + 1
    BY <1>3, <2>1, HolderFacts
  <2> QED  BY <1>3, <2>1, <2>2, HolderFacts, WidthAssumption DEF Drawing
<1>6. Foreseen.mode = "normal"
  <2>1. script # <<>> /\ script[1].op = "workers"
    BY <1>4 DEF Stage, Op
  <2>2. Met(script[1], Foreseen)
    BY <2>1, ScriptFacts DEF CampaignInv
  <2> QED  BY <2>1, <2>2 DEF Met
<1>7. Value' = Value /\ Settled' = Settled + 1
  <2>1. Value' = Value
    BY <1>1 DEF Value
  <2> QED  BY <2>1, <1>1, <1>5 DEF Settled
<1>8. \A q \in Procs : pc'[q] = IF q = w THEN "idle" ELSE pc[q]
  BY <1>1 DEF CampaignInv, TypeOK
<1>9. /\ Foreseen' = Foreseen /\ Stage' = Stage
      /\ exits' \in [Offspring -> {"none", "running", "error", "0"} \cup Counter!Holding]
      /\ (ScriptInv /\ CallerInv /\ PlanInv /\ OutputInv /\ CampaignSound)'
  <2>1. Settled' \in Nat /\ Settled' >= Settled /\ Settled \in Nat
    BY <1>5, <1>7
  <2>2. UNCHANGED <<script, snapshot, observed, reports, output, verdict, arg>>
    BY <1>1, <1>2
  <2> QED  BY <1>2, <1>3, <1>8, <2>1, <2>2, LeavesWithError
<1>10. /\ issued' \in Seq([scope : {Scope, OtherScope}, nonce : Nat])
       /\ Counter!NoNonceReuse'
       /\ \A i \in 1..Len(issued') : issued'[i].nonce < Settled'
  <2>1. arg[w] \in {Scope, OtherScope}
    BY <1>4
  <2> QED  BY <2>1, <1>1, <1>5, <1>6, <1>7, ReturnHistory
<1>11. TypeOK'
  BY <1>1, <1>2, <1>9, <1>10 DEF CampaignInv, TypeOK, Counter!Labels
<1>12. \A q \in Procs : pc'[q] \notin Counter!Holding
  <2>1. \A q \in Procs : q # w => pc[q] \notin Counter!Holding
    BY <1>5
  <2>2. "idle" \notin Counter!Holding
    BY DEF Counter!Holding
  <2> QED  BY <2>1, <2>2, <1>8
<1>13. Counter!LockInv' /\ HoldInv'
  BY <1>1, <1>5, <1>7, <1>12, ProcessAssumption DEF Counter!LockInv, HoldInv
<1>14. HistoryInv'
  BY <1>10 DEF HistoryInv
<1>15. RollbackCaught'
  BY <1>10, <1>11, NothingToCatch
<1> QED  BY <1>9, <1>11, <1>13, <1>14, <1>15 DEF CampaignInv

-----------------------------------------------------------------------------
(* Once every forked process has ended, nobody is inside allocate.         *)
LEMMA AllWaited ==
    ASSUME CampaignInv, Stage \in {"crash", "workers"},
           \A p \in Offspring : exits[p] # "running"
    PROVE  /\ \A p \in Procs : pc[p] = "idle"
           /\ lock = Nobody /\ Settled = Value /\ state = FileAt(Value)
           /\ Settled \in Nat
<1>1. pc[Parent] = "idle"
  BY ParentIdle
<1>2. \A p \in Offspring : pc[p] = "idle"
  BY DEF CampaignInv, CallerInv
<1>3. \A p \in Procs : pc[p] = "idle"
  BY <1>1, <1>2 DEF Procs
<1>4. lock = Nobody
  <2>1. lock \in Procs \cup {Nobody} /\ \A p \in Procs : pc[p] \in Counter!Holding <=> lock = p
    BY HolderFacts DEF CampaignInv, TypeOK
  <2>2. "idle" \notin Counter!Holding
    BY DEF Counter!Holding
  <2> QED  BY <2>1, <2>2, <1>3
<1> QED  BY <1>3, <1>4, HolderFacts, WidthAssumption

(* The parent has waited, and what it requires of its children holds.      *)
LEMMA Waited ==
    ASSUME CampaignInv, Stage \in {"crash", "workers"},
           \A p \in Offspring : exits[p] # "running",
           verdict = "running", script' = Tail(script), verdict' = verdict,
           UNCHANGED <<counter, snapshot, observed, reports, output, exits, ioError>>,
           Settled = After(script[1], Foreseen).next
    PROVE  CampaignInv'
<1>1. UNCHANGED <<pc, arg, cur, lock, state, tmp, issued>>
  BY DEF counter
<1>2. script # <<>> /\ script[1].op = Stage
  BY DEF Stage, Op
<1>3. ScriptInv' /\ Foreseen' = After(script[1], Foreseen)
  BY <1>2, Advance DEF CampaignInv
<1>4. /\ Foreseen'.snap = Foreseen.snap /\ Foreseen'.obs = Foreseen.obs
      /\ Foreseen'.mode = Foreseen.mode /\ Foreseen'.unforked = FALSE
      /\ Foreseen'.unwritten => Foreseen.unwritten /\ Stage # "workers"
  <2>1. After(script[1], Foreseen).unforked = FALSE
    BY <1>2 DEF After
  <2> QED  BY <1>2, <1>3, <2>1 DEF After
<1>5. /\ \A p \in Procs : pc[p] = "idle"
      /\ lock = Nobody /\ Settled = Value /\ state = FileAt(Value) /\ Settled \in Nat
  BY AllWaited
<1>6. Value' = Value /\ Settled' = Settled
  BY <1>1 DEF Value, Settled
<1>7. TypeOK'
  BY <1>1 DEF CampaignInv, TypeOK
<1>8. observed = Foreseen.obs /\ snapshot = FileAt(Foreseen.snap)
  BY DEF CampaignInv, PlanInv
<1>9. Foreseen'.unwritten => \A w \in Workers : output'[w] = <<>>
  BY <1>4 DEF CampaignInv, PlanInv
<1>10. \A p \in Offspring : exits'[p] # "running" /\ (exits'[p] = "error" => ioError')
  BY DEF CampaignInv, CallerInv
<1>11. Resting'
  BY <1>1, <1>3, <1>4, <1>5, <1>6, <1>8, <1>9, <1>10 DEF Resting
<1>12. HistoryInv'
  BY <1>1, <1>4, <1>5, <1>6, HistoryKept
<1>13. RollbackCaught'
  BY <1>1 DEF CampaignInv, RollbackCaught
<1> QED  BY <1>3, <1>7, <1>11, <1>12, <1>13, NextStarts

(* The parent waits for the child that died.                               *)
LEMMA WaitChildStep ==
    ASSUME CampaignInv, WaitChild
    PROVE  CampaignInv'
<1>1. /\ verdict = "running" /\ script # <<>> /\ Stage = "crash" /\ script[1].op = "crash"
      /\ exits[Child] \notin {"none", "running"}
      /\ script' = IF exits[Child] = script[1].point THEN Tail(script) ELSE script
      /\ verdict' = IF exits[Child] = script[1].point THEN verdict ELSE "failed"
      /\ UNCHANGED <<counter, snapshot, observed, reports, output, exits, ioError>>
  BY DEF WaitChild, At, Stage, Op, Require
<1>2. exits[Child] \in {"error", script[1].point}
  BY <1>1 DEF CampaignInv, PlanInv
<1>3. Child \in Offspring /\ pc[Parent] = "idle"
  BY <1>1, ParentIdle DEF Offspring
<1>4. Met(script[1], Foreseen) /\ Foreseen \in Forecasts
  BY <1>1, ScriptFacts DEF CampaignInv
<1>5. script[1].point \in Counter!Holding /\ script[1].point # "error"
  BY <1>1, <1>4 DEF Met, Counter!Holding
<1>6. CASE exits[Child] = script[1].point
  <2>1. script' = Tail(script) /\ verdict' = verdict
    BY <1>1, <1>6
  <2>2. \A p \in Offspring : exits[p] # "running"
    BY <1>1 DEF CampaignInv, CallerInv
  <2>3. Settled = Foreseen.next + IF script[1].point \in Counter!Committed THEN 1 ELSE 0
    BY <1>1, <1>5, <1>6 DEF CampaignInv, PlanInv
  <2>4. Foreseen.next \in Nat
    BY <1>4, WidthAssumption DEF Forecasts
  <2>5. After(script[1], Foreseen).next =
           IF script[1].point \in Counter!Committed THEN Foreseen.next + 1 ELSE Foreseen.next
    BY <1>1 DEF After
  <2>6. Settled = After(script[1], Foreseen).next
    BY <2>3, <2>4, <2>5
  <2> QED  BY <1>1, <2>1, <2>2, <2>6, Waited
<1>7. CASE exits[Child] = "error"
  <2>1. ioError /\ ioError \in BOOLEAN
    BY <1>3, <1>7 DEF CampaignInv, CallerInv, TypeOK
  <2>2. script' = script /\ verdict' = "failed"
    BY <1>1, <1>5, <1>7
  <2> QED  BY <1>1, <1>3, <2>1, <2>2, VerdictStep
<1> QED  BY <1>2, <1>6, <1>7

(* When every worker has ended well, the output files hold the first       *)
(* values of the counter, each in one place.                               *)
LEMMA OutputsComplete ==
    ASSUME CampaignInv, Stage = "workers", \A w \in Workers : exits[w] = "0"
    PROVE  OutputsUnique /\ Settled = Cardinality(Workers) * PerWorker
<1>1. /\ \A w \in Workers : Len(output[w]) = PerWorker
      /\ \A w \in Workers : \A i \in 1..Len(output[w]) : output[w][i] < Settled
      /\ \A w, x \in Workers : \A i \in 1..Len(output[w]), j \in 1..Len(output[x]) :
            output[w][i] = output[x][j] => w = x /\ i = j
      /\ \A n \in 0..(Settled - 1) :
            \E w \in Workers : \E i \in 1..Len(output[w]) : output[w][i] = n
  BY DEF CampaignInv, OutputInv
<1>2. Settled \in Nat /\ PerWorker \in Nat \ {0}
  BY HolderFacts, WidthAssumption
<1>3. \A w \in Workers : \A i \in 1..PerWorker : output[w][i] \in Nat
  BY <1>1 DEF CampaignInv, TypeOK
<1> DEFINE N == 0..(Settled - 1)
           places == Workers \X (1..PerWorker)
           read == [q \in places |-> output[q[1]][q[2]]]
<1>4. \A q \in places : q[1] \in Workers /\ q[2] \in 1..PerWorker /\ q = <<q[1], q[2]>>
  OBVIOUS
<1>5. read \in [places -> N]
  <2>1. \A w \in Workers : \A i \in 1..PerWorker : output[w][i] \in N
    BY <1>1, <1>2, <1>3
  <2> QED  BY <2>1, <1>4
<1>6. \A q, r \in places : read[q] = read[r] => q = r
  <2> SUFFICES ASSUME NEW q \in places, NEW r \in places, read[q] = read[r]
               PROVE  q = r
    OBVIOUS
  <2>1. q[1] = r[1] /\ q[2] = r[2]
    BY <1>1, <1>4
  <2> QED  BY <2>1, <1>4, Zenon
<1>7. \A n \in N : \E q \in places : read[q] = n
  <2> TAKE n \in N
  <2>1. PICK w \in Workers : \E i \in 1..Len(output[w]) : output[w][i] = n
    BY <1>1
  <2>2. PICK i \in 1..PerWorker : output[w][i] = n
    BY <1>1, <2>1
  <2>3. <<w, i>> \in places /\ read[<<w, i>>] = n
    BY <2>2
  <2> QED  BY <2>3
<1>8. {read[q] : q \in places} = N
  <2> HIDE DEF read, places, N
  <2> QED  BY <1>5, <1>7
<1>9. Cardinality(places) = Cardinality(Workers) * PerWorker /\ IsFiniteSet(places)
  <2>1. IsFiniteSet(1..PerWorker) /\ Cardinality(1..PerWorker) = PerWorker
    <3>1. Cardinality(1..PerWorker) = IF 1 > PerWorker THEN 0 ELSE PerWorker - 1 + 1
      BY <1>2, FS_Interval
    <3> QED  BY <3>1, <1>2, FS_Interval
  <2> QED  BY <2>1, ProcessAssumption, FS_Product
<1>10. Cardinality(N) = Settled
  <2>1. Cardinality(0..(Settled - 1)) =
           IF 0 > Settled - 1 THEN 0 ELSE (Settled - 1) - 0 + 1
    BY <1>2, FS_Interval
  <2> QED  BY <2>1, <1>2
<1>11. Cardinality(places) = Settled
  <2> HIDE DEF read, places, N
  <2>1. read \in Bijection(places, N)
    BY <1>5, <1>6, <1>7, Fun_IsBij
  <2>2. ExistsBijection(places, N)
    BY <2>1 DEF ExistsBijection
  <2> QED  BY <2>2, <1>9, <1>10, FS_Bijection
<1>12. {read[q] : q \in places} = 0..(Cardinality(places) - 1)
  <2> HIDE DEF read, places
  <2> QED  BY <1>8, <1>11
<1>13. \A q, r \in places : q # r => read[q] # read[r]
  BY <1>6
<1>14. OutputsUnique
  BY <1>1, <1>12, <1>13, Zenon DEF OutputsUnique
<1>15. Settled = Cardinality(Workers) * PerWorker
  BY <1>9, <1>11
<1> QED  BY <1>14, <1>15

(* The parent waits for the workers.                                       *)
LEMMA WaitWorkersStep ==
    ASSUME CampaignInv, WaitWorkers
    PROVE  CampaignInv'
<1>1. /\ verdict = "running" /\ script # <<>> /\ Stage = "workers" /\ script[1].op = "workers"
      /\ \/ \A w \in Workers : exits[w] = "0"
         \/ \E w \in Workers : exits[w] = "error"
      /\ Require((\A w \in Workers : exits[w] = "0") /\ OutputsUnique)
      /\ UNCHANGED <<counter, snapshot, observed, reports, output, exits, ioError>>
  BY DEF WaitWorkers, At, Stage, Op
<1>2. pc[Parent] = "idle"
  BY <1>1, ParentIdle
<1>3. Workers \subseteq Offspring
  BY DEF Offspring
<1>4. CASE \A w \in Workers : exits[w] = "0"
  <2>1. OutputsUnique /\ Settled = Cardinality(Workers) * PerWorker
    BY <1>1, <1>4, OutputsComplete
  <2>2. \A p \in Offspring : exits[p] # "running"
    BY <1>1, <1>4 DEF CampaignInv, CallerInv, Offspring
  <2>3. Settled = After(script[1], Foreseen).next
    BY <1>1, <2>1 DEF After
  <2>4. script' = Tail(script) /\ verdict' = verdict
    BY <1>1, <1>4, <2>1 DEF Require
  <2> QED  BY <1>1, <2>2, <2>3, <2>4, Waited
<1>5. CASE \E w \in Workers : exits[w] = "error"
  <2>1. PICK w \in Workers : exits[w] = "error"
    BY <1>5
  <2>2. ioError /\ ioError \in BOOLEAN
    BY <1>3, <2>1 DEF CampaignInv, CallerInv, TypeOK
  <2>3. script' = script /\ verdict' = "failed"
    BY <1>1, <1>5 DEF Require
  <2> QED  BY <1>1, <1>2, <2>2, <2>3, VerdictStep
<1> QED  BY <1>1, <1>4, <1>5

-----------------------------------------------------------------------------
(* The campaign starts with all of its script ahead.                       *)
LEMMA StartsHere ==
    ASSUME script = main
    PROVE  ScriptInv /\ Foreseen = Start
<1>1. PICK S : main \in Seq(S)
  BY PlanFacts
<1>2. Len(main) \in Nat /\ Plan[1] = Start
  BY PlanFacts
<1>3. PICK m \in Seq(S) : m = main
  BY <1>1
<1> HIDE DEF main
<1>4. \A n \in Nat : n - n + 1 = 1 /\ n \in 0..n
  OBVIOUS
<1>5. Place = 1 /\ Len(script) \in 0..Len(main)
  BY <1>2, <1>4, Zenon DEF Place
<1>6. SubSeq(m, 1, Len(m)) = m
  OBVIOUS
<1>7. script = SubSeq(main, Place, Len(main))
  BY <1>3, <1>5, <1>6
<1> QED  BY <1>2, <1>5, <1>7 DEF ScriptInv, Foreseen

(* The campaign's initial states satisfy the invariant.                    *)
LEMMA MisuseInit == Init => CampaignInv
<1> SUFFICES ASSUME Init PROVE CampaignInv
  OBVIOUS
<1>1. /\ pc = [p \in Procs |-> "idle"]
      /\ arg \in [Procs -> {Scope, OtherScope}]
      /\ cur = [p \in Procs |-> Counter!Initial(arg[p])]
      /\ lock = Nobody /\ state = NoFile /\ issued = <<>>
  BY DEF Init, Counter!Init
<1>2. /\ script = main /\ snapshot = NoFile /\ observed = {} /\ reports = <<>>
      /\ output = [w \in Workers |-> <<>>] /\ exits = [p \in Offspring |-> "none"]
      /\ verdict = "running" /\ ioError = FALSE
  BY DEF Init
<1>3. ScriptInv /\ Foreseen = Start
  BY <1>2, StartsHere
<1>4. /\ Foreseen.next = 0 /\ Foreseen.snap = 0 /\ Foreseen.obs = {}
      /\ Foreseen.mode = "normal"
  BY <1>3 DEF Start
<1>5. Value = 0 /\ Settled = 0 /\ FileAt(0) = NoFile
  BY <1>1 DEF Value, Settled, Counter!Floor, FileAt
<1>6. TypeOK
  <2>1. pc \in [Procs -> Counter!Labels]
    BY <1>1 DEF Counter!Labels
  <2>2. cur \in [Procs -> Counter!CounterState]
    BY <1>1, WidthAssumption DEF Counter!Initial, Counter!CounterState
  <2>3. state \in Counter!Contents
    BY <1>1 DEF Counter!Contents
  <2>4. /\ issued \in Seq([scope : {Scope, OtherScope}, nonce : Nat])
        /\ reports \in Seq({"first", "second", "key"} \X Nat \X {"Fresh", "Reused"})
    BY <1>1, <1>2
  <2>5. /\ output \in [Workers -> Seq(Nat)]
        /\ exits \in [Offspring -> {"none", "running", "error", "0"} \cup Counter!Holding]
    BY <1>2
  <2> QED  BY <1>1, <1>2, <2>1, <2>2, <2>3, <2>4, <2>5 DEF TypeOK
<1>7. \A p \in Procs : pc[p] = "idle" /\ pc[p] \notin Counter!Holding
  BY <1>1 DEF Counter!Holding
<1>8. Counter!LockInv /\ HoldInv
  BY <1>1, <1>5, <1>7, ProcessAssumption DEF Counter!LockInv, HoldInv
<1>9. \A p \in Offspring : exits[p] = "none"
  BY <1>2
<1>10. CallerInv
  BY <1>7, <1>9 DEF CallerInv, Procs
<1>11. \A w \in Workers : output[w] = <<>> /\ Len(output[w]) = 0
  BY <1>2
<1>12. PlanInv
  <2>1. Stage = "crash" =>
          /\ exits[Child] \in {"none", "running", "error", script[1].point}
          /\ Settled = Foreseen.next + IF exits[Child] \in Counter!Committed THEN 1 ELSE 0
    BY <1>4, <1>5, <1>9 DEF Offspring, Counter!Committed
  <2> QED  BY <1>2, <1>4, <1>5, <1>9, <1>11, <2>1 DEF PlanInv
<1>13. OutputInv
  <2>1. \A i \in 1..0 : FALSE
    OBVIOUS
  <2>2. \A w \in Workers : \A i \in 1..Len(output[w]) : FALSE
    BY <1>11, <2>1, Zenon
  <2>3. \A n \in 0..(Settled - 1) : FALSE
    BY <1>5
  <2>4. \A w \in Workers :
          /\ exits[w] \in {"none", "running", "error", "0"}
          /\ Len(output[w]) <= PerWorker
          /\ exits[w] \in {"none", "running"} => Len(output[w]) < PerWorker
          /\ exits[w] = "0" => Len(output[w]) = PerWorker
    BY <1>9, <1>11, WidthAssumption DEF Offspring
  <2> QED  BY <2>2, <2>3, <2>4, Zenon DEF OutputInv
<1>14. \A i \in 1..Len(issued) : FALSE
  BY <1>1
<1>15. HistoryInv /\ RollbackCaught
  BY <1>14 DEF HistoryInv, RollbackCaught, Counter!NoNonceReuse
<1>16. CampaignSound
  BY <1>2 DEF CampaignSound
<1> QED  BY <1>3, <1>6, <1>8, <1>10, <1>12, <1>13, <1>15, <1>16 DEF CampaignInv

(* A state that does not change keeps the invariant.                       *)
LEMMA MisuseStutters ==
    ASSUME CampaignInv, UNCHANGED vars
    PROVE  CampaignInv'
<1>1. Settled' = Settled /\ Value' = Value
  BY DEF Settled, Value, vars, counter
<1>2. /\ (ScriptInv /\ PlanInv /\ OutputInv /\ HistoryInv)'
      /\ (CampaignSound /\ RollbackCaught)' /\ Stage' = Stage
  BY <1>1, Quiet DEF vars, counter
<1>3. TypeOK'
  BY DEF CampaignInv, TypeOK, vars, counter
<1>4. Counter!LockInv' /\ HoldInv'
  BY <1>1 DEF CampaignInv, HoldInv, Counter!LockInv, vars, counter
<1>5. CallerInv'
  BY <1>2 DEF CampaignInv, CallerInv, vars, counter
<1> QED  BY <1>2, <1>3, <1>4, <1>5 DEF CampaignInv

(* Every step of the parent, of a child or of a worker keeps it.           *)
LEMMA MisuseStep == CampaignInv /\ [Next]_vars => CampaignInv'
<1> SUFFICES ASSUME CampaignInv, [Next]_vars PROVE CampaignInv'
  OBVIOUS
<1>1. Parent \in Procs /\ Child \in Procs /\ Workers \subseteq Procs
      /\ Workers \subseteq Offspring
  BY DEF Procs, Offspring
<1>2. CASE Run
  <2>1. ASSUME NEW p \in Offspring, Fork(p) PROVE CampaignInv'
    BY <2>1, ForkStep
  <2> QED  BY <1>1, <1>2, <2>1, DirectoryStep, PathStep, ParentCallsStep, ReturnStep, RejectStep,
              InnerSteps, WaitChildStep, WaitWorkersStep, DetectorStep, ObserveSteps,
              ObservationsStep, XorSteps, CopyStep, RestoreStep, ExitStep, Zenon DEF Run
<1>3. ASSUME NEW p \in Offspring, Forked(p) PROVE CampaignInv'
  <2>1. CASE ChildCalls(p)
    BY <2>1, ChildCallsStep
  <2>2. CASE ChildInner
    BY <1>1, <2>2, InnerSteps DEF ChildInner
  <2>3. CASE crash_hook
    BY <2>3, CrashStep
  <2>4. CASE p \in Workers /\ Inner(p)
    BY <1>1, <2>4, InnerSteps
  <2>5. CASE p \in Workers /\ WorkerReturns(p)
    BY <2>5, WorkerReturnsStep
  <2> QED  BY <1>3, <2>1, <2>2, <2>3, <2>4, <2>5 DEF Forked
<1>4. ASSUME NEW p \in Procs, IoFails(p) PROVE CampaignInv'
  <2>1. CASE p = Parent
    BY <1>4, <2>1, ParentFailsStep
  <2>2. CASE p \in Offspring
    BY <1>4, <2>2, ChildFailsStep
  <2> QED  BY <2>1, <2>2 DEF Procs
<1>5. CASE Ended
  BY <1>5, MisuseStutters DEF Ended
<1>6. CASE CallFails
  BY <1>6, CallFailsStep
<1>7. ASSUME NEW w \in Workers, OutputFails(w) PROVE CampaignInv'
  <2>1. \/ pc[w] = "idle" /\ UNCHANGED counter
        \/ Counter!Return(w)
    BY <1>7 DEF OutputFails
  <2> QED  BY <1>7, <2>1, OpenFailsStep, WriteFailsStep
<1>8. CASE UNCHANGED vars
  BY <1>8, MisuseStutters
<1> QED  BY <1>2, <1>3, <1>4, <1>5, <1>6, <1>7, <1>8 DEF Next

-----------------------------------------------------------------------------
(* What every requirement of the script relies on is there when its turn   *)
(* comes, for any number of workers, calls and rounds, whichever processes *)
(* of nonce_misuse_campaign run, die or fail, and in whatever order.       *)
THEOREM MisuseInvariance == Spec => []CampaignInv
  BY MisuseInit, MisuseStep, PTL DEF Spec

(* The campaign reports a failure only when a system call has failed: no   *)
(* interleaving of workers, no crash point and no rollback makes allocate  *)
(* or the reuse detector answer otherwise than main requires.              *)
THEOREM CampaignIsSound == Spec => []CampaignSound
<1>1. CampaignInv => CampaignSound
  BY DEF CampaignInv
<1> QED  BY <1>1, MisuseInvariance, PTL

(* A nonce is returned twice only after the snapshot of the state file was *)
(* restored, only one drawn after the copy, and the detector reports it.   *)
THEOREM RollbackIsCaught == Spec => []RollbackCaught
<1>1. CampaignInv => RollbackCaught
  BY DEF CampaignInv
<1> QED  BY <1>1, MisuseInvariance, PTL
=============================================================================
