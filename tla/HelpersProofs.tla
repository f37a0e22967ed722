------------------------------ MODULE HelpersProofs ------------------------------
(***************************************************************************)
(* NoLeftovers and WindowBound for any number of uploads, paths, limits,   *)
(* outages, restarts and deaths of the worker.                             *)
(*                                                                         *)
(* A request fails in the step that removes its file; a job that is queued *)
(* is never unqueued, and only a job writes a file again.                  *)
(*                                                                         *)
(* The requests of one key are admitted at most Limit times, and when the  *)
(* key ends its first request has just left the window; so a new key adds  *)
(* to at most Limit - 1 of the old one.  The memory lets through what it    *)
(* has room for; what a restart empties it of is at most Limit once more,   *)
(* as old as what is left and younger than the restart before.              *)
(***************************************************************************)
EXTENDS HelpersProperties, Sums

\* What the argument needs of the values of four variables.
Shape ==
    /\ DOMAIN upload = Files
    /\ DOMAIN file = Files
    /\ DOMAIN job = Files

Inv == Shape /\ NoLeftovers

\* No upload has begun: the invariant holds at the start.
THEOREM InitInv == Init => Inv
<1> SUFFICES ASSUME Init PROVE Inv
    OBVIOUS
<1>1. Shape
    BY DEF Init, UploadsInit, Shape
<1>2. NoLeftovers
    BY DEF Init, UploadsInit, NoLeftovers
<1> QED
    BY <1>1, <1>2 DEF Inv

\* The limiter and the outages leave files and jobs alone.
LEMMA UploadsAlone == ASSUME Inv, UNCHANGED uploadVars PROVE Inv'
    BY DEF Inv, Shape, NoLeftovers, uploadVars

\* A request's own steps: it fails by removing its file.
LEMMA RequestKeepsInv ==
    ASSUME Inv, NEW f \in Files, Saves(f) \/ RequestStep(f)
    PROVE  Inv'
<1>1. CASE Saves(f)
    BY <1>1 DEF Inv, Shape, NoLeftovers, Saves, MovesTo
<1>2. CASE Connects(f)
    BY <1>2 DEF Inv, Shape, NoLeftovers, Connects, MovesTo
<1>3. CASE GivesUp(f)
    BY <1>3 DEF Inv, Shape, NoLeftovers, GivesUp, MovesTo
<1>4. CASE Enqueues(f)
    BY <1>4 DEF Inv, Shape, NoLeftovers, Enqueues, MovesTo
<1>5. CASE EnqueueFails(f)
    BY <1>5 DEF Inv, Shape, NoLeftovers, EnqueueFails, MovesTo
<1>6. CASE Removes(f)
    BY <1>6 DEF Inv, Shape, NoLeftovers, Removes, MovesTo, AfterError, WithoutFile
<1> QED
    BY <1>1, <1>2, <1>3, <1>4, <1>5, <1>6 DEF RequestStep

\* The worker's: whatever it does to a file, the file has a job and keeps it.
LEMMA WorkerKeepsInv ==
    ASSUME Inv, (\E f \in Files : WorkerStep(f)) \/ WorkerDies \/ WorkerStarts
    PROVE  Inv'
<1>1. ASSUME NEW f \in Files, Takes(f) PROVE Inv'
    BY <1>1 DEF Inv, Shape, NoLeftovers, Takes, Steps
<1>2. ASSUME NEW f \in Files, Opens(f) PROVE Inv'
    BY <1>2 DEF Inv, Shape, NoLeftovers, Opens, Steps
<1>3. ASSUME NEW f \in Files, BeginsSave(f) PROVE Inv'
    BY <1>3 DEF Inv, Shape, NoLeftovers, BeginsSave, Steps
<1>4. ASSUME NEW f \in Files, EndsSave(f) PROVE Inv'
    BY <1>4 DEF Inv, Shape, NoLeftovers, EndsSave, Steps
<1>5. ASSUME NEW f \in Files, MakesThumbnail(f) PROVE Inv'
    BY <1>5 DEF Inv, Shape, NoLeftovers, MakesThumbnail, Steps
<1>6. CASE WorkerDies
    BY <1>6 DEF Inv, Shape, NoLeftovers, WorkerDies
<1>7. CASE WorkerStarts
    BY <1>7 DEF Inv, Shape, NoLeftovers, WorkerStarts
<1> QED
    BY <1>1, <1>2, <1>3, <1>4, <1>5, <1>6, <1>7 DEF WorkerStep

\* Every step of a request, of the worker and of the limiter keeps it.
THEOREM NextInv == Inv /\ [Next]_vars => Inv'
<1> SUFFICES ASSUME Inv, [Next]_vars PROVE Inv'
    OBVIOUS
<1>1. CASE UploadsNext
    BY <1>1, RequestKeepsInv, WorkerKeepsInv DEF UploadsNext
<1>2. CASE Restart
    BY <1>2 DEF Inv, Shape, NoLeftovers, Restart, ForgetsUploads, Requested
<1>3. CASE UNCHANGED uploadVars
    BY <1>3, UploadsAlone
<1> QED
    BY <1>1, <1>2, <1>3 DEF Next, Outage, vars

\* An upload that failed leaves no file behind, unless its job was queued although
\* the request was told otherwise (controllers/upload.py, the except branch around
\* enqueue_job).
THEOREM FailedUploadsLeaveNothing == Spec => []NoLeftovers
<1>1. Inv => NoLeftovers
    BY DEF Inv
<1> QED
    BY <1>1, InitInv, NextInv, PTL DEF Spec

-----------------------------------------------------------------------------
(* The limiter: sums over ages *)

AgeCounts == [Ages -> Nat]

LEMMA AgesAreFinite ==
    /\ IsFiniteSet(Ages) /\ 0 \in Ages
    /\ \A T \in SUBSET Ages : IsFiniteSet(T)
    /\ \A k \in Int : k <= Window => 0 .. k - 1 \in SUBSET Ages
<1>1. IsFiniteSet(Ages) /\ 0 \in Ages
    BY RateLimitAssumption, FS_Interval DEF Ages
<1>2. \A k \in Int : k <= Window => 0 .. k - 1 \in SUBSET Ages
    BY RateLimitAssumption DEF Ages
<1> QED
    BY <1>1, <1>2, FS_Subset

LEMMA TotalIsSum ==
    ASSUME NEW a, DOMAIN a = Ages
    PROVE  Total(a) = SumFunctionOnSet(a, Ages)
    BY DEF Total, FoldFunction, SumFunctionOnSet

LEMMA SumOfAges ==
    ASSUME NEW a \in AgeCounts, NEW T \in SUBSET Ages
    PROVE  SumFunctionOnSet(a, T) \in Nat
<1>1. \A x \in T : a[x] \in Nat
    BY DEF AgeCounts
<1> QED
    BY <1>1, AgesAreFinite, SumIsNat

LEMMA OneMoreAdds ==
    ASSUME NEW a \in AgeCounts, NEW T \in SUBSET Ages
    PROVE  /\ OneMore(a) \in AgeCounts
           /\ SumFunctionOnSet(OneMore(a), T) <= SumFunctionOnSet(a, T) + 1
           /\ 0 \in T => SumFunctionOnSet(OneMore(a), T) = SumFunctionOnSet(a, T) + 1
           /\ 0 \notin T => SumFunctionOnSet(OneMore(a), T) = SumFunctionOnSet(a, T)
<1> DEFINE b == OneMore(a)
<1>1. b \in AgeCounts /\ b[0] = a[0] + 1 /\ \A x \in Ages : x # 0 => b[x] = a[x]
    BY AgesAreFinite DEF AgeCounts, OneMore
<1> HIDE DEF b
<1>2. \A x \in T : a[x] \in Int /\ b[x] \in Int
    BY <1>1 DEF AgeCounts
<1>3. SumFunctionOnSet(a, T) \in Int /\ IsFiniteSet(T)
    BY <1>2, AgesAreFinite, SumIsInt
<1>4. CASE 0 \in T
    <2>1. SumFunctionOnSet(b, T) = SumFunctionOnSet(a, T) + b[0] - a[0]
        BY <1>1, <1>2, <1>3, <1>4, SumUpdate
    <2>2. SumFunctionOnSet(b, T) = SumFunctionOnSet(a, T) + 1
        BY <1>1, <1>2, <1>3, <1>4, <2>1
    <2> QED
        BY <1>1, <1>3, <1>4, <2>2 DEF b
<1>5. CASE 0 \notin T
    <2>1. \A x \in T : a[x] \in Int /\ a[x] = b[x]
        BY <1>1, <1>2, <1>5
    <2>2. SumFunctionOnSet(a, T) = SumFunctionOnSet(b, T)
        BY <1>3, <2>1, SumEqual
    <2> QED
        BY <1>1, <1>3, <1>5, <2>2 DEF b
<1> QED
    BY <1>4, <1>5

\* A tick moves every count one age on, and the oldest out.
LEMMA AgedShifts ==
    ASSUME NEW a \in AgeCounts
    PROVE  /\ Aged(a) \in AgeCounts
           /\ \A k \in Nat : k < Window =>
                SumFunctionOnSet(Aged(a), 0 .. k) = SumFunctionOnSet(a, 0 .. k - 1)
<1> DEFINE b == Aged(a)
<1> DEFINE N == {k \in Nat : k < Window =>
                    SumFunctionOnSet(b, 0 .. k) = SumFunctionOnSet(a, 0 .. k - 1)}
<1>1. /\ b \in AgeCounts /\ b[0] = 0
      /\ \A x \in Ages : x # 0 => x - 1 \in Ages /\ b[x] = a[x - 1]
    BY RateLimitAssumption DEF AgeCounts, Aged, Ages
<1> HIDE DEF b
<1>2. 0 \in N
    <2>1. {} \in SUBSET Ages /\ 0 .. 0 - 1 = {} /\ 0 .. 0 = {} \cup {0}
        OBVIOUS
    <2>2. SumFunctionOnSet(b, {} \cup {0}) = b[0] + SumFunctionOnSet(b, {})
        <3>1. /\ IsFiniteSet({}) /\ 0 \notin {}
              /\ \A x \in {} \cup {0} : b[x] \in Int
            BY <1>1, FS_EmptySet
        <3> QED
            BY <3>1, SumAdd
    <2>3. SumFunctionOnSet(b, {}) = 0 /\ SumFunctionOnSet(a, {}) = 0
        BY SumEmpty
    <2>4. SumFunctionOnSet(b, {} \cup {0}) = SumFunctionOnSet(a, {})
        BY <1>1, <2>2, <2>3
    <2> QED
        BY <2>1, <2>4
<1>3. ASSUME NEW k \in Nat, k \in N PROVE k + 1 \in N
    <2> SUFFICES ASSUME k + 1 < Window
                 PROVE  SumFunctionOnSet(b, 0 .. k + 1) = SumFunctionOnSet(a, 0 .. (k + 1) - 1)
        OBVIOUS
    <2>1. /\ 0 .. k + 1 = (0 .. k) \cup {k + 1} /\ k + 1 \notin 0 .. k
          /\ 0 .. (k + 1) - 1 = (0 .. k - 1) \cup {k} /\ k \notin 0 .. k - 1
          /\ 0 .. k + 1 \in SUBSET Ages /\ 0 .. k \in SUBSET Ages
          /\ k + 1 \in Ages /\ k \in Ages /\ 0 .. k - 1 \in SUBSET Ages
        BY RateLimitAssumption DEF Ages
    <2>2. IsFiniteSet(0 .. k) /\ IsFiniteSet(0 .. k - 1)
        BY <2>1, AgesAreFinite
    <2>3. /\ \A x \in (0 .. k) \cup {k + 1} : b[x] \in Int
          /\ \A x \in (0 .. k - 1) \cup {k} : a[x] \in Int
        BY <1>1, <2>1 DEF AgeCounts
    <2>4. SumFunctionOnSet(b, (0 .. k) \cup {k + 1}) = b[k + 1] + SumFunctionOnSet(b, 0 .. k)
        BY <2>1, <2>2, <2>3, SumAdd
    <2>5. SumFunctionOnSet(a, (0 .. k - 1) \cup {k}) = a[k] + SumFunctionOnSet(a, 0 .. k - 1)
        BY <2>1, <2>2, <2>3, SumAdd
    <2>6. b[k + 1] = a[k]
        BY <1>1, <2>1
    <2>7. SumFunctionOnSet(b, 0 .. k) = SumFunctionOnSet(a, 0 .. k - 1)
        BY <1>3, RateLimitAssumption
    <2> QED
        BY <2>1, <2>4, <2>5, <2>6, <2>7
<1> HIDE DEF N
<1>4. Nat \subseteq N
    BY <1>2, <1>3, NumberInduction
<1> QED
    BY <1>1, <1>4 DEF N, b

LEMMA AgedIsLess ==
    ASSUME NEW a \in AgeCounts
    PROVE  /\ Aged(a) \in AgeCounts
           /\ SumFunctionOnSet(Aged(a), Ages) <= SumFunctionOnSet(a, Ages)
<1>1. Ages = 0 .. Window - 1 /\ Window - 1 \in Nat /\ Window - 1 < Window
    BY RateLimitAssumption DEF Ages
<1>2. SumFunctionOnSet(Aged(a), 0 .. Window - 1) = SumFunctionOnSet(a, 0 .. (Window - 1) - 1)
    BY <1>1, AgedShifts
<1>3. 0 .. (Window - 1) - 1 \in SUBSET Ages /\ \A x \in Ages : a[x] \in Nat
    BY RateLimitAssumption DEF Ages, AgeCounts
<1>4. SumFunctionOnSet(a, 0 .. (Window - 1) - 1) <= SumFunctionOnSet(a, Ages)
    BY <1>3, AgesAreFinite, SumOfPart
<1> QED
    BY <1>1, <1>2, <1>4, AgedShifts

-----------------------------------------------------------------------------
(* What is admitted under one key *)

\* What the requests of a key's life so far had to be granted.
Granted(count) == IF count < Limit THEN count ELSE Limit

\* The key q of a path, whether its first request has yet to be decided, and what
\* was admitted.  Under a key with a life, the first request is as old as the life
\* is, so that what is younger misses one of those granted; when the key ends,
\* only what is younger is left in the window.
Bounded(q, first, a) ==
    /\ q.count = 0 => q.ttl = NoTtl
    /\ first => q.count >= 1 /\ q.ttl = NoTtl
    /\ q.ttl <= Window =>
         SumFunctionOnSet(a, 0 .. (Window - q.ttl) - 1) <= Granted(q.count) - 1
    /\ SumFunctionOnSet(a, Ages) <= Limit - 1 + Granted(q.count) - (IF first THEN 1 ELSE 0)

Keys == [count : 0 .. Limit + 1, ttl : 1 .. Window + 1]

\* The sums in Bounded are numbers.
LEMMA Numbers ==
    ASSUME NEW q \in Keys, NEW a \in AgeCounts
    PROVE  /\ q.count \in Nat /\ q.ttl \in Nat /\ Granted(q.count) \in Nat
           /\ q.ttl <= Window => 0 .. (Window - q.ttl) - 1 \in SUBSET Ages
           /\ q.ttl <= Window => SumFunctionOnSet(a, 0 .. (Window - q.ttl) - 1) \in Nat
           /\ SumFunctionOnSet(a, Ages) \in Nat
<1>1. q.count \in Nat /\ q.ttl \in Nat /\ Granted(q.count) \in Nat
    BY RateLimitAssumption DEF Keys, Granted
<1>2. ASSUME q.ttl <= Window PROVE 0 .. (Window - q.ttl) - 1 \in SUBSET Ages
    BY <1>1, <1>2, RateLimitAssumption DEF Ages
<1>3. Ages \in SUBSET Ages
    OBVIOUS
<1> QED
    BY <1>1, <1>2, <1>3, SumOfAges

\* A request that is counted and not admitted, after the first.
LEMMA CountedOnly ==
    ASSUME NEW q \in Keys, NEW r \in Keys, NEW a \in AgeCounts, NEW first \in BOOLEAN,
           Bounded(q, first, a), r.ttl = q.ttl, r.count >= q.count, r.count <= q.count + 1
    PROVE  Bounded(r, first, a)
<1>1. Granted(q.count) <= Granted(r.count)
    BY Numbers, RateLimitAssumption DEF Granted
<1> QED
    BY <1>1, Numbers, RateLimitAssumption DEF Bounded, NoTtl

\* One that is admitted, after the first.
LEMMA CountedAndAdmitted ==
    ASSUME NEW q \in Keys, NEW r \in Keys, NEW a \in AgeCounts, NEW first \in BOOLEAN,
           Bounded(q, first, a), r.ttl = q.ttl, r.count = q.count + 1, r.count <= Limit
    PROVE  Bounded(r, first, OneMore(a))
<1> DEFINE T == 0 .. (Window - q.ttl) - 1
<1>1. Granted(r.count) = Granted(q.count) + 1
    BY Numbers, RateLimitAssumption DEF Granted
<1>2. q.ttl <= Window => SumFunctionOnSet(OneMore(a), T) <= SumFunctionOnSet(a, T) + 1
    BY Numbers, OneMoreAdds
<1>3. SumFunctionOnSet(OneMore(a), Ages) <= SumFunctionOnSet(a, Ages) + 1
    BY OneMoreAdds
<1>4. /\ q.count \in Nat /\ r.count \in Nat
      /\ Granted(q.count) \in Nat /\ Granted(r.count) \in Nat
      /\ SumFunctionOnSet(a, Ages) \in Nat /\ SumFunctionOnSet(OneMore(a), Ages) \in Nat
      /\ q.ttl <= Window =>
           SumFunctionOnSet(a, T) \in Nat /\ SumFunctionOnSet(OneMore(a), T) \in Nat
    BY Numbers, OneMoreAdds
<1> HIDE DEF T
<1>5. r.ttl <= Window => SumFunctionOnSet(OneMore(a), T) <= Granted(r.count) - 1
    BY <1>1, <1>2, <1>4 DEF Bounded, T
<1>6. SumFunctionOnSet(OneMore(a), Ages) <= Limit - 1 + Granted(r.count) - (IF first THEN 1 ELSE 0)
    BY <1>1, <1>3, <1>4, RateLimitAssumption DEF Bounded
<1> QED
    BY <1>4, <1>5, <1>6 DEF Bounded, T

\* The first of a key, not decided yet.
LEMMA CountedFirst ==
    ASSUME NEW q \in Keys, NEW r \in Keys, NEW a \in AgeCounts, NEW first \in BOOLEAN,
           Bounded(q, first, a), r.ttl = q.ttl, q.count = 0, r.count = 1
    PROVE  Bounded(r, TRUE, a)
<1>1. Granted(q.count) = 0 /\ Granted(r.count) = 1 /\ first = FALSE
    BY Numbers, RateLimitAssumption DEF Granted, Bounded
<1> QED
    BY <1>1, Numbers, RateLimitAssumption DEF Bounded, NoTtl

\* The first, not admitted: Redis does not answer any more.
LEMMA FirstForgotten ==
    ASSUME NEW q \in Keys, NEW a \in AgeCounts, NEW first \in BOOLEAN, Bounded(q, first, a)
    PROVE  Bounded(q, FALSE, a)
    BY Numbers, RateLimitAssumption DEF Bounded

\* The first, admitted, and the key given its life.
LEMMA FirstAdmitted ==
    ASSUME NEW q \in Keys, NEW r \in Keys, NEW a \in AgeCounts,
           Bounded(q, TRUE, a), r.ttl = Window, r.count = q.count
    PROVE  Bounded(r, FALSE, OneMore(a))
<1>1. SumFunctionOnSet(OneMore(a), Ages) <= SumFunctionOnSet(a, Ages) + 1
    BY OneMoreAdds
<1>2. OneMore(a) \in AgeCounts
    BY OneMoreAdds
<1>3. 0 .. (Window - r.ttl) - 1 = {}
    BY RateLimitAssumption
<1>4. SumFunctionOnSet(OneMore(a), {}) = 0
    BY SumEmpty
<1>5. Granted(r.count) >= 1 /\ Granted(r.count) = Granted(q.count) /\ r.count >= 1
    BY Numbers, RateLimitAssumption DEF Granted, Bounded
<1> QED
    BY <1>1, <1>2, <1>3, <1>4, <1>5, Numbers, RateLimitAssumption DEF Bounded

\* A tick.
LEMMA TickedBounded ==
    ASSUME NEW q \in Keys, NEW r \in Keys, NEW a \in AgeCounts, NEW first \in BOOLEAN,
           Bounded(q, first, a),
           r = IF q.ttl = NoTtl THEN q
               ELSE IF q.ttl = 1 THEN NoKey ELSE [q EXCEPT !.ttl = @ - 1]
    PROVE  Bounded(r, first, Aged(a))
<1> DEFINE Up(f, k) == SumFunctionOnSet(f, 0 .. k)
<1>1. Aged(a) \in AgeCounts /\ \A k \in Nat : k < Window => Up(Aged(a), k) = Up(a, k - 1)
    BY AgedShifts
<1>2. Ages = 0 .. Window - 1 /\ Window - 1 \in Nat /\ Window - 1 < Window
    BY RateLimitAssumption DEF Ages
<1>3. SumFunctionOnSet(Aged(a), Ages) = Up(a, (Window - 1) - 1)
    BY <1>1, <1>2
<1>4. SumFunctionOnSet(Aged(a), Ages) <= SumFunctionOnSet(a, Ages)
    BY AgedIsLess
<1> HIDE DEF Up
<1>5. CASE q.ttl = NoTtl
    BY <1>1, <1>4, <1>5, Numbers, RateLimitAssumption DEF Bounded, NoTtl
<1>6. CASE q.ttl = 1
    <2>1. r.count = 0 /\ r.ttl = NoTtl /\ first = FALSE /\ Granted(r.count) = 0
        BY <1>6, RateLimitAssumption DEF NoKey, NoTtl, Bounded, Granted
    <2>2. Up(a, (Window - 1) - 1) <= Granted(q.count) - 1
        BY <1>6, RateLimitAssumption DEF Bounded, Up
    <2>3. Granted(q.count) <= Limit
        BY Numbers, RateLimitAssumption DEF Granted
    <2>4. SumFunctionOnSet(Aged(a), Ages) <= Limit - 1
        BY <1>1, <1>3, <2>2, <2>3, Numbers, RateLimitAssumption
    <2> QED
        BY <1>1, <2>1, <2>4, RateLimitAssumption DEF Bounded, NoTtl
<1>7. CASE q.ttl # NoTtl /\ q.ttl # 1
    <2> DEFINE k == Window - q.ttl
    <2>1. r.ttl = q.ttl - 1 /\ r.count = q.count /\ q.ttl <= Window /\ first = FALSE
        BY <1>7, RateLimitAssumption DEF Keys, NoTtl, Bounded
    <2>2. k \in Nat /\ k < Window /\ (Window - r.ttl) - 1 = k
        BY <1>7, <2>1, RateLimitAssumption DEF Keys
    <2>3. Up(Aged(a), k) = Up(a, k - 1)
        BY <1>1, <2>2
    <2>4. Up(a, k - 1) <= Granted(q.count) - 1
        BY <2>1 DEF Bounded, Up
    <2>5. q.count # 0
        BY <1>7 DEF Bounded
    <2>6. SumFunctionOnSet(Aged(a), 0 .. (Window - r.ttl) - 1) <= Granted(r.count) - 1
        BY <2>1, <2>2, <2>3, <2>4 DEF Up
    <2>7. /\ SumFunctionOnSet(a, Ages) \in Nat /\ SumFunctionOnSet(Aged(a), Ages) \in Nat
          /\ Granted(q.count) \in Nat
        BY <1>1, Numbers
    <2>8. SumFunctionOnSet(Aged(a), Ages) <=
            Limit - 1 + Granted(r.count) - (IF first THEN 1 ELSE 0)
        BY <1>4, <2>1, <2>7, RateLimitAssumption DEF Bounded
    <2> QED
        BY <2>1, <2>5, <2>6, <2>8 DEF Bounded
<1> QED
    BY <1>5, <1>6, <1>7

-----------------------------------------------------------------------------
(* The limiter: its invariant *)

MemoryTypes == buckets \in AgeCounts /\ fallback \in AgeCounts /\ restarted \in AgeCounts

RateTypes ==
    /\ key \in [Paths -> Keys]
    /\ expiring \subseteq Paths
    /\ admitted \in [Paths -> AgeCounts]
    /\ MemoryTypes

PathsBounded == \A p \in Paths : Bounded(key[p], p \in expiring, admitted[p])

Youngest(a, k) == SumFunctionOnSet(a, 0 .. k)

\* Of what the fallback f let through, up to any age, the memory b has forgotten at
\* most Limit for each of the restarts r up to that age.
Remembers(b, f, r) ==
    \A k \in Nat : k < Window =>
        Youngest(f, k) <= Youngest(b, k) + Limit * Youngest(r, k)

MemoryBounded ==
    /\ SumFunctionOnSet(buckets, Ages) <= Limit
    /\ Remembers(buckets, fallback, restarted)

RateInv == RateTypes /\ PathsBounded /\ MemoryBounded

LEMMA NothingAdmitted == NothingYet \in AgeCounts /\ SumFunctionOnSet(NothingYet, Ages) = 0
    BY AgesAreFinite, SumOfZeros DEF NothingYet, AgeCounts

LEMMA YoungestIsNat ==
    ASSUME NEW a \in AgeCounts, NEW k \in Nat, k < Window
    PROVE  0 .. k \in SUBSET Ages /\ 0 \in 0 .. k /\ Youngest(a, k) \in Nat
<1>1. 0 .. k \in SUBSET Ages
    BY RateLimitAssumption DEF Ages
<1> QED
    BY <1>1, SumOfAges DEF Youngest

LEMMA InitRate == Init => RateInv
<1> SUFFICES ASSUME Init PROVE RateInv
    OBVIOUS
<1>1. NoKey \in Keys
    BY RateLimitAssumption DEF NoKey, NoTtl, Keys
<1>2. RateTypes
    BY <1>1, NothingAdmitted DEF Init, RateInit, RateTypes, MemoryTypes
<1>3. Bounded(NoKey, FALSE, NothingYet)
    BY NothingAdmitted, RateLimitAssumption DEF Bounded, NoKey, NoTtl, Granted
<1>4. PathsBounded
    <2> SUFFICES ASSUME NEW p \in Paths PROVE Bounded(key[p], p \in expiring, admitted[p])
        BY DEF PathsBounded
    <2>1. key[p] = NoKey /\ admitted[p] = NothingYet /\ (p \in expiring) = FALSE
        BY DEF Init, RateInit
    <2> QED
        BY <1>3, <2>1
<1>5. MemoryBounded
    <2>1. buckets = NothingYet /\ fallback = NothingYet /\ restarted = NothingYet
        BY DEF Init, RateInit
    <2>2. \A k \in Nat : k < Window => Youngest(NothingYet, k) \in Nat
        BY NothingAdmitted, YoungestIsNat
    <2>3. \A n \in Nat : n <= n + Limit * n
        BY RateLimitAssumption
    <2> QED
        BY <2>1, <2>2, <2>3, NothingAdmitted, RateLimitAssumption DEF MemoryBounded, Remembers
<1> QED
    BY <1>2, <1>4, <1>5 DEF RateInv

\* The memory lets a request through while it remembers fewer than the limit.
LEMMA FallsBackBounded ==
    ASSUME RateInv, FallsBack
    PROVE  MemoryTypes' /\ MemoryBounded'
<1>1. /\ buckets \in AgeCounts /\ fallback \in AgeCounts /\ restarted \in AgeCounts
      /\ DOMAIN buckets = Ages /\ Ages \in SUBSET Ages
    BY DEF RateInv, RateTypes, MemoryTypes, AgeCounts
<1>2. Total(buckets) = SumFunctionOnSet(buckets, Ages) /\ SumFunctionOnSet(buckets, Ages) \in Nat
    BY <1>1, TotalIsSum, SumOfAges
<1>3. CASE Total(buckets) < Limit
    <2>1. buckets' = OneMore(buckets) /\ fallback' = OneMore(fallback) /\ restarted' = restarted
        BY <1>3 DEF FallsBack
    <2>2. /\ OneMore(buckets) \in AgeCounts /\ OneMore(fallback) \in AgeCounts
          /\ SumFunctionOnSet(OneMore(buckets), Ages) <= SumFunctionOnSet(buckets, Ages) + 1
        BY <1>1, OneMoreAdds
    <2>3. SumFunctionOnSet(OneMore(buckets), Ages) \in Nat
        BY <1>1, <2>2, SumOfAges
    <2>4. SumFunctionOnSet(OneMore(buckets), Ages) <= Limit
        BY <1>2, <1>3, <2>2, <2>3, RateLimitAssumption
    <2>5. ASSUME NEW k \in Nat, k < Window
          PROVE  Youngest(fallback', k) <= Youngest(buckets', k) + Limit * Youngest(restarted', k)
        <3>1. /\ Youngest(fallback', k) = Youngest(fallback, k) + 1
              /\ Youngest(buckets', k) = Youngest(buckets, k) + 1
            BY <1>1, <2>1, <2>5, YoungestIsNat, OneMoreAdds DEF Youngest
        <3>2. Youngest(fallback, k) <= Youngest(buckets, k) + Limit * Youngest(restarted, k)
            BY <2>5 DEF RateInv, MemoryBounded, Remembers
        <3> DEFINE n == Limit * Youngest(restarted, k)
        <3>3. /\ Youngest(fallback, k) \in Nat /\ Youngest(buckets, k) \in Nat
              /\ n \in Nat
            BY <1>1, <2>5, YoungestIsNat, RateLimitAssumption
        <3>4. Limit * Youngest(restarted', k) = n
            BY <2>1
        <3> HIDE DEF n
        <3>5. Youngest(fallback, k) <= Youngest(buckets, k) + n
            BY <3>2 DEF n
        <3> QED
            BY <3>1, <3>3, <3>4, <3>5
    <2> QED
        BY <1>1, <2>1, <2>2, <2>4, <2>5 DEF MemoryTypes, MemoryBounded, Remembers
<1>4. CASE ~(Total(buckets) < Limit)
    BY <1>1, <1>4 DEF FallsBack, MemoryTypes, MemoryBounded, RateInv
<1> QED
    BY <1>3, <1>4

\* A restart forgets what the memory held, at most Limit.
LEMMA RestartBounded ==
    ASSUME RateInv, ForgetsBuckets
    PROVE  MemoryTypes' /\ MemoryBounded'
<1>1. /\ buckets \in AgeCounts /\ fallback \in AgeCounts /\ restarted \in AgeCounts
    BY DEF RateInv, RateTypes, MemoryTypes
<1>2. buckets' = NothingYet /\ fallback' = fallback /\ restarted' = OneMore(restarted)
    BY DEF ForgetsBuckets
<1>3. MemoryTypes' /\ SumFunctionOnSet(buckets', Ages) <= Limit
    BY <1>1, <1>2, NothingAdmitted, AgesAreFinite, OneMoreAdds, RateLimitAssumption
    DEF MemoryTypes
<1>4. ASSUME NEW k \in Nat, k < Window
      PROVE  Youngest(fallback', k) <= Youngest(buckets', k) + Limit * Youngest(restarted', k)
    <2> DEFINE n == Youngest(restarted, k)
    <2>1. /\ n \in Nat /\ Youngest(fallback, k) \in Nat /\ Youngest(buckets, k) \in Nat
          /\ Youngest(buckets', k) \in Nat
        BY <1>1, <1>2, <1>4, NothingAdmitted, YoungestIsNat
    <2>2. Youngest(restarted', k) = n + 1
        BY <1>1, <1>2, <1>4, YoungestIsNat, OneMoreAdds DEF Youngest
    <2>3. Youngest(buckets, k) <= Limit
        <3>1. 0 .. k \in SUBSET Ages /\ \A x \in Ages : buckets[x] \in Nat
            BY <1>1, <1>4, YoungestIsNat DEF AgeCounts
        <3>2. SumFunctionOnSet(buckets, 0 .. k) <= SumFunctionOnSet(buckets, Ages)
            BY <3>1, AgesAreFinite, SumOfPart
        <3>3. SumFunctionOnSet(buckets, Ages) \in Nat /\ SumFunctionOnSet(buckets, Ages) <= Limit
            BY <1>1, SumOfAges DEF RateInv, MemoryBounded
        <3> QED
            BY <2>1, <3>2, <3>3, RateLimitAssumption DEF Youngest
    <2>4. Youngest(fallback, k) <= Youngest(buckets, k) + Limit * n
        BY <1>4 DEF RateInv, MemoryBounded, Remembers
    <2> HIDE DEF n
    <2>5. Limit * (n + 1) = Limit * n + Limit /\ Limit * n \in Nat
        BY <2>1, RateLimitAssumption
    <2>6. Youngest(fallback, k) <= Limit * (n + 1)
        BY <2>1, <2>3, <2>4, <2>5, RateLimitAssumption
    <2>7. Limit * (n + 1) \in Nat
        BY <2>5, RateLimitAssumption
    <2> QED
        BY <1>2, <2>1, <2>2, <2>6, <2>7
<1> QED
    BY <1>3, <1>4 DEF MemoryBounded, Remembers

\* A tick moves all three counts one age on.
LEMMA TickBounded ==
    ASSUME RateInv, Tick
    PROVE  MemoryTypes' /\ MemoryBounded'
<1>1. /\ buckets \in AgeCounts /\ fallback \in AgeCounts /\ restarted \in AgeCounts
    BY DEF RateInv, RateTypes, MemoryTypes
<1>2. /\ buckets' = Aged(buckets) /\ fallback' = Aged(fallback)
      /\ restarted' = Aged(restarted)
    BY DEF Tick
<1>3. /\ MemoryTypes'
      /\ SumFunctionOnSet(buckets', Ages) <= SumFunctionOnSet(buckets, Ages)
    BY <1>1, <1>2, AgedIsLess DEF MemoryTypes
<1>4. SumFunctionOnSet(buckets', Ages) <= Limit
    <2>1. /\ SumFunctionOnSet(buckets', Ages) \in Nat
          /\ SumFunctionOnSet(buckets, Ages) \in Nat
        BY <1>1, <1>3, SumOfAges DEF MemoryTypes
    <2> QED
        BY <1>3, <2>1, RateLimitAssumption DEF RateInv, MemoryBounded
<1>5. ASSUME NEW k \in Nat, k < Window
      PROVE  Youngest(fallback', k) <= Youngest(buckets', k) + Limit * Youngest(restarted', k)
    <2>1. ASSUME NEW a \in AgeCounts
          PROVE  Youngest(Aged(a), k) = SumFunctionOnSet(a, 0 .. k - 1)
        BY <1>5, AgedShifts DEF Youngest
    <2>2. CASE k = 0
        <3>1. 0 .. k - 1 = {}
            BY <2>2
        <3>2. /\ Youngest(fallback', k) = 0 /\ Youngest(buckets', k) = 0
              /\ Youngest(restarted', k) = 0
            BY <1>1, <1>2, <2>1, <3>1, SumEmpty
        <3> QED
            BY <3>2, RateLimitAssumption
    <2>3. CASE k # 0
        <3>1. k - 1 \in Nat /\ k - 1 < Window
            BY <1>5, <2>3, RateLimitAssumption
        <3>2. Youngest(fallback, k - 1) <= Youngest(buckets, k - 1) + Limit * Youngest(restarted, k - 1)
            BY <3>1 DEF RateInv, MemoryBounded, Remembers
        <3>3. /\ Youngest(fallback', k) = Youngest(fallback, k - 1)
              /\ Youngest(buckets', k) = Youngest(buckets, k - 1)
              /\ Youngest(restarted', k) = Youngest(restarted, k - 1)
            BY <1>1, <1>2, <2>1 DEF Youngest
        <3> QED
            BY <3>2, <3>3
    <2> QED
        BY <2>2, <2>3
<1> QED
    BY <1>3, <1>4, <1>5 DEF MemoryBounded, Remembers

\* A step that concerns the key of at most one path.
LEMMA PathStep ==
    ASSUME RateInv, NEW p \in Paths, NEW r \in Keys, NEW first \in BOOLEAN,
           NEW a \in AgeCounts, Bounded(r, first, a),
           key' = [key EXCEPT ![p] = r],
           expiring' = IF first THEN expiring \cup {p} ELSE expiring \ {p},
           admitted' = [admitted EXCEPT ![p] = a]
    PROVE  /\ key' \in [Paths -> Keys] /\ expiring' \subseteq Paths
           /\ admitted' \in [Paths -> AgeCounts] /\ PathsBounded'
<1>1. /\ key' \in [Paths -> Keys] /\ expiring' \subseteq Paths
      /\ admitted' \in [Paths -> AgeCounts]
    BY DEF RateInv, RateTypes
<1>2. ASSUME NEW o \in Paths PROVE Bounded(key'[o], o \in expiring', admitted'[o])
    <2>1. CASE o = p
        <3>1. key'[o] = r /\ (o \in expiring') = first /\ admitted'[o] = a
            BY <2>1 DEF RateInv, RateTypes
        <3> QED
            BY <3>1
    <2>2. CASE o # p
        <3>1. key'[o] = key[o] /\ (o \in expiring') = (o \in expiring)
              /\ admitted'[o] = admitted[o]
            BY <2>2 DEF RateInv, RateTypes
        <3>2. Bounded(key[o], o \in expiring, admitted[o])
            BY DEF RateInv, PathsBounded
        <3> QED
            BY <3>1, <3>2
    <2> QED
        BY <2>1, <2>2
<1> QED
    BY <1>1, <1>2 DEF PathsBounded

\* The key of a path after INCR.
LEMMA IncrementedKey ==
    ASSUME RateInv, NEW p \in Paths
    PROVE  LET r == Incremented(p)[p] IN
           /\ key[p] \in Keys /\ r \in Keys /\ r.ttl = key[p].ttl
           /\ r.count = IF key[p].count > Limit THEN key[p].count ELSE key[p].count + 1
           /\ Incremented(p) = [key EXCEPT ![p] = r]
<1>1. key[p] \in Keys /\ key \in [Paths -> Keys]
    BY DEF RateInv, RateTypes
<1> DEFINE r == [key[p] EXCEPT !.count = IF @ > Limit THEN @ ELSE @ + 1]
<1>2. Incremented(p) = [key EXCEPT ![p] = r]
    BY DEF Incremented
<1>3. Incremented(p)[p] = r
    BY <1>1, <1>2
<1>4. /\ r \in Keys /\ r.ttl = key[p].ttl
      /\ r.count = IF key[p].count > Limit THEN key[p].count ELSE key[p].count + 1
    BY <1>1, RateLimitAssumption DEF Keys
<1> QED
    BY <1>1, <1>2, <1>3, <1>4

LEMMA CountsKeepsRate ==
    ASSUME RateInv, NEW p \in Paths, Counts(p)
    PROVE  RateInv'
<1> DEFINE q == key[p]
           r == Incremented(p)[p]
           a == admitted[p]
           first == p \in expiring
<1>1. /\ q \in Keys /\ r \in Keys /\ r.ttl = q.ttl
      /\ r.count = IF q.count > Limit THEN q.count ELSE q.count + 1
      /\ key' = [key EXCEPT ![p] = r]
    BY IncrementedKey DEF Counts
<1>2. a \in AgeCounts /\ first \in BOOLEAN /\ Bounded(q, first, a)
      /\ admitted \in [Paths -> AgeCounts]
    BY DEF RateInv, RateTypes, PathsBounded
<1>3. MemoryTypes' /\ MemoryBounded'
    BY DEF Counts, memoryVars, RateInv, RateTypes, MemoryTypes, MemoryBounded
<1>4. q.count \in Nat /\ r.count \in Nat
    BY <1>1, RateLimitAssumption DEF Keys
<1>5. /\ IF r.count = 1 THEN expiring' = expiring \cup {p} /\ UNCHANGED admitted
         ELSE expiring' = expiring /\ Decides(p, r.count)
    BY DEF Counts, SetsExpiry
<1> HIDE DEF q, r, a
<1>6. CASE r.count = 1
    <2>1. q.count = 0
        BY <1>1, <1>4, <1>6, RateLimitAssumption
    <2>2. Bounded(r, TRUE, a)
        BY <1>1, <1>2, <1>6, <2>1, CountedFirst
    <2>3. admitted' = [admitted EXCEPT ![p] = a] /\ expiring' = expiring \cup {p}
        BY <1>2, <1>5, <1>6 DEF a
    <2> QED
        BY <1>1, <1>2, <1>3, <2>2, <2>3, PathStep DEF RateInv, RateTypes
<1>7. expiring' = (IF first THEN expiring \cup {p} ELSE expiring \ {p}) <=> expiring' = expiring
    OBVIOUS
<1>8. CASE r.count # 1 /\ r.count <= Limit
    <2>1. Bounded(r, first, OneMore(a)) /\ OneMore(a) \in AgeCounts
        <3>1. r.count = q.count + 1
            BY <1>1, <1>4, <1>8, RateLimitAssumption
        <3> QED
            BY <1>1, <1>2, <1>8, <3>1, CountedAndAdmitted, OneMoreAdds
    <2>2. admitted' = [admitted EXCEPT ![p] = OneMore(a)]
        BY <1>5, <1>8 DEF Decides, WithinLimit, a
    <2>3. expiring' = IF first THEN expiring \cup {p} ELSE expiring \ {p}
        BY <1>5, <1>7, <1>8
    <2> HIDE DEF first
    <2> QED
        BY <1>1, <1>2, <1>3, <2>1, <2>2, <2>3, PathStep DEF RateInv, RateTypes
<1>9. CASE r.count # 1 /\ ~(r.count <= Limit)
    <2>1. Bounded(r, first, a)
        <3>1. r.count >= q.count /\ r.count <= q.count + 1
            BY <1>1, <1>4
        <3> QED
            BY <1>1, <1>2, <3>1, CountedOnly
    <2>2. admitted' = [admitted EXCEPT ![p] = a]
        BY <1>2, <1>5, <1>9 DEF Decides, WithinLimit, a
    <2>3. expiring' = IF first THEN expiring \cup {p} ELSE expiring \ {p}
        BY <1>5, <1>7, <1>9
    <2> HIDE DEF first
    <2> QED
        BY <1>1, <1>2, <1>3, <2>1, <2>2, <2>3, PathStep DEF RateInv, RateTypes
<1> QED
    BY <1>6, <1>8, <1>9

LEMMA ExpiresKeepsRate ==
    ASSUME RateInv, NEW p \in Paths, Expires(p)
    PROVE  RateInv'
<1> DEFINE q == key[p]
           r == [key[p] EXCEPT !.ttl = Window]
           a == admitted[p]
<1>1. /\ q \in Keys /\ r \in Keys /\ r.ttl = Window /\ r.count = q.count
      /\ key' = [key EXCEPT ![p] = r]
    BY RateLimitAssumption DEF Expires, RateInv, RateTypes, Keys
<1>2. /\ a \in AgeCounts /\ Bounded(q, TRUE, a)
      /\ admitted \in [Paths -> AgeCounts]
    <2>1. (p \in expiring) = TRUE
        BY DEF Expires
    <2> QED
        BY <2>1 DEF RateInv, RateTypes, PathsBounded
<1>3. admitted' = [admitted EXCEPT ![p] = OneMore(a)] /\ expiring' = expiring \ {p}
    BY RateLimitAssumption DEF Expires, Decides, WithinLimit
<1>4. MemoryTypes' /\ MemoryBounded'
    BY DEF Expires, memoryVars, RateInv, RateTypes, MemoryTypes, MemoryBounded
<1> HIDE DEF q, r, a
<1>5. Bounded(r, FALSE, OneMore(a)) /\ OneMore(a) \in AgeCounts
    BY <1>1, <1>2, FirstAdmitted, OneMoreAdds
<1> QED
    BY <1>1, <1>2, <1>3, <1>4, <1>5, PathStep DEF RateInv, RateTypes

LEMMA IncrIsLostKeepsRate ==
    ASSUME RateInv, NEW p \in Paths, IncrIsLost(p)
    PROVE  RateInv'
<1> DEFINE q == key[p]
           r == Incremented(p)[p]
           a == admitted[p]
           first == p \in expiring
<1>1. /\ q \in Keys /\ r \in Keys /\ r.ttl = q.ttl
      /\ r.count = IF q.count > Limit THEN q.count ELSE q.count + 1
      /\ key' = [key EXCEPT ![p] = r]
    BY IncrementedKey DEF IncrIsLost
<1>2. a \in AgeCounts /\ first \in BOOLEAN /\ Bounded(q, first, a)
      /\ admitted \in [Paths -> AgeCounts]
    BY DEF RateInv, RateTypes, PathsBounded
<1>3. MemoryTypes' /\ MemoryBounded'
    BY FallsBackBounded DEF IncrIsLost
<1>4. /\ admitted' = [admitted EXCEPT ![p] = a]
      /\ expiring' = IF first THEN expiring \cup {p} ELSE expiring \ {p}
    BY <1>2 DEF IncrIsLost
<1>5. r.count >= q.count /\ r.count <= q.count + 1
    BY <1>1, RateLimitAssumption DEF Keys
<1> HIDE DEF q, r, a, first
<1>6. Bounded(r, first, a)
    BY <1>1, <1>2, <1>5, CountedOnly
<1> QED
    BY <1>1, <1>2, <1>3, <1>4, <1>6, PathStep DEF RateInv, RateTypes

\* First requests are given up, and the keys they made stay without a life.
LEMMA FirstsForgotten ==
    ASSUME RateInv, UNCHANGED <<key, admitted>>, expiring' \subseteq expiring
    PROVE  /\ key' \in [Paths -> Keys] /\ expiring' \subseteq Paths
           /\ admitted' \in [Paths -> AgeCounts] /\ PathsBounded'
<1>1. ASSUME NEW p \in Paths PROVE Bounded(key[p], p \in expiring', admitted[p])
    <2>1. /\ key[p] \in Keys /\ admitted[p] \in AgeCounts /\ (p \in expiring) \in BOOLEAN
          /\ Bounded(key[p], p \in expiring, admitted[p])
        BY DEF RateInv, RateTypes, PathsBounded
    <2>2. CASE p \in expiring'
        <3>1. (p \in expiring') = (p \in expiring)
            BY <2>2
        <3> QED
            BY <2>1, <3>1
    <2>3. CASE p \notin expiring'
        <3>1. (p \in expiring') = FALSE
            BY <2>3
        <3>2. Bounded(key[p], FALSE, admitted[p])
            BY <2>1, FirstForgotten
        <3> QED
            BY <3>1, <3>2
    <2> QED
        BY <2>2, <2>3
<1> QED
    BY <1>1 DEF RateInv, RateTypes, PathsBounded

LEMMA TickKeepsRate ==
    ASSUME RateInv, Tick
    PROVE  RateInv'
<1> DEFINE Ticked(q) == IF q.ttl = NoTtl THEN q
                      ELSE IF q.ttl = 1 THEN NoKey ELSE [q EXCEPT !.ttl = @ - 1]
<1>1. ASSUME NEW q \in Keys PROVE Ticked(q) \in Keys
    BY RateLimitAssumption DEF Keys, NoKey, NoTtl
<1>2. \A p \in Paths : key'[p] = Ticked(key[p]) /\ admitted'[p] = Aged(admitted[p])
    BY DEF Tick
<1>3. \A p \in Paths : key[p] \in Keys /\ admitted[p] \in AgeCounts
    BY DEF RateInv, RateTypes
<1>4. DOMAIN key' = Paths /\ key' = [p \in Paths |-> key'[p]]
      /\ admitted' = [p \in Paths |-> admitted'[p]]
    BY DEF Tick
<1>5. key' \in [Paths -> Keys] /\ admitted' \in [Paths -> AgeCounts]
    <2>1. \A p \in Paths : key'[p] \in Keys /\ admitted'[p] \in AgeCounts
        BY <1>1, <1>2, <1>3, AgedShifts
    <2> QED
        BY <1>4, <2>1
<1>6. PathsBounded'
    <2> SUFFICES ASSUME NEW p \in Paths
                 PROVE  Bounded(key'[p], p \in expiring, admitted'[p])
        BY DEF PathsBounded, Tick
    <2>1. (p \in expiring) \in BOOLEAN /\ Bounded(key[p], p \in expiring, admitted[p])
        BY DEF RateInv, PathsBounded
    <2>2. Bounded(Ticked(key[p]), p \in expiring, Aged(admitted[p]))
        BY <1>1, <1>3, <2>1, TickedBounded
    <2> QED
        BY <1>2, <2>2
<1>7. MemoryTypes' /\ MemoryBounded'
    BY TickBounded
<1> QED
    BY <1>5, <1>6, <1>7 DEF RateInv, RateTypes, Tick

LEMMA NextRate ==
    ASSUME RateInv, [Next]_vars
    PROVE  RateInv'
<1>1. CASE Unreachable
    BY <1>1, FallsBackBounded, FirstsForgotten DEF Unreachable, RateInv, RateTypes
<1>2. ASSUME NEW p \in Paths, ExpiryFails(p) PROVE RateInv'
    BY <1>2, FallsBackBounded, FirstsForgotten DEF ExpiryFails, RateInv, RateTypes
<1>3. CASE Restart
    <2>1. MemoryTypes' /\ MemoryBounded'
        BY <1>3, RestartBounded DEF Restart
    <2>2. UNCHANGED <<key, admitted>> /\ expiring' \subseteq expiring
        BY <1>3 DEF Restart, ForgetsBuckets
    <2> QED
        BY <2>1, <2>2, FirstsForgotten DEF RateInv, RateTypes
<1>4. CASE UNCHANGED rateVars
    BY <1>4, FirstsForgotten
    DEF rateVars, memoryVars, RateInv, RateTypes, MemoryTypes, MemoryBounded
<1> QED
    BY <1>1, <1>2, <1>3, <1>4, CountsKeepsRate, ExpiresKeepsRate, IncrIsLostKeepsRate,
       TickKeepsRate DEF Next, RateNext, Outage, vars

\* Within any window a path is served for less than two limits by Redis, one more by
\* the memory that stands in for it, and one more for each restart within the window,
\* although the counter of a key starts afresh and first requests, outages and
\* restarts leave keys without a life (RateLimitMiddleware.__call__).
THEOREM WindowIsBounded == Spec => []WindowBound
<1>1. RateInv => WindowBound
    <2> SUFFICES ASSUME RateInv, NEW p \in Paths
                 PROVE  Total(admitted[p]) + Total(fallback) <=
                            (3 + Total(restarted)) * Limit - 1
        BY DEF WindowBound
    <2> DEFINE inRedis == SumFunctionOnSet(admitted[p], Ages)
               inMemory == SumFunctionOnSet(fallback, Ages)
               known == SumFunctionOnSet(buckets, Ages)
               n == SumFunctionOnSet(restarted, Ages)
    <2>1. /\ key[p] \in Keys /\ admitted[p] \in AgeCounts /\ MemoryTypes
          /\ Bounded(key[p], p \in expiring, admitted[p])
        BY DEF RateInv, RateTypes, PathsBounded
    <2>2. /\ Total(admitted[p]) = inRedis /\ Total(fallback) = inMemory
          /\ Total(restarted) = n
        BY <2>1, TotalIsSum DEF AgeCounts, MemoryTypes
    <2>3. Granted(key[p].count) <= Limit /\ Granted(key[p].count) \in Nat
        BY <2>1, Numbers, RateLimitAssumption DEF Granted
    <2>4. inRedis \in Nat /\ inMemory \in Nat /\ known \in Nat /\ n \in Nat
        BY <2>1, SumOfAges DEF MemoryTypes
    <2>5. inRedis <= Limit - 1 + Limit
        BY <2>1, <2>3, <2>4, RateLimitAssumption DEF Bounded
    <2>6. known <= Limit
        BY DEF RateInv, MemoryBounded
    <2>7. inMemory <= known + Limit * n
        <3>1. Ages = 0 .. Window - 1 /\ Window - 1 \in Nat /\ Window - 1 < Window
            BY RateLimitAssumption DEF Ages
        <3> QED
            BY <3>1 DEF RateInv, MemoryBounded, Remembers, Youngest
    <2> HIDE DEF inRedis, inMemory, known, n
    <2>8. (3 + n) * Limit = 3 * Limit + Limit * n /\ Limit * n \in Nat
        BY <2>4, RateLimitAssumption
    <2>9. inRedis + inMemory <= (3 + n) * Limit - 1
        BY <2>4, <2>5, <2>6, <2>7, <2>8, RateLimitAssumption
    <2> QED
        BY <2>2, <2>9
<1>2. RateInv /\ [Next]_vars => RateInv'
    BY NextRate
<1> QED
    BY <1>1, <1>2, InitRate, PTL DEF Spec
=============================================================================
