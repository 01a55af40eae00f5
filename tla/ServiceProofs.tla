---------------------------- MODULE ServiceProofs ----------------------------
(***************************************************************************)
(* Proofs about the services around the job queue: the model gateway (its  *)
(* slots, its queue, and what the daily budget bounds when callers check   *)
(* before they count), the schema migrations, the attempt loop, the pull   *)
(* request checks and the page of a run, each on its own and then all of   *)
(* them side by side.  AppEventsProofs holds the proofs about the stream.  *)
(***************************************************************************)
EXTENDS Services, AppEventsProofs

-----------------------------------------------------------------------------
(***************************************************************************)
(* Lemmas on queues.                                                       *)
(***************************************************************************)
OnceEach(w) == \A i, j \in DOMAIN w : w[i] = w[j] => i = j
Occurs(w, d) == \E i \in DOMAIN w : w[i] = d

\* Serving the first in line.
LEMMA TailQueue ==
  ASSUME NEW S, NEW w \in Seq(S), w # <<>>, OnceEach(w)
  PROVE  /\ Tail(w) \in Seq(S) /\ Head(w) \in S
         /\ OnceEach(Tail(w))
         /\ Occurs(w, Head(w))
         /\ \A d : Occurs(Tail(w), d) <=> Occurs(w, d) /\ d # Head(w)
<1>1. /\ Len(w) \in Nat \ {0} /\ DOMAIN w = 1..Len(w) /\ Head(w) = w[1]
      /\ Tail(w) \in Seq(S) /\ Len(Tail(w)) = Len(w) - 1 /\ DOMAIN Tail(w) = 1..(Len(w) - 1)
      /\ \A i \in 1..(Len(w) - 1) : Tail(w)[i] = w[i + 1]
  OBVIOUS
<1>2. OnceEach(Tail(w))
  BY <1>1 DEF OnceEach
<1>3. Occurs(w, Head(w)) /\ Head(w) \in S
  BY <1>1 DEF Occurs
<1>4. ASSUME NEW d, Occurs(Tail(w), d) PROVE Occurs(w, d) /\ d # Head(w)
  <2>1. PICK i \in 1..(Len(w) - 1) : w[i + 1] = d
    BY <1>1, <1>4 DEF Occurs
  <2>2. i + 1 \in DOMAIN w /\ 1 \in DOMAIN w /\ i + 1 # 1
    BY <1>1
  <2> QED
    BY <1>1, <2>1, <2>2 DEF Occurs, OnceEach
<1>5. ASSUME NEW d, Occurs(w, d), d # Head(w) PROVE Occurs(Tail(w), d)
  <2>1. PICK i \in 1..Len(w) : w[i] = d
    BY <1>1, <1>5 DEF Occurs
  <2> DEFINE j == i - 1
  <2>2. j \in 1..(Len(w) - 1) /\ j + 1 = i
    BY <1>1, <1>5, <2>1
  <2>3. j \in DOMAIN Tail(w) /\ Tail(w)[j] = d
    BY <1>1, <2>1, <2>2
  <2> QED
    BY <2>3 DEF Occurs
<1> QED
  BY <1>1, <1>2, <1>3, <1>4, <1>5

\* Joining the end of the line.
LEMMA AppendQueue ==
  ASSUME NEW S, NEW w \in Seq(S), NEW c \in S, ~Occurs(w, c), OnceEach(w)
  PROVE  /\ Append(w, c) \in Seq(S)
         /\ OnceEach(Append(w, c))
         /\ \A d : Occurs(Append(w, c), d) <=> Occurs(w, d) \/ d = c
<1> DEFINE n == Len(w)
<1> DEFINE v == Append(w, c)
<1>1. /\ n \in Nat /\ DOMAIN w = 1..n /\ v \in Seq(S) /\ DOMAIN v = 1..(n + 1)
      /\ v[n + 1] = c /\ \A i \in 1..n : v[i] = w[i]
  OBVIOUS
<1>2. \A i \in DOMAIN v : i = n + 1 \/ i \in DOMAIN w
  BY <1>1
<1>3. OnceEach(v)
  BY <1>1, <1>2 DEF OnceEach, Occurs
<1>4. \A d : Occurs(v, d) <=> Occurs(w, d) \/ d = c
  <2>1. ASSUME NEW d, Occurs(v, d) PROVE Occurs(w, d) \/ d = c
    BY <1>1, <1>2, <2>1 DEF Occurs
  <2>2. ASSUME NEW d, Occurs(w, d) PROVE Occurs(v, d)
    BY <1>1, <2>2 DEF Occurs
  <2>3. Occurs(v, c)
    <3>1. n + 1 \in DOMAIN v
      BY <1>1
    <3> QED
      BY <1>1, <3>1 DEF Occurs
  <2> QED
    BY <2>1, <2>2, <2>3
<1> QED
  BY <1>1, <1>3, <1>4

\* A sequence in two parts.
LEMMA TwoParts ==
  ASSUME NEW S, NEW a \in Seq(S), NEW b \in Seq(S)
  PROVE  /\ a \o b \in Seq(S) /\ Len(a \o b) = Len(a) + Len(b)
         /\ \A k \in 1..Len(a) : (a \o b)[k] = a[k]
         /\ \A k \in 1..Len(b) : (a \o b)[Len(a) + k] = b[k]
OBVIOUS

\* Leaving the line.
LEMMA RemoveQueue ==
  ASSUME NEW S, NEW w \in Seq(S), NEW i \in DOMAIN w, OnceEach(w)
  PROVE  /\ RemoveAt(w, i) \in Seq(S)
         /\ OnceEach(RemoveAt(w, i))
         /\ \A d : Occurs(RemoveAt(w, i), d) <=> Occurs(w, d) /\ d # w[i]
<1> DEFINE n == Len(w)
<1> DEFINE v == RemoveAt(w, i)
<1> DEFINE a == SubSeq(w, 1, i - 1)
<1> DEFINE b == SubSeq(w, i + 1, n)
<1>1. n \in Nat /\ DOMAIN w = 1..n /\ i \in 1..n
  OBVIOUS
<1>2. a \in Seq(S) /\ Len(a) = i - 1 /\ \A k \in 1..(i - 1) : a[k] = w[k]
  BY <1>1
<1>3. b \in Seq(S) /\ Len(b) = n - i /\ \A k \in 1..(n - i) : b[k] = w[i + k]
  BY <1>1
<1>4. v = a \o b
  BY DEF RemoveAt
<1>5. v \in Seq(S) /\ Len(v) = n - 1 /\ DOMAIN v = 1..(n - 1)
  BY <1>1, <1>2, <1>3, <1>4
<1>6. \A k \in 1..(n - 1) : v[k] = IF k < i THEN w[k] ELSE w[k + 1]
  <2> SUFFICES ASSUME NEW k \in 1..(n - 1) PROVE v[k] = IF k < i THEN w[k] ELSE w[k + 1]
    OBVIOUS
  <2>1. CASE k < i
    BY <1>1, <1>2, <1>3, <1>4, <2>1
  <2>2. CASE ~(k < i)
    <3> DEFINE m == k - (i - 1)
    <3>1. m \in 1..(n - i) /\ i + m = k + 1 /\ (i - 1) + m = k
      BY <1>1, <2>2
    <3>2. b[m] = w[i + m]
      BY <1>3, <3>1
    <3>3. v[(i - 1) + m] = b[m]
      <4> HIDE DEF a, b, m, v
      <4>1. m \in 1..Len(b) /\ Len(a) = i - 1
        BY <1>2, <1>3, <3>1
      <4>2. a \in Seq(S) /\ b \in Seq(S) /\ v = a \o b
        BY <1>2, <1>3, <1>4
      <4>3. v[Len(a) + m] = b[m]
        BY ONLY <4>1, <4>2, TwoParts
      <4> QED
        BY ONLY <4>1, <4>3
    <3> QED
      BY <2>2, <3>1, <3>2, <3>3
  <2> QED
    BY <2>1, <2>2
<1>7. OnceEach(v)
  <2> SUFFICES ASSUME NEW k \in 1..(n - 1), NEW m \in 1..(n - 1), v[k] = v[m] PROVE k = m
    BY <1>5 DEF OnceEach
  <2> DEFINE from(j) == IF j < i THEN j ELSE j + 1
  <2>1. from(k) \in DOMAIN w /\ from(m) \in DOMAIN w
    BY <1>1
  <2>2. w[from(k)] = w[from(m)]
    BY <1>6
  <2>3. from(k) = from(m)
    BY <2>1, <2>2 DEF OnceEach
  <2> QED
    BY <1>1, <2>3
<1>8. ASSUME NEW d, Occurs(v, d) PROVE Occurs(w, d) /\ d # w[i]
  <2>1. PICK k \in 1..(n - 1) : d = IF k < i THEN w[k] ELSE w[k + 1]
    BY <1>5, <1>6, <1>8 DEF Occurs
  <2>2. PICK m \in 1..n : m # i /\ d = w[m]
    BY <1>1, <2>1
  <2> QED
    BY <1>1, <2>2 DEF Occurs, OnceEach
<1>9. ASSUME NEW d, Occurs(w, d), d # w[i] PROVE Occurs(v, d)
  <2>1. PICK m \in 1..n : w[m] = d /\ m # i
    BY <1>1, <1>9 DEF Occurs
  <2>2. CASE m < i
    <3>1. m \in 1..(n - 1) /\ v[m] = w[m]
      BY <1>1, <1>6, <2>1, <2>2
    <3> QED
      BY <1>5, <2>1, <3>1 DEF Occurs
  <2>3. CASE ~(m < i)
    <3>1. m - 1 \in 1..(n - 1) /\ ~(m - 1 < i) /\ (m - 1) + 1 = m
      BY <1>1, <2>1, <2>3
    <3>2. v[m - 1] = w[m]
      BY <1>6, <3>1
    <3> QED
      BY <1>5, <2>1, <3>1, <3>2 DEF Occurs
  <2> QED
    BY <2>2, <2>3
<1> QED
  BY <1>5, <1>7, <1>8, <1>9

-----------------------------------------------------------------------------
(***************************************************************************)
(* Slots and the queue.                                                    *)
(***************************************************************************)
LaneTypeOK == active \in Nat /\ waiting \in Seq(Callers) /\ at \in [Callers -> Places]
LaneInv == LaneTypeOK /\ SlotsAccountedFor /\ QueueOnlyWhenFull

LEMMA SlotsType == Slots \in Nat /\ Slots >= 1
BY GatewayAssumption DEF Slots

\* A set of callers is finite.
LEMMA CallersFinite ==
  ASSUME NEW H \in SUBSET Callers
  PROVE  IsFiniteSet(H) /\ Cardinality(H) \in Nat
BY GatewayAssumption, FS_Subset, FS_CardinalityType

\* One more of them, one less.
LEMMA CallerMore ==
  ASSUME NEW H \in SUBSET Callers, NEW c \in Callers, c \notin H
  PROVE  Cardinality(H \cup {c}) = Cardinality(H) + 1
BY CallersFinite, FS_AddElement
LEMMA CallerLess ==
  ASSUME NEW H \in SUBSET Callers, NEW c \in H
  PROVE  Cardinality(H \ {c}) = Cardinality(H) - 1
BY CallersFinite, FS_RemoveElement

\* The queue's part of QueueOnlyWhenFull in terms of the lemmas above.
LEMMA QueueFacts ==
  QueueOnlyWhenFull <=>
    /\ waiting # <<>> => active = Slots
    /\ \A c \in Callers : at[c] = "queued" <=> Occurs(waiting, c)
    /\ OnceEach(waiting)
BY DEF QueueOnlyWhenFull, InQueue, Occurs, OnceEach
LEMMA QueueFactsAfter ==
  QueueOnlyWhenFull' <=>
    /\ waiting' # <<>> => active' = Slots
    /\ \A c \in Callers : at'[c] = "queued" <=> Occurs(waiting', c)
    /\ OnceEach(waiting')
BY DEF QueueOnlyWhenFull, InQueue, Occurs, OnceEach, Slots

\* A step that moves one caller between places that are neither a slot nor the queue,
\* or between two that hold a slot, disturbs neither.
LEMMA MovesAside ==
  ASSUME LaneInv, NEW c \in Callers, NEW place \in Places \ {"queued"},
         at[c] # "queued", UNCHANGED <<active, waiting>>,
         at' = [at EXCEPT ![c] = place],
         c \in Holders <=> place \in {"granted", "calling", "backoff"}
  PROVE  LaneInv'
<1> USE DEF LaneInv, LaneTypeOK
<1>1. Holders' = Holders
  BY DEF Holders
<1>2. SlotsAccountedFor'
  BY <1>1 DEF SlotsAccountedFor, Slots
<1>3. QueueOnlyWhenFull'
  BY QueueFacts, QueueFactsAfter
<1> QED
  BY <1>2, <1>3

\* A released slot goes to the first in line, or is free when nobody waits.
LEMMA HandOverKeeps ==
  ASSUME LaneInv, NEW c \in Holders, HandOver(c)
  PROVE  LaneInv'
<1> USE DEF LaneInv, LaneTypeOK
<1>c. /\ c \in Callers /\ at[c] \in {"granted", "calling", "backoff"} /\ Holders \in SUBSET Callers
      /\ Cardinality(Holders) \in Nat /\ active = Cardinality(Holders) /\ active <= Slots
  BY CallersFinite DEF Holders, SlotsAccountedFor
<1>1. CASE waiting = <<>>
  <2>1. at' = [at EXCEPT ![c] = "out"] /\ active' = active - 1 /\ waiting' = waiting
    BY <1>1 DEF HandOver
  <2>2. Holders' = Holders \ {c}
    BY <1>c, <2>1 DEF Holders
  <2>3. Cardinality(Holders') = active'
    BY <1>c, <2>1, <2>2, CallerLess
  <2>4. active' \in Nat /\ active' <= Slots
    BY <1>c, <2>1, <2>2, <2>3, SlotsType, CallersFinite
  <2>5. SlotsAccountedFor'
    BY <2>3, <2>4 DEF SlotsAccountedFor, Slots
  <2>6. LaneTypeOK'
    BY <1>c, <2>1, <2>4 DEF Places
  <2>7. QueueOnlyWhenFull'
    BY <1>1, <1>c, <2>1, QueueFacts, QueueFactsAfter
  <2> QED
    BY <2>5, <2>6, <2>7
<1>2. CASE waiting # <<>>
  <2> DEFINE h == Head(waiting)
  <2>1. /\ at' = [at EXCEPT ![c] = "out", ![h] = "granted"]
        /\ waiting' = Tail(waiting) /\ active' = active
    BY <1>2 DEF HandOver
  <2>2. /\ h \in Callers /\ Occurs(waiting, h) /\ waiting' \in Seq(Callers) /\ OnceEach(waiting')
        /\ \A d : Occurs(waiting', d) <=> Occurs(waiting, d) /\ d # h
    BY <1>2, <2>1, QueueFacts, TailQueue
  <2>3. at[h] = "queued" /\ h # c /\ h \notin Holders
    BY <1>c, <2>2, QueueFacts DEF Holders
  <2> HIDE DEF h
  <2>4. Holders' = (Holders \ {c}) \cup {h}
    BY <1>c, <2>1, <2>2, <2>3 DEF Holders
  <2>5. Cardinality(Holders') = active'
    <3>1. Holders \ {c} \in SUBSET Callers /\ h \notin Holders \ {c}
      BY <1>c, <2>3
    <3>2. Cardinality((Holders \ {c}) \cup {h}) = Cardinality(Holders \ {c}) + 1
      BY <2>2, <3>1, CallerMore
    <3> QED
      BY <1>c, <2>1, <2>4, <3>2, CallerLess
  <2>6. SlotsAccountedFor'
    BY <1>c, <2>1, <2>5 DEF SlotsAccountedFor, Slots
  <2>7. LaneTypeOK'
    BY <1>c, <2>1, <2>2 DEF Places
  <2>8. QueueOnlyWhenFull'
    <3>1. active' = Slots
      BY <1>2, <2>1, QueueFacts
    <3>2. \A d \in Callers : at'[d] = "queued" <=> Occurs(waiting', d)
      BY <1>c, <2>1, <2>2, <2>3, QueueFacts
    <3> QED
      BY <2>2, <3>1, <3>2, QueueFactsAfter
  <2> QED
    BY <2>6, <2>7, <2>8
<1> QED
  BY <1>1, <1>2

\* Taking a slot, joining the queue, or turning back.
LEMMA AcquireKeeps ==
  ASSUME LaneInv, NEW c \in Callers, Acquire(c)
  PROVE  LaneInv'
<1> USE DEF LaneInv, LaneTypeOK
<1>c. /\ at[c] = "checked" /\ c \notin Holders /\ Holders \in SUBSET Callers
      /\ active = Cardinality(Holders) /\ active <= Slots /\ Slots \in Nat
  BY SlotsType DEF Acquire, Holders, SlotsAccountedFor
<1>1. CASE c \in aborted
  BY <1>1, <1>c, MovesAside DEF Acquire, Places
<1>2. CASE c \notin aborted /\ active >= Slots
  <2>1. at' = [at EXCEPT ![c] = "queued"] /\ waiting' = Append(waiting, c) /\ active' = active
    BY <1>2 DEF Acquire
  <2>2. ~Occurs(waiting, c) /\ OnceEach(waiting)
    BY <1>c, QueueFacts
  <2>3. /\ waiting' \in Seq(Callers) /\ OnceEach(waiting')
        /\ \A d : Occurs(waiting', d) <=> Occurs(waiting, d) \/ d = c
    BY <2>1, <2>2, AppendQueue
  <2>4. Holders' = Holders
    BY <1>c, <2>1 DEF Holders
  <2>5. SlotsAccountedFor'
    BY <2>1, <2>4 DEF SlotsAccountedFor, Slots
  <2>6. LaneTypeOK'
    BY <2>1, <2>3 DEF Places
  <2>7. QueueOnlyWhenFull'
    <3>1. active' = Slots
      BY <1>2, <1>c, <2>1
    <3>2. \A d \in Callers : at'[d] = "queued" <=> Occurs(waiting', d)
      BY <2>1, <2>3, QueueFacts
    <3> QED
      BY <2>3, <3>1, <3>2, QueueFactsAfter
  <2> QED
    BY <2>5, <2>6, <2>7
<1>3. CASE c \notin aborted /\ ~(active >= Slots)
  <2>1. at' = [at EXCEPT ![c] = "granted"] /\ waiting' = waiting /\ active' = active + 1
    BY <1>3 DEF Acquire
  <2>2. Holders' = Holders \cup {c}
    BY <1>c, <2>1 DEF Holders
  <2>3. SlotsAccountedFor'
    BY <1>3, <1>c, <2>1, <2>2, CallerMore DEF SlotsAccountedFor, Slots
  <2>4. LaneTypeOK'
    BY <2>1 DEF Places
  <2>5. waiting = <<>>
    BY <1>3, <1>c, QueueFacts
  <2>6. QueueOnlyWhenFull'
    BY <1>c, <2>1, <2>5, QueueFacts, QueueFactsAfter
  <2> QED
    BY <2>3, <2>4, <2>6
<1> QED
  BY <1>1, <1>2, <1>3

\* A stopped run leaves the queue.
LEMMA AbortKeeps ==
  ASSUME LaneInv, NEW c \in Callers, AbortRun(c)
  PROVE  LaneInv'
<1> USE DEF LaneInv, LaneTypeOK
<1>1. CASE ~InQueue(c)
  <2>1. UNCHANGED <<active, waiting, at>>
    BY <1>1 DEF AbortRun
  <2> QED
    BY <2>1 DEF SlotsAccountedFor, QueueOnlyWhenFull, Holders, InQueue, Slots
<1>2. CASE InQueue(c)
  <2>1. PICK i \in DOMAIN waiting :
          /\ waiting[i] = c /\ at' = [at EXCEPT ![c] = "out"]
          /\ waiting' = RemoveAt(waiting, i) /\ active' = active
    BY <1>2 DEF AbortRun
  <2>2. Occurs(waiting, c) /\ at[c] = "queued" /\ OnceEach(waiting)
    BY <1>2, QueueFacts DEF InQueue, Occurs
  <2>3. /\ waiting' \in Seq(Callers) /\ OnceEach(waiting')
        /\ \A d : Occurs(waiting', d) <=> Occurs(waiting, d) /\ d # c
    BY <2>1, <2>2, RemoveQueue
  <2>4. Holders' = Holders
    BY <2>1, <2>2 DEF Holders
  <2>5. SlotsAccountedFor'
    BY <2>1, <2>4 DEF SlotsAccountedFor, Slots
  <2>6. LaneTypeOK'
    BY <2>1, <2>3 DEF Places
  <2>7. QueueOnlyWhenFull'
    <3>1. active' = Slots
      <4>1. waiting # <<>>
        BY <2>1
      <4> QED
        BY <2>1, <4>1, QueueFacts
    <3>2. \A d \in Callers : at'[d] = "queued" <=> Occurs(waiting', d)
      BY <2>1, <2>3, QueueFacts
    <3> QED
      BY <2>3, <3>1, <3>2, QueueFactsAfter
  <2> QED
    BY <2>5, <2>6, <2>7
<1> QED
  BY <1>1, <1>2

LEMMA LaneInit == GateInit => LaneInv
<1> SUFFICES ASSUME GateInit PROVE LaneInv
  OBVIOUS
<1>1. Holders = {}
  BY DEF GateInit, Holders
<1>2. SlotsAccountedFor
  BY <1>1, SlotsType, FS_EmptySet DEF GateInit, SlotsAccountedFor
<1>3. LaneTypeOK
  BY DEF GateInit, LaneTypeOK, Places
<1>4. QueueOnlyWhenFull
  BY DEF GateInit, QueueOnlyWhenFull, InQueue
<1> QED
  BY <1>2, <1>3, <1>4 DEF LaneInv

LEMMA LaneStep == LaneInv /\ [GateNext]_gateVars => LaneInv'
<1> SUFFICES ASSUME LaneInv, [GateNext]_gateVars PROVE LaneInv'
  OBVIOUS
<1>1. ASSUME UNCHANGED <<active, waiting, at>> PROVE LaneInv'
  BY <1>1 DEF LaneInv, LaneTypeOK, SlotsAccountedFor, QueueOnlyWhenFull, Holders, InQueue, Slots
<1>2. ASSUME NEW c \in Callers, CheckBudget(c) PROVE LaneInv'
  BY <1>2, MovesAside DEF CheckBudget, Holders, Places
<1>3. ASSUME NEW c \in Callers, Acquire(c) PROVE LaneInv'
  BY <1>3, AcquireKeeps
<1>4. ASSUME NEW c \in Callers, Send(c) PROVE LaneInv'
  BY <1>4, MovesAside DEF Send, Holders, Places
<1>5. ASSUME NEW c \in Callers, Iterate(c) PROVE LaneInv'
  BY <1>1, <1>5, HandOverKeeps DEF Iterate, Release, Holders
<1>6. ASSUME NEW c \in Callers, CallEnds(c) PROVE LaneInv'
  BY <1>6, HandOverKeeps DEF CallEnds, Release, Holders
<1>7. ASSUME NEW c \in Callers, RateLimited(c) PROVE LaneInv'
  <2>1. CASE waits[c] < MaxWaits
    BY <1>7, <2>1, MovesAside DEF RateLimited, Holders, Places
  <2>2. CASE ~(waits[c] < MaxWaits)
    BY <1>7, <2>2, HandOverKeeps DEF RateLimited, Release, Holders
  <2> QED
    BY <2>1, <2>2
<1>8. ASSUME NEW c \in Callers, WakeUp(c) PROVE LaneInv'
  <2>1. CASE c \notin aborted /\ BudgetLeft
    BY <1>8, <2>1, MovesAside DEF WakeUp, Holders, Places
  <2>2. CASE ~(c \notin aborted /\ BudgetLeft)
    BY <1>8, <2>2, HandOverKeeps DEF WakeUp, Release, Holders
  <2> QED
    BY <2>1, <2>2
<1>9. ASSUME NEW c \in Callers, AbortRun(c) PROVE LaneInv'
  BY <1>9, AbortKeeps
<1>10. ASSUME NEW c \in Callers, NextRun(c) PROVE LaneInv'
  BY <1>1, <1>10 DEF NextRun
<1>11. CASE NewDay
  BY <1>1, <1>11 DEF NewDay
<1>12. CASE UNCHANGED gateVars
  BY <1>1, <1>12 DEF gateVars
<1> QED
  BY <1>2, <1>3, <1>4, <1>5, <1>6, <1>7, <1>8, <1>9, <1>10, <1>11, <1>12 DEF GateNext

LEMMA LaneInvariant == GateSpec => []LaneInv
BY LaneInit, LaneStep, PTL DEF GateSpec

\* Any number of callers, any limit: the lane's counter is the number of callers that
\* hold a slot, and the limit is kept.
THEOREM SlotsAreAccountedFor == GateSpec => []SlotsAccountedFor
<1>1. LaneInv => SlotsAccountedFor
  BY DEF LaneInv
<1> QED
  BY <1>1, LaneInvariant, PTL

\* Nobody waits beside a free slot, and nobody waits twice.
THEOREM QueuesOnlyWhenFull == GateSpec => []QueueOnlyWhenFull
<1>1. LaneInv => QueueOnlyWhenFull
  BY DEF LaneInv
<1> QED
  BY <1>1, LaneInvariant, PTL

-----------------------------------------------------------------------------
(***************************************************************************)
(* The budget.                                                             *)
(***************************************************************************)
BudgetInv ==
  /\ LaneInv
  /\ spent \in Nat
  /\ OvershootBounded

LEMMA UncountedFinite ==
  /\ Cardinality(Callers) \in Nat /\ DailyBudget \in Nat
  /\ Uncounted \in SUBSET Callers /\ Cardinality(Uncounted) \in Nat
  /\ Cardinality(Uncounted) <= Cardinality(Callers)
  /\ \A c \in Callers : c \notin Uncounted => Cardinality(Uncounted) < Cardinality(Callers)
<1>1. Uncounted \in SUBSET Callers
  BY DEF Uncounted
<1> QED
  BY <1>1, GatewayAssumption, CallersFinite, FS_CardinalityType, FS_Subset

\* The same of the next state.
LEMMA UncountedFiniteAfter ==
  /\ Uncounted' \in SUBSET Callers /\ Cardinality(Uncounted') \in Nat
  /\ Cardinality(Uncounted') <= Cardinality(Callers)
<1>1. Uncounted' \in SUBSET Callers
  BY DEF Uncounted
<1> QED
  BY <1>1, GatewayAssumption, CallersFinite, FS_CardinalityType, FS_Subset

\* A step that counts nothing and lets no caller past a check only lowers the bound.
LEMMA NoMoreUncounted ==
  ASSUME BudgetInv, spent' <= spent, spent' \in Nat, Uncounted' \subseteq Uncounted
  PROVE  OvershootBounded'
<1>1. Cardinality(Uncounted') <= Cardinality(Uncounted)
  BY UncountedFinite, CallersFinite, FS_Subset
<1> QED
  BY <1>1, UncountedFinite, UncountedFiniteAfter DEF BudgetInv, OvershootBounded

\* A step below the budget may let one caller past its check.
LEMMA CheckedBelowBudget ==
  ASSUME spent \in Nat, spent < DailyBudget, spent' = spent
  PROVE  OvershootBounded'
BY UncountedFinite, UncountedFiniteAfter DEF OvershootBounded

\* A handover lets nobody past a check: the served caller was past it.
LEMMA HandOverCounts ==
  ASSUME LaneInv, NEW c \in Holders, HandOver(c)
  PROVE  Uncounted' \subseteq Uncounted
<1>1. at \in [Callers -> Places] /\ c \in Callers /\ waiting \in Seq(Callers)
  BY DEF LaneInv, LaneTypeOK, Holders
<1>2. waiting # <<>> => at[Head(waiting)] = "queued" /\ Head(waiting) \in Callers
  BY QueueFacts, TailQueue, <1>1 DEF LaneInv
<1> QED
  BY <1>1, <1>2 DEF HandOver, Uncounted

LEMMA BudgetInit == GateInit => BudgetInv
<1> SUFFICES ASSUME GateInit PROVE BudgetInv
  OBVIOUS
<1>1. Uncounted = {}
  BY DEF GateInit, Uncounted
<1>2. Cardinality(Uncounted) = 0 /\ spent = 0
  BY <1>1, FS_EmptySet DEF GateInit
<1> QED
  BY <1>2, LaneInit, UncountedFinite DEF BudgetInv, OvershootBounded

LEMMA BudgetStep == BudgetInv /\ [GateNext]_gateVars => BudgetInv'
<1> SUFFICES ASSUME BudgetInv, [GateNext]_gateVars PROVE BudgetInv'
  OBVIOUS
<1>l. LaneInv /\ LaneInv' /\ at \in [Callers -> Places] /\ spent \in Nat
  BY LaneStep DEF BudgetInv, LaneInv, LaneTypeOK
<1>n. spent' \in Nat
  BY <1>l DEF GateNext, gateVars, NewDay, CheckBudget, Acquire, Send, Iterate, CallEnds,
     RateLimited, WakeUp, AbortRun, NextRun
<1>r. ASSUME NEW c \in Holders, HandOver(c), spent' = spent PROVE OvershootBounded'
  BY <1>l, <1>r, HandOverCounts, NoMoreUncounted
<1>s. ASSUME UNCHANGED <<at, spent>> PROVE OvershootBounded'
  BY <1>s, UncountedFinite DEF BudgetInv, OvershootBounded, Uncounted
<1>1. ASSUME NEW c \in Callers, CheckBudget(c) PROVE OvershootBounded'
  BY <1>1, <1>l, CheckedBelowBudget DEF CheckBudget, BudgetLeft
<1>2. ASSUME NEW c \in Callers, Acquire(c) PROVE OvershootBounded'
  <2>1. Uncounted' \subseteq Uncounted /\ spent' = spent
    BY <1>2, <1>l DEF Acquire, Uncounted
  <2> QED
    BY <1>l, <2>1, NoMoreUncounted
<1>3. ASSUME NEW c \in Callers, Send(c) PROVE OvershootBounded'
  <2>1. at' = [at EXCEPT ![c] = "calling"] /\ c \in Uncounted
    BY <1>3 DEF Send, Uncounted
  <2>2. Uncounted' = Uncounted \ {c}
    BY <1>l, <2>1 DEF Uncounted
  <2>3. Cardinality(Uncounted') = Cardinality(Uncounted) - 1
    BY <2>1, <2>2, UncountedFinite, CallerLess
  <2>4. spent' <= spent + 1
    BY <1>3, <1>l DEF Send
  <2> QED
    BY <1>l, <1>n, <2>3, <2>4, UncountedFinite DEF BudgetInv, OvershootBounded
<1>4. ASSUME NEW c \in Callers, Iterate(c) PROVE OvershootBounded'
  <2>1. CASE BudgetLeft
    <3>1. Uncounted' = Uncounted /\ spent' = spent + 1 /\ spent < DailyBudget
      BY <1>4, <2>1 DEF Iterate, Uncounted, BudgetLeft
    <3>2. Cardinality(Uncounted) < Cardinality(Callers)
      BY <1>4, UncountedFinite DEF Iterate, Uncounted
    <3> QED
      BY <1>l, <3>1, <3>2, UncountedFinite DEF OvershootBounded
  <2>2. CASE ~BudgetLeft
    BY <1>r, <1>4, <2>2 DEF Iterate, Release, Holders
  <2> QED
    BY <2>1, <2>2
<1>5. ASSUME NEW c \in Callers, CallEnds(c) PROVE OvershootBounded'
  BY <1>r, <1>5 DEF CallEnds, Release, Holders
<1>6. ASSUME NEW c \in Callers, RateLimited(c) PROVE OvershootBounded'
  <2>1. CASE waits[c] < MaxWaits
    <3>1. at' = [at EXCEPT ![c] = "backoff"] /\ spent' = spent
      BY <1>6, <2>1 DEF RateLimited
    <3>2. Uncounted' \subseteq Uncounted
      BY <1>l, <3>1 DEF Uncounted
    <3> QED
      BY <1>l, <3>1, <3>2, NoMoreUncounted
  <2>2. CASE ~(waits[c] < MaxWaits)
    BY <1>r, <1>6, <2>2 DEF RateLimited, Release, Holders
  <2> QED
    BY <2>1, <2>2
<1>7. ASSUME NEW c \in Callers, WakeUp(c) PROVE OvershootBounded'
  <2>1. CASE c \notin aborted /\ BudgetLeft
    BY <1>7, <1>l, <2>1, CheckedBelowBudget DEF WakeUp, BudgetLeft
  <2>2. CASE ~(c \notin aborted /\ BudgetLeft)
    BY <1>r, <1>7, <2>2 DEF WakeUp, Release, Holders
  <2> QED
    BY <2>1, <2>2
<1>8. ASSUME NEW c \in Callers, AbortRun(c) PROVE OvershootBounded'
  <2>1. Uncounted' \subseteq Uncounted /\ spent' = spent
    BY <1>8, <1>l DEF AbortRun, Uncounted
  <2> QED
    BY <1>l, <2>1, NoMoreUncounted
<1>9. ASSUME NEW c \in Callers, NextRun(c) PROVE OvershootBounded'
  BY <1>s, <1>9 DEF NextRun
<1>10. ASSUME NewDay PROVE OvershootBounded'
  <2>1. Uncounted' = Uncounted /\ spent' <= spent
    BY <1>10, <1>l DEF NewDay, Uncounted
  <2> QED
    BY <1>n, <2>1, NoMoreUncounted
<1>11. ASSUME UNCHANGED gateVars PROVE OvershootBounded'
  BY <1>s, <1>11 DEF gateVars
<1>12. OvershootBounded'
  BY <1>1, <1>2, <1>3, <1>4, <1>5, <1>6, <1>7, <1>8, <1>9, <1>10, <1>11 DEF GateNext
<1> QED
  BY <1>l, <1>n, <1>12 DEF BudgetInv

\* What the check before the wait and the count after it leave of the budget, for any
\* number of callers.
THEOREM BudgetOvershootIsBounded == GateSpec => []OvershootBounded
<1>1. BudgetInv => OvershootBounded
  BY DEF BudgetInv
<1>2. GateSpec => []BudgetInv
  BY BudgetInit, BudgetStep, PTL DEF GateSpec
<1> QED
  BY <1>1, <1>2, PTL

-----------------------------------------------------------------------------
(***************************************************************************)
(* SchemaMigration.                                                        *)
(***************************************************************************)
\* A process never skips a migration: it is at most one past the last applied, and one
\* that serves is past the last its build knows.
NeverAhead ==
  \A p \in Openers :
    /\ opener[p].at \in {"migrating", "locked"} => opener[p].next <= Len(ran) + 1
    /\ opener[p].at = "serving" => CodeVersion[p] <= Len(ran)

SchemaInv == SchemaTypeOK /\ AppliedInOrder /\ NeverAhead

\* In a schema without gaps the highest version is the number of migrations applied
\* (getSchemaVersion).
LEMMA VersionIsCount ==
  ASSUME SchemaTypeOK, AppliedInOrder
  PROVE SchemaVersion = Len(ran)
<1> DEFINE n == Len(ran)
<1>1. n \in Nat /\ schema = 1..n
  BY DEF SchemaTypeOK, AppliedInOrder
<1>2. n \in schema \cup {0} /\ \A w \in schema : w <= n
  BY <1>1
<1>3. ASSUME NEW v \in schema \cup {0}, \A w \in schema : w <= v
      PROVE v = n
  BY <1>1, <1>3
<1> QED
  BY <1>2, <1>3 DEF SchemaVersion

\* The file a process finds has the migrations of an older build, or none.
LEMMA SchemaInitInv == SchemaInit => SchemaInv
<1> SUFFICES ASSUME SchemaInit PROVE SchemaInv
  OBVIOUS
<1> USE SchemaAssumption
<1>1. PICK p \in Openers : \E v \in 0..CodeVersion[p] : schema = 1..v /\ ran = [i \in 1..v |-> i]
  BY DEF SchemaInit
<1>2. PICK v \in 0..CodeVersion[p] : schema = 1..v /\ ran = [i \in 1..v |-> i]
  BY <1>1
<1>3. v \in Nat /\ ran \in Seq(Nat) /\ Len(ran) = v
  BY <1>2
<1>4. SchemaTypeOK
  BY <1>2, <1>3 DEF SchemaInit, SchemaTypeOK, OpenerPlaces
<1>5. AppliedInOrder
  BY <1>2, <1>3 DEF AppliedInOrder
<1>6. NeverAhead
  BY DEF SchemaInit, NeverAhead
<1> QED
  BY <1>4, <1>5, <1>6 DEF SchemaInv

\* One step of one process keeps the schema in order.
LEMMA SchemaStepInv == SchemaInv /\ [SchemaNext]_schemaVars => SchemaInv'
<1> SUFFICES ASSUME SchemaInv, [SchemaNext]_schemaVars PROVE SchemaInv'
  OBVIOUS
<1> USE SchemaAssumption DEF SchemaInv
<1>v. SchemaVersion = Len(ran) /\ Len(ran) \in Nat
  BY VersionIsCount DEF SchemaTypeOK
<1>1. ASSUME NEW p \in Openers, Open(p) PROVE SchemaInv'
  BY <1>1, <1>v DEF Open, SchemaTypeOK, OpenerPlaces, AppliedInOrder, NeverAhead
<1>2. ASSUME NEW p \in Openers, TakeWriteLock(p) PROVE SchemaInv'
  BY <1>2 DEF TakeWriteLock, SchemaTypeOK, OpenerPlaces, AppliedInOrder, NeverAhead
<1>3. ASSUME NEW p \in Openers, Migrate(p) PROVE SchemaInv'
  <2> DEFINE m == opener[p].next
  <2>1. m \in Nat /\ m <= Len(ran) + 1
    BY <1>3 DEF Migrate, NeverAhead, SchemaTypeOK
  <2>2. opener' = [opener EXCEPT ![p] = [at |-> "migrating", next |-> m + 1]]
    BY <1>3 DEF Migrate
  <2>3. CASE AppliedMeanwhile(m)
    <3>1. UNCHANGED <<schema, ran>> /\ m <= Len(ran)
      BY <1>3, <1>v, <2>1, <2>3 DEF Migrate, AppliedMeanwhile
    <3>2. SchemaTypeOK'
      BY <1>3, <2>1, <2>2, <3>1 DEF Migrate, SchemaTypeOK, OpenerPlaces
    <3>3. AppliedInOrder'
      BY <3>1 DEF AppliedInOrder
    <3>4. NeverAhead'
      BY <1>v, <2>1, <2>2, <3>1 DEF SchemaTypeOK, NeverAhead
    <3> QED
      BY <3>2, <3>3, <3>4
  <2>4. CASE ~AppliedMeanwhile(m)
    <3>1. m = Len(ran) + 1 /\ schema' = schema \cup {m} /\ ran' = Append(ran, m)
      BY <1>3, <1>v, <2>1, <2>4 DEF Migrate, AppliedMeanwhile
    <3>2. ran' \in Seq(Nat) /\ Len(ran') = m
      BY <1>v, <2>1, <3>1 DEF SchemaTypeOK
    <3>3. schema' = 1..m
      BY <1>v, <3>1 DEF AppliedInOrder
    <3>4. ran' = [i \in 1..Len(ran') |-> i]
      <4>1. \A i \in 1..m : ran'[i] = i
        BY <1>v, <3>1 DEF SchemaTypeOK, AppliedInOrder
      <4>2. ran' = [i \in 1..m |-> ran'[i]]
        BY <3>2
      <4>3. [i \in 1..m |-> ran'[i]] = [i \in 1..m |-> i]
        BY <4>1
      <4> QED
        BY <3>2, <4>2, <4>3
    <3>5. SchemaTypeOK'
      BY <1>3, <2>1, <2>2, <3>2, <3>3 DEF Migrate, SchemaTypeOK, OpenerPlaces
    <3>6. NeverAhead'
      BY <1>v, <2>1, <2>2, <3>1, <3>2 DEF SchemaTypeOK, NeverAhead
    <3> QED
      BY <3>2, <3>3, <3>4, <3>5, <3>6 DEF AppliedInOrder
  <2> QED
    BY <2>3, <2>4
<1>4. ASSUME NEW p \in Openers, MigrationFails(p) PROVE SchemaInv'
  BY <1>4 DEF MigrationFails, OpenFault, SchemaTypeOK, OpenerPlaces, AppliedInOrder, NeverAhead
<1>5. ASSUME NEW p \in Openers, Serve(p) PROVE SchemaInv'
  BY <1>5, <1>v DEF Serve, PastTheLast, SchemaTypeOK, OpenerPlaces, AppliedInOrder, NeverAhead
<1>6. ASSUME NEW p \in Openers, EndProcess(p) PROVE SchemaInv'
  BY <1>6 DEF EndProcess, OpenFault, SchemaTypeOK, OpenerPlaces, AppliedInOrder, NeverAhead
<1>7. CASE UNCHANGED schemaVars
  BY <1>7 DEF schemaVars, SchemaTypeOK, AppliedInOrder, NeverAhead
<1> QED
  BY <1>1, <1>2, <1>3, <1>4, <1>5, <1>6, <1>7 DEF SchemaNext

LEMMA SchemaInvariant == SchemaSpec => []SchemaInv
BY SchemaInitInv, SchemaStepInv, PTL DEF SchemaSpec

\* However many processes of whatever builds start together, every migration takes
\* effect once and in order, and the version table says which did.
THEOREM MigrationsApplyInOrder == SchemaSpec => []AppliedInOrder
<1>1. SchemaInv => AppliedInOrder
  BY DEF SchemaInv
<1> QED
  BY <1>1, SchemaInvariant, PTL

\* A process that takes up its work finds all migrations of its build applied.
THEOREM ServingIsMigrated == SchemaSpec => []ServesMigrated
<1>1. SchemaInv => ServesMigrated
  BY DEF SchemaInv, NeverAhead, ServesMigrated
<1> QED
  BY <1>1, SchemaInvariant, PTL

-----------------------------------------------------------------------------
(***************************************************************************)
(* AttemptLoop.                                                            *)
(***************************************************************************)
\* An attempt is a repair of a failed one.
RepairsFollowFailures ==
  /\ step = "next" => result.failures = attempt /\ attempt < MaxRepairAttempts
  /\ step \in {"gate", "queue", "script", "backoff", "verify"} => result.failures = attempt - 1
  /\ step \notin {"next", "returned"} => attempt >= 1

\* Until the budget is found spent, what was read was counted; a script that is past its
\* end was read to the end.
ReadIsCounted ==
  /\ ~budgetStop => script.counted = script.read
  /\ step = "next" => ~budgetStop
  /\ step = "verify" => ~budgetStop /\ script.read = script.announced
  /\ step # "returned" => result.outcome = "none"

LoopInv == LoopTypeOK /\ RepairsFollowFailures /\ ReadIsCounted /\ VerifiedIsCounted

\* What a script has announced, been read and counted changes by whole iterations.
ScriptType == [state : ScriptStates, announced : Nat, read : Nat, counted : Nat]
LEMMA ScriptReadOn ==
  ASSUME NEW s \in ScriptType, NEW r \in Nat, NEW n \in Nat
  PROVE [s EXCEPT !.read = r, !.counted = n] \in ScriptType
BY DEF ScriptType
LEMMA ScriptAnnounces ==
  ASSUME NEW s \in ScriptType, NEW n \in Nat
  PROVE [s EXCEPT !.state = "agent", !.announced = n] \in ScriptType
BY DEF ScriptType, ScriptStates

LEMMA LoopInitInv == LoopInit => LoopInv
<1> SUFFICES ASSUME LoopInit PROVE LoopInv
  OBVIOUS
<1> USE LoopAssumption DEF LoopInit
<1>1. script \in [state : ScriptStates, announced : Nat, read : Nat, counted : Nat]
  BY DEF FreshScript, ScriptStates
<1>2. result \in [outcome : Outcomes, failures : 0..MaxRepairAttempts]
  BY DEF Outcomes
<1>3. budgetStop \in BOOLEAN /\ stopSignal \in BOOLEAN
  BY Zenon
<1>4. attempt \in 0..MaxRepairAttempts /\ reruns \in 0..MaxRateLimits /\ step \in Steps
  BY DEF Steps
<1>5. LoopTypeOK
  BY <1>1, <1>2, <1>3, <1>4 DEF LoopTypeOK
<1>6. RepairsFollowFailures /\ ReadIsCounted /\ VerifiedIsCounted
  BY DEF RepairsFollowFailures, ReadIsCounted, VerifiedIsCounted, FreshScript
<1> QED
  BY <1>5, <1>6 DEF LoopInv

\* The steps of the worker, of the script and of the others keep it.
LEMMA LoopStepInv == LoopInv /\ [LoopNext]_loopVars => LoopInv'
<1> SUFFICES ASSUME LoopInv, [LoopNext]_loopVars PROVE LoopInv'
  OBVIOUS
<1> USE LoopAssumption DEF LoopInv, LoopTypeOK, RepairsFollowFailures, ReadIsCounted,
      VerifiedIsCounted, Steps, ScriptStates, Outcomes
<1>1. CASE NextAttempt
  <2>1. CASE StopsBeforeAttempt
    BY <1>1, <2>1 DEF NextAttempt, Return
  <2>2. CASE ~StopsBeforeAttempt
    <3>1. attempt < MaxRepairAttempts /\ result.failures = attempt /\ result.outcome = "none"
      BY <1>1 DEF NextAttempt
    <3>2. /\ attempt' = attempt + 1 /\ budgetStop' = FALSE /\ reruns' = 0 /\ step' = "gate"
          /\ UNCHANGED <<result, script, calls, others, stopSignal>>
      BY <1>1, <2>2 DEF NextAttempt
    <3>3. script.counted = script.read
      BY <1>1 DEF NextAttempt
    <3>4. LoopTypeOK'
      <4>1. attempt' \in 0..MaxRepairAttempts /\ reruns' \in 0..MaxRateLimits /\ step' \in Steps
        BY <3>1, <3>2
      <4>2. budgetStop' \in BOOLEAN
        BY <3>2, Zenon
      <4> QED
        BY <3>2, <4>1, <4>2
    <3> QED
      BY <3>1, <3>2, <3>3, <3>4
  <2> QED
    BY <2>1, <2>2
<1>2. CASE GateCheck
  BY <1>2 DEF GateCheck, Return, FreshScript
<1>3. CASE GateAcquire
  BY <1>3 DEF GateAcquire, Return, FreshScript
<1>4. CASE ReadIteration
  <2> DEFINE counts == ~budgetStop /\ CallsLeft
  <2>1. /\ step = "script" /\ step' = "script" /\ result.outcome = "none"
        /\ budgetStop' = (budgetStop \/ ~CallsLeft)
        /\ UNCHANGED <<attempt, others, reruns, stopSignal, result>>
    BY <1>4 DEF ReadIteration
  <2>2. calls' = (IF counts THEN calls + 1 ELSE calls) /\ calls' \in Nat
    BY <1>4 DEF ReadIteration
  <2>3. script' = [script EXCEPT !.read = script.read + 1,
                     !.counted = IF counts THEN script.counted + 1 ELSE script.counted]
    BY <1>4 DEF ReadIteration
  <2>4. script' \in [state : ScriptStates, announced : Nat, read : Nat, counted : Nat]
    <3>1. /\ (IF counts THEN script.counted + 1 ELSE script.counted) \in Nat
          /\ script.read + 1 \in Nat
      OBVIOUS
    <3> QED
      BY ONLY <2>3, <3>1, ScriptReadOn, LoopInv DEF LoopInv, LoopTypeOK, ScriptType
  <2>5. budgetStop' \in BOOLEAN
    BY <2>1
  <2>6. LoopTypeOK'
    BY <2>1, <2>2, <2>4, <2>5
  <2>7. ~budgetStop' => script'.counted = script'.read
    <3>1. ~budgetStop' => counts /\ script.counted = script.read
      BY <2>1
    <3> QED
      BY <2>3, <3>1
  <2> QED
    BY <2>1, <2>6, <2>7
<1>5. CASE ScriptEnds
  <2>1. AfterScript(script.state) \in {"budget_exceeded", "aborted", "verify", "failed"}
    BY DEF AfterScript
  <2>2. AfterScript(script.state) = "verify" => ~budgetStop
    BY DEF AfterScript
  <2> QED
    BY <1>5, <2>1, <2>2 DEF ScriptEnds, Return
<1>6. ASSUME NEW passed \in BOOLEAN, Verify(passed) PROVE LoopInv'
  BY <1>6 DEF Verify, Return
<1>7. CASE Announce
  <2>1. /\ step = "script" /\ result.outcome = "none"
        /\ script' = [script EXCEPT !.state = "agent", !.announced = script.announced + 1]
        /\ UNCHANGED <<attempt, step, budgetStop, calls, others, reruns, stopSignal, result>>
    BY <1>7 DEF Announce, Running
  <2>2. script' \in [state : ScriptStates, announced : Nat, read : Nat, counted : Nat]
    <3>1. script.announced + 1 \in Nat
      OBVIOUS
    <3> QED
      BY ONLY <2>1, <3>1, ScriptAnnounces, LoopInv DEF LoopInv, LoopTypeOK, ScriptType
  <2>3. script'.counted = script.counted /\ script'.read = script.read
    BY <2>1
  <2>4. LoopTypeOK'
    BY <2>1, <2>2
  <2> QED
    BY <2>1, <2>3, <2>4
<1>8. CASE AgentReturns \/ GivesUp \/ Killed \/ TimesOut
  BY <1>8 DEF AgentReturns, GivesUp, Killed, TimesOut, ScriptMoves, Running
<1>9. CASE StopRun
  BY <1>9 DEF StopRun
<1>10. CASE OtherCall
  BY <1>10 DEF OtherCall
<1>11. CASE UNCHANGED loopVars
  BY <1>11 DEF loopVars
<1> QED
  BY <1>1, <1>2, <1>3, <1>4, <1>5, <1>6, <1>7, <1>8, <1>9, <1>10, <1>11
  DEF LoopNext, LoopStep, ScriptStep

LEMMA LoopInvariant == LoopSpec => []LoopInv
BY LoopInitInv, LoopStepInv, PTL DEF LoopSpec

\* Whatever the iteration limits and the budget: what reaches verification was counted
\* against the budget, every iteration of it.
THEOREM VerifiedWorkIsCounted == LoopSpec => []VerifiedIsCounted
<1>1. LoopInv => VerifiedIsCounted
  BY DEF LoopInv
<1> QED
  BY <1>1, LoopInvariant, PTL

\* Once the run is stopped no attempt starts, and the loop can only come to "aborted" or
\* "budget_exceeded".
THEOREM StopIsFinal == LoopSpec => StopEndsTheLoop
<1> DEFINE Final == stopSignal =>
      /\ attempt' = attempt
      /\ result' # result => result'.outcome \in {"aborted", "budget_exceeded"}
<1>1. LoopInv /\ [LoopNext]_loopVars => [Final]_loopVars
  <2> SUFFICES ASSUME LoopInv, LoopNext, stopSignal
               PROVE /\ attempt' = attempt
                     /\ result' # result => result'.outcome \in {"aborted", "budget_exceeded"}
    OBVIOUS
  <2> USE DEF LoopInv, LoopTypeOK, Outcomes
  <2>1. CASE NextAttempt
    BY <2>1 DEF NextAttempt, StopsBeforeAttempt, Return
  <2>2. CASE GateCheck \/ GateAcquire
    BY <2>2 DEF GateCheck, GateAcquire, Return
  <2>3. CASE ScriptEnds
    BY <2>3 DEF ScriptEnds, AfterScript, LoopAborted, Return
  <2>4. ASSUME NEW passed \in BOOLEAN, Verify(passed)
        PROVE /\ attempt' = attempt
              /\ result' # result => result'.outcome \in {"aborted", "budget_exceeded"}
    BY <2>4 DEF Verify, Return
  <2>5. CASE ReadIteration \/ ScriptStep \/ StopRun \/ OtherCall
    BY <2>5 DEF ReadIteration, ScriptStep, Announce, AgentReturns, GivesUp, Killed, TimesOut,
       ScriptMoves, StopRun, OtherCall
  <2> QED
    BY <2>1, <2>2, <2>3, <2>4, <2>5 DEF LoopNext, LoopStep
<1> QED
  BY <1>1, LoopInvariant, PTL DEF LoopSpec, StopEndsTheLoop

-----------------------------------------------------------------------------
(***************************************************************************)
(* PrChecker.                                                              *)
(***************************************************************************)
\* The first outcome recorded is the run's outcome for good, whatever other processes
\* saw and looked up before.
THEOREM OutcomeIsForGood == CheckSpec => OneOutcomeForGood
<1>1. [CheckNext]_prVars => [recorded # {} => recorded' = recorded]_prVars
  BY DEF CheckNext, prVars, world, memory, HostChanges, Expires, ProjectGone, Request, Elapses,
     Restart, BeginCheck, Resolve, Ask, CheckFails, TakeAnswer, Insert, AfterInsert
<1> QED
  BY <1>1, PTL DEF CheckSpec, OneOutcomeForGood

-----------------------------------------------------------------------------
(***************************************************************************)
(* RunPage.                                                                *)
(***************************************************************************)
\* The last status event of a history.
IsLastStatus(i, ev) ==
  /\ i \in DOMAIN ev /\ ev[i] # Detail
  /\ \A j \in DOMAIN ev : j > i => ev[j] = Detail

\* The run has a status, and none follows the one that ends it.
HistoryOK ==
  /\ \E i \in DOMAIN events : IsLastStatus(i, events)
  /\ \A i, j \in DOMAIN events : Finished(events[i]) /\ i < j => events[j] = Detail

\* What the page shows, and what an answer brings, the run has been.
ShowsHistory ==
  /\ page.status # Loading => \E i \in DOMAIN events : events[i] = page.status
  /\ get.kind = "answer" => \E i \in DOMAIN events : events[i] = get.status
  /\ stream.phase # "none" => page.status # Loading

\* What the stream brought is in the log, and a replay-only stream that the server did
\* not leave in the middle has sent the run's end.
StreamOK ==
  /\ 1..stream.taken \subseteq page.log
  /\ stream.taken <= stream.sent
  /\ stream.replayOnly => Finished(RunsStatus)
  /\ stream.replayOnly /\ stream.phase \in {"open", "closed", "stopped"} => UpdatedAt <= stream.sent
  /\ stream.phase = "stopped" => stream.taken = stream.sent

PageInv == PageTypeOK /\ HistoryOK /\ ShowsHistory /\ StreamOK

\* UpdatedAt is any event that is the last status.
LEMMA LastStatusIsUnique ==
  ASSUME NEW ev \in Seq(PageStatuses \cup {Detail}), NEW i, IsLastStatus(i, ev)
  PROVE i = CHOOSE k \in DOMAIN ev :
              ev[k] # Detail /\ \A j \in DOMAIN ev : j > k => ev[j] = Detail
BY DEF IsLastStatus

\* No status leads out of a terminal one; details and the unloaded page have none.
LEMMA StatusFacts ==
  /\ \A s \in PageStatuses : s # Detail /\ s # Loading
  /\ Detail # Loading /\ ~Finished(Detail) /\ ~Finished(Loading)
  /\ \A s, t \in PageStatuses : Policy!canTransition(s, t) => ~Finished(s)
BY PageAssumption, SMTT(30)
   DEF PageAssumption, Detail, Loading, Finished, Policy!TERMINAL, Policy!canTransition,
       Policy!TRANSITIONS, Policy!RunStatus

\* UpdatedAt and RunsStatus are what their names say, and only the last status can be
\* terminal.
LEMMA RunsStatusIsLast ==
  ASSUME PageTypeOK, HistoryOK
  PROVE /\ IsLastStatus(UpdatedAt, events) /\ UpdatedAt \in 1..Top
        /\ RunsStatus \in PageStatuses
        /\ \A i \in 1..Top : Finished(events[i]) => i = UpdatedAt
<1>1. PICK i \in DOMAIN events : IsLastStatus(i, events)
  BY DEF HistoryOK
<1>2. events \in Seq(PageStatuses \cup {Detail}) /\ DOMAIN events = 1..Top
  BY DEF PageTypeOK, Top
<1>3. i = UpdatedAt
  BY <1>1, <1>2, LastStatusIsUnique DEF UpdatedAt
<1>4. ASSUME NEW k \in 1..Top, Finished(events[k]) PROVE k = UpdatedAt
  BY <1>1, <1>2, <1>3, <1>4, StatusFacts DEF HistoryOK, IsLastStatus
<1>5. UpdatedAt \in 1..Top /\ IsLastStatus(UpdatedAt, events)
  BY <1>1, <1>2, <1>3
<1>6. RunsStatus \in PageStatuses
  BY <1>2, <1>5 DEF IsLastStatus, RunsStatus, Top
<1>7. \A k \in 1..Top : Finished(events[k]) => k = UpdatedAt
  BY <1>4
<1> QED
  BY <1>5, <1>6, <1>7

\* The last entry of a log without holes.
LEMMA LastApplied ==
  ASSUME NEW n \in Nat PROVE Max0(1..n) = n
<1>1. n \in (1..n) \cup {0} /\ \A m \in 1..n : m <= n
  OBVIOUS
<1>2. ASSUME NEW k \in (1..n) \cup {0}, \A m \in 1..n : m <= k PROVE k = n
  BY <1>2
<1> QED
  BY <1>1, <1>2 DEF Max0

\* The page before it is loaded.
LEMMA PageInitInv == PageInit => PageInv
<1> SUFFICES ASSUME PageInit PROVE PageInv
  OBVIOUS
<1> USE PageAssumption
<1>1. PICK s \in PageStatuses : ~Finished(s) /\ events = <<s>>
  BY DEF PageInit
<1>2. Top = 1 /\ DOMAIN events = {1} /\ events[1] = s /\ events \in Seq(PageStatuses \cup {Detail})
  BY <1>1 DEF Top
<1>3. HistoryOK
  BY <1>1, <1>2, StatusFacts DEF HistoryOK, IsLastStatus
<1>4. page.log = 1..0 /\ 1..0 \in {1..n : n \in 0..Top}
  BY <1>2 DEF PageInit
<1>5. PageTypeOK
  <2>1. page \in [status : PageStatuses \cup {Loading}, at : 0..Top,
                  log : {1..n : n \in 0..Top}, refresh : BOOLEAN]
    BY <1>2, <1>4 DEF PageInit
  <2>2. stream \in [phase : StreamPhases, replayOnly : BOOLEAN, taken : 0..Top, sent : 0..Top,
                    checking : BOOLEAN]
    <3>1. stream = [phase |-> "none", replayOnly |-> FALSE, taken |-> 0, sent |-> 0,
                    checking |-> FALSE]
      BY DEF PageInit, Connect
    <3> QED
      BY <1>2, <3>1 DEF StreamPhases
  <2>3. events \in Seq(PageStatuses \cup {Detail}) /\ Top \in 1..(MaxRunEvents + 1)
    BY <1>2 DEF PageAssumption
  <2>4. pageFaults \in 0..MaxPageFaults /\ get = NoGet
    BY DEF PageInit, PageAssumption
  <2> QED
    BY <2>1, <2>2, <2>3, <2>4 DEF PageTypeOK
<1>6. ShowsHistory /\ StreamOK
  BY DEF PageInit, ShowsHistory, StreamOK, Connect, NoGet
<1> QED
  BY <1>3, <1>5, <1>6 DEF PageInv

\* The run goes on.
LEMMA RunStepInv == PageInv /\ (RunMoves \/ RunLogs) => PageInv'
<1> SUFFICES ASSUME PageInv, RunMoves \/ RunLogs PROVE PageInv'
  OBVIOUS
<1> USE PageAssumption
<1>1. /\ events \in Seq(PageStatuses \cup {Detail}) /\ Top \in 1..(MaxRunEvents + 1)
      /\ Top = Len(events) /\ DOMAIN events = 1..Top
  BY DEF PageInv, PageTypeOK, Top
<1>2. /\ IsLastStatus(UpdatedAt, events) /\ UpdatedAt \in 1..Top
      /\ RunsStatus \in PageStatuses
      /\ \A i \in 1..Top : Finished(events[i]) => i = UpdatedAt
  BY RunsStatusIsLast DEF PageInv
<1>3. PICK e \in PageStatuses \cup {Detail} :
        /\ events' = Append(events, e)
        /\ e # Detail => ~Finished(RunsStatus)
        /\ Top < MaxRunEvents
  BY <1>2, StatusFacts DEF RunMoves, RunLogs
<1>4. /\ events' \in Seq(PageStatuses \cup {Detail}) /\ Top' = Top + 1
      /\ DOMAIN events' = 1..(Top + 1)
      /\ \A i \in 1..Top : events'[i] = events[i]
      /\ events'[Top + 1] = e
  BY <1>1, <1>3 DEF Top
<1>5. UNCHANGED <<page, get, stream, pageFaults>>
  BY DEF RunMoves, RunLogs
<1>6. PageTypeOK'
  <2>1. page \in [status : PageStatuses \cup {Loading}, at : 0..Top,
                  log : {1..n : n \in 0..Top}, refresh : BOOLEAN]
    BY DEF PageInv, PageTypeOK
  <2>2. 0..Top \subseteq 0..Top' /\ 1..Top \subseteq 1..Top'
    BY <1>1, <1>4
  <2>3. {1..n : n \in 0..Top} \subseteq {1..n : n \in 0..Top'}
    BY <2>2
  <2>4. page' \in [status : PageStatuses \cup {Loading}, at : 0..Top',
                   log : {1..n : n \in 0..Top'}, refresh : BOOLEAN]
    BY <1>5, <2>1, <2>2, <2>3
  <2>5. \/ get' \in {NoGet, Asked}
        \/ get' \in [kind : {"answer"}, status : PageStatuses, at : 1..Top']
    BY <1>5, <2>2 DEF PageInv, PageTypeOK
  <2>6. stream' \in [phase : StreamPhases, replayOnly : BOOLEAN, taken : 0..Top',
                     sent : 0..Top', checking : BOOLEAN]
    BY <1>5, <2>2 DEF PageInv, PageTypeOK
  <2>7. Top' \in 1..(MaxRunEvents + 1) /\ pageFaults' \in 0..MaxPageFaults
    BY <1>1, <1>3, <1>4, <1>5 DEF PageInv, PageTypeOK, PageAssumption
  <2> QED
    BY <1>4, <2>4, <2>5, <2>6, <2>7 DEF PageTypeOK
<1>7. IsLastStatus(IF e = Detail THEN UpdatedAt ELSE Top + 1, events')
  BY <1>1, <1>2, <1>4 DEF IsLastStatus
<1>8. ASSUME NEW i \in 1..(Top + 1), NEW j \in 1..(Top + 1), Finished(events'[i]), i < j
      PROVE events'[j] = Detail
  <2>1. i \in 1..Top /\ Finished(events[i]) /\ i = UpdatedAt
    BY <1>1, <1>2, <1>4, <1>8
  <2>2. Finished(RunsStatus)
    BY <2>1 DEF RunsStatus
  <2>3. CASE j = Top + 1
    BY <1>3, <1>4, <2>2, <2>3
  <2>4. CASE j \in 1..Top
    BY <1>1, <1>4, <1>8, <2>1, <2>4 DEF PageInv, HistoryOK
  <2> QED
    BY <1>1, <2>3, <2>4
<1>9. HistoryOK'
  BY <1>1, <1>4, <1>7, <1>8 DEF HistoryOK, IsLastStatus
<1>10. UpdatedAt' = IF e = Detail THEN UpdatedAt ELSE Top + 1
  <2> DEFINE k == IF e = Detail THEN UpdatedAt ELSE Top + 1
  <2>1. k = CHOOSE m \in DOMAIN events' :
              events'[m] # Detail /\ \A j \in DOMAIN events' : j > m => events'[j] = Detail
    <3> HIDE DEF k
    <3> QED
      BY <1>4, <1>7, LastStatusIsUnique DEF k
  <2> QED
    BY <2>1 DEF UpdatedAt
<1>11. ShowsHistory'
  BY <1>1, <1>4, <1>5 DEF PageInv, ShowsHistory
<1>12. StreamOK'
  <2>1. CASE e = Detail
    BY <1>2, <1>4, <1>5, <1>10, <2>1 DEF PageInv, StreamOK, RunsStatus
  <2>2. CASE e # Detail
    BY <1>3, <1>5, <2>2 DEF PageInv, StreamOK
  <2> QED
    BY <2>1, <2>2
<1> QED
  BY <1>6, <1>9, <1>11, <1>12 DEF PageInv

\* What an answer, a poll or the browser does leaves the run's history as it is.
LEMMA SameHistory ==
  ASSUME UNCHANGED events, HistoryOK
  PROVE HistoryOK' /\ UpdatedAt' = UpdatedAt /\ RunsStatus' = RunsStatus /\ Top' = Top
BY DEF HistoryOK, UpdatedAt, RunsStatus, Top

\* The GETs of the run.
LEMMA GetStepInv ==
  PageInv /\ (AskRun \/ PollRun \/ ServeRun \/ RunAnswered \/ GetFails \/ InvalidationDue)
    => PageInv'
<1> SUFFICES ASSUME PageInv,
                    AskRun \/ PollRun \/ ServeRun \/ RunAnswered \/ GetFails \/ InvalidationDue
             PROVE PageInv'
  OBVIOUS
<1> USE PageAssumption
<1>1. UNCHANGED <<events, stream>>
  BY DEF AskRun, PollRun, ServeRun, RunAnswered, GetFails, InvalidationDue
<1>2. HistoryOK' /\ UpdatedAt' = UpdatedAt /\ RunsStatus' = RunsStatus /\ Top' = Top
  BY <1>1, SameHistory DEF PageInv
<1>3. /\ UpdatedAt \in 1..Top /\ UpdatedAt \in DOMAIN events /\ RunsStatus \in PageStatuses
      /\ Loading \notin PageStatuses
  BY RunsStatusIsLast, StatusFacts DEF PageInv, IsLastStatus
<1>4. /\ page \in [status : PageStatuses \cup {Loading}, at : 0..Top,
                    log : {1..n : n \in 0..Top}, refresh : BOOLEAN]
      /\ \/ get \in {NoGet, Asked}
         \/ get \in [kind : {"answer"}, status : PageStatuses, at : 1..Top]
      /\ pageFaults \in 0..MaxPageFaults
  BY DEF PageInv, PageTypeOK
<1>5. /\ page'.log = page.log
      /\ \/ page'.status = page.status
         \/ get.kind = "answer" /\ page'.status = get.status
      /\ page' \in [status : PageStatuses \cup {Loading}, at : 0..Top,
                     log : {1..n : n \in 0..Top}, refresh : BOOLEAN]
  <2>1. CASE AskRun \/ PollRun \/ ServeRun \/ GetFails
    BY <1>4, <2>1 DEF AskRun, PollRun, ServeRun, GetFails
  <2>2. CASE RunAnswered
    <3>1. get.status \in PageStatuses /\ get.at \in 0..Top
      BY <1>4, <2>2 DEF RunAnswered, NoGet, Asked
    <3> QED
      BY <1>4, <2>2, <3>1 DEF RunAnswered
  <2>3. CASE InvalidationDue
    BY <1>4, <2>3 DEF InvalidationDue, Refresh
  <2> QED
    BY <2>1, <2>2, <2>3
<1>6. get' \in {NoGet, Asked, get} \/ get' = Answer(RunsStatus, UpdatedAt)
  BY DEF AskRun, PollRun, ServeRun, RunAnswered, GetFails, InvalidationDue, Refresh
<1>7. \/ get' \in {NoGet, Asked}
      \/ get' \in [kind : {"answer"}, status : PageStatuses, at : 1..Top]
  BY <1>3, <1>4, <1>6 DEF Answer
<1>8. pageFaults' \in 0..MaxPageFaults
  BY <1>4 DEF AskRun, PollRun, ServeRun, RunAnswered, GetFails, InvalidationDue, PageFault,
              PageAssumption
<1>9. PageTypeOK'
  BY <1>1, <1>2, <1>5, <1>7, <1>8 DEF PageInv, PageTypeOK
<1>10. ShowsHistory'
  <2>1. page'.status # Loading => \E i \in DOMAIN events : events[i] = page'.status
    BY <1>5 DEF PageInv, ShowsHistory
  <2>2. get'.kind = "answer" => \E i \in DOMAIN events : events[i] = get'.status
    BY <1>3, <1>6 DEF PageInv, ShowsHistory, Answer, NoGet, Asked, RunsStatus
  <2>3. page.status # Loading => page'.status # Loading
    BY <1>3, <1>4, <1>5 DEF NoGet, Asked
  <2> QED
    BY <1>1, <2>1, <2>2, <2>3 DEF PageInv, ShowsHistory
<1>11. StreamOK'
  BY <1>1, <1>2, <1>5 DEF PageInv, StreamOK
<1> QED
  BY <1>2, <1>9, <1>10, <1>11 DEF PageInv

\* The server's end.
LEMMA ServedFacts ==
  ASSUME PageInv, stream.phase \in {"connecting", "open"}, stream' = Served(stream),
         UNCHANGED <<events, page, get, pageFaults>>
  PROVE PageInv'
<1>1. HistoryOK' /\ UpdatedAt' = UpdatedAt /\ RunsStatus' = RunsStatus /\ Top' = Top
  BY SameHistory DEF PageInv
<1>2. /\ UpdatedAt \in 1..Top /\ Top \in Nat
      /\ \A i \in 1..Top : Finished(events[i]) => i = UpdatedAt
  BY RunsStatusIsLast DEF PageInv, PageTypeOK
<1>3. /\ stream \in [phase : StreamPhases, replayOnly : BOOLEAN, taken : 0..Top, sent : 0..Top,
                      checking : BOOLEAN]
      /\ stream.taken <= stream.sent
      /\ stream.replayOnly => Finished(RunsStatus)
  BY DEF PageInv, PageTypeOK, StreamOK
<1>4. EndsAbove(stream.sent) \subseteq {UpdatedAt}
  BY <1>2, <1>3 DEF EndsAbove
<1>5. stream.replayOnly /\ EndsAbove(stream.sent) = {} => UpdatedAt <= stream.sent
  BY <1>2, <1>3 DEF EndsAbove, RunsStatus
<1>6. /\ stream' \in [phase : StreamPhases, replayOnly : BOOLEAN, taken : 0..Top, sent : 0..Top,
                       checking : BOOLEAN]
      /\ stream'.taken = stream.taken /\ stream'.replayOnly = stream.replayOnly
      /\ stream'.phase \in {"open", "closed"}
      /\ stream.sent <= stream'.sent
      /\ stream'.replayOnly => UpdatedAt <= stream'.sent
  <2>1. CASE EndsAbove(stream.sent) # {}
    <3>1. (CHOOSE i \in EndsAbove(stream.sent) : TRUE) = UpdatedAt /\ stream.sent < UpdatedAt
      BY <1>2, <1>3, <1>4, <2>1 DEF EndsAbove
    <3>2. stream' = [stream EXCEPT !.phase = "closed", !.sent = UpdatedAt]
      BY <2>1, <3>1 DEF Served
    <3>3. stream' \in [phase : StreamPhases, replayOnly : BOOLEAN, taken : 0..Top, sent : 0..Top,
                         checking : BOOLEAN]
      <4>1. UpdatedAt \in 0..Top
        BY <1>2
      <4>2. stream \in [phase : StreamPhases, replayOnly : BOOLEAN, taken : 0..Top, sent : 0..Top,
                        checking : BOOLEAN]
        BY <1>3
      <4> QED
        BY <3>2, <4>1, <4>2 DEF StreamPhases
    <3>4. /\ stream'.taken = stream.taken /\ stream'.replayOnly = stream.replayOnly
          /\ stream'.phase = "closed" /\ stream'.sent = UpdatedAt
      BY <1>3, <3>2
    <3> QED
      BY <1>2, <1>3, <3>1, <3>3, <3>4
  <2>2. CASE EndsAbove(stream.sent) = {}
    <3>1. stream' = [stream EXCEPT !.phase = "open", !.sent = Top, !.checking = (Top = stream.sent)]
      BY <2>2 DEF Served
    <3>2. (Top = stream.sent) \in BOOLEAN
      OBVIOUS
    <3>3. stream' \in [phase : StreamPhases, replayOnly : BOOLEAN, taken : 0..Top, sent : 0..Top,
                         checking : BOOLEAN]
      <4>1. Top \in 0..Top
        BY <1>2
      <4>2. stream \in [phase : StreamPhases, replayOnly : BOOLEAN, taken : 0..Top, sent : 0..Top,
                        checking : BOOLEAN]
        BY <1>3
      <4> QED
        BY <3>1, <3>2, <4>1, <4>2 DEF StreamPhases
    <3>4. /\ stream'.taken = stream.taken /\ stream'.replayOnly = stream.replayOnly
          /\ stream'.phase = "open" /\ stream'.sent = Top
      BY <1>3, <3>1
    <3> QED
      BY <1>2, <1>3, <3>3, <3>4
  <2> QED
    BY <2>1, <2>2
<1>7. PageTypeOK'
  BY <1>1, <1>6 DEF PageInv, PageTypeOK
<1>8. ShowsHistory'
  BY <1>6 DEF PageInv, ShowsHistory
<1>9. StreamOK'
  BY <1>1, <1>2, <1>3, <1>6 DEF PageInv, StreamOK
<1> QED
  BY <1>1, <1>7, <1>8, <1>9 DEF PageInv

\* The requests and polls.
LEMMA ServerStepInv == PageInv /\ (OpenStream \/ PollEvents \/ CheckRun) => PageInv'
<1> SUFFICES ASSUME PageInv, OpenStream \/ PollEvents \/ CheckRun PROVE PageInv'
  OBVIOUS
<1>1. CASE OpenStream \/ PollEvents
  BY <1>1, ServedFacts DEF OpenStream, PollEvents
<1>2. CASE CheckRun
  <2>1. HistoryOK' /\ UpdatedAt' = UpdatedAt /\ RunsStatus' = RunsStatus /\ Top' = Top
    BY <1>2, SameHistory DEF PageInv, CheckRun
  <2>2. stream \in [phase : StreamPhases, replayOnly : BOOLEAN, taken : 0..Top, sent : 0..Top,
                    checking : BOOLEAN]
    BY DEF PageInv, PageTypeOK
  <2>3. \E phase \in {"open", "closed"} :
          stream' = [stream EXCEPT !.checking = FALSE, !.phase = phase]
    BY <1>2 DEF CheckRun
  <2>4. stream' \in [phase : StreamPhases, replayOnly : BOOLEAN, taken : 0..Top, sent : 0..Top,
                     checking : BOOLEAN]
    BY <2>2, <2>3 DEF StreamPhases
  <2>5. /\ stream'.taken = stream.taken /\ stream'.replayOnly = stream.replayOnly
        /\ stream'.phase \in {"open", "closed"} /\ stream'.sent = stream.sent
        /\ stream.phase = "open"
    BY <1>2, <2>2, <2>3 DEF CheckRun
  <2>6. PageTypeOK'
    BY <1>2, <2>1, <2>4 DEF PageInv, PageTypeOK, CheckRun
  <2>7. ShowsHistory' /\ StreamOK'
    BY <1>2, <2>1, <2>5 DEF PageInv, ShowsHistory, StreamOK, CheckRun
  <2> QED
    BY <2>1, <2>6, <2>7 DEF PageInv
<1> QED
  BY <1>1, <1>2

\* A terminal status is on the page only if it is the run's.
LEMMA FinishedIsTrue ==
  ASSUME PageInv, Finished(page.status)
  PROVE page.status = RunsStatus
<1>1. page.status # Loading
  BY StatusFacts
<1>2. PICK i \in DOMAIN events : events[i] = page.status
  BY <1>1 DEF PageInv, ShowsHistory
<1>3. i = UpdatedAt
  BY <1>2, RunsStatusIsLast DEF PageInv, PageTypeOK, Top
<1> QED
  BY <1>2, <1>3 DEF RunsStatus

\* The effect that subscribes.
LEMMA SubscribeStepInv == PageInv /\ SubscribePage => PageInv'
<1> SUFFICES ASSUME PageInv, SubscribePage PROVE PageInv'
  OBVIOUS
<1>1. HistoryOK' /\ UpdatedAt' = UpdatedAt /\ RunsStatus' = RunsStatus /\ Top' = Top
  BY SameHistory DEF PageInv, SubscribePage
<1>2. /\ page \in [status : PageStatuses \cup {Loading}, at : 0..Top,
                    log : {1..n : n \in 0..Top}, refresh : BOOLEAN]
      /\ Top \in Nat
  BY DEF PageInv, PageTypeOK
<1>3. /\ page' \in [status : PageStatuses \cup {Loading}, at : 0..Top,
                     log : {1..n : n \in 0..Top}, refresh : BOOLEAN]
      /\ page'.status = page.status /\ page'.log = page.log
      /\ get' \in {get, Asked}
  BY <1>2 DEF SubscribePage, Refresh
<1>4. stream' = [phase |-> "connecting", replayOnly |-> Finished(page.status), taken |-> 0,
                 sent |-> 0, checking |-> FALSE]
  BY DEF SubscribePage, Connect
<1>5. Finished(page.status) \in BOOLEAN
  BY DEF Finished
<1>6. stream' \in [phase : StreamPhases, replayOnly : BOOLEAN, taken : 0..Top, sent : 0..Top,
                   checking : BOOLEAN]
  BY <1>2, <1>4, <1>5 DEF StreamPhases
<1>7. PageTypeOK'
  BY <1>1, <1>3, <1>6 DEF PageInv, PageTypeOK, SubscribePage
<1>8. ShowsHistory'
  BY <1>3 DEF PageInv, ShowsHistory, SubscribePage, Asked
<1>9. StreamOK'
  <2>1. 1..0 = {}
    OBVIOUS
  <2>2. stream'.replayOnly => Finished(RunsStatus)
    BY <1>4, FinishedIsTrue
  <2> QED
    BY <1>1, <1>4, <2>1, <2>2 DEF StreamOK
<1> QED
  BY <1>1, <1>7, <1>8, <1>9 DEF PageInv

\* The reducer shows what the run has been.
LEMMA ReducedFacts ==
  ASSUME PageInv, page.status # Loading, NEW e \in 1..Top
  PROVE /\ Reduced(page, e) \in [status : PageStatuses, at : 0..Top,
                                log : {1..n : n \in 0..Top}, refresh : BOOLEAN]
        /\ Reduced(page, e).log = page.log
        /\ \E i \in DOMAIN events : events[i] = Reduced(page, e).status
<1>1. /\ page \in [status : PageStatuses \cup {Loading}, at : 0..Top,
                    log : {1..n : n \in 0..Top}, refresh : BOOLEAN]
      /\ Top \in Nat /\ events \in Seq(PageStatuses \cup {Detail}) /\ Top = Len(events)
      /\ \E i \in DOMAIN events : events[i] = page.status
  BY DEF PageInv, PageTypeOK, ShowsHistory, Top
<1>2. page \in [status : PageStatuses, at : 0..Top,
                log : {1..n : n \in 0..Top}, refresh : BOOLEAN]
  BY <1>1
<1>3. CASE Reduced(page, e) = page
  BY <1>1, <1>2, <1>3
<1>4. CASE events[e] # Detail /\ Reduced(page, e) = [page EXCEPT !.status = events[e], !.at = e]
  <2>1. events[e] \in PageStatuses /\ e \in DOMAIN events /\ e \in 0..Top
    BY <1>1, <1>4
  <2> QED
    BY <1>2, <1>4, <2>1
<1> QED
  BY <1>3, <1>4 DEF Reduced

\* Events that arrive.
LEMMA EventStepInv == PageInv /\ (AppEventPatches \/ TakeEvent) => PageInv'
<1> SUFFICES ASSUME PageInv, AppEventPatches \/ TakeEvent PROVE PageInv'
  OBVIOUS
<1>1. HistoryOK' /\ UpdatedAt' = UpdatedAt /\ RunsStatus' = RunsStatus /\ Top' = Top
  BY SameHistory DEF PageInv, AppEventPatches, TakeEvent
<1>2. /\ Top \in Nat /\ DOMAIN events = 1..Top
      /\ page.log \in {1..n : n \in 0..Top} /\ page.refresh \in BOOLEAN
      /\ stream \in [phase : StreamPhases, replayOnly : BOOLEAN, taken : 0..Top, sent : 0..Top,
                      checking : BOOLEAN]
      /\ page \in [status : PageStatuses \cup {Loading}, at : 0..Top,
                    log : {1..n : n \in 0..Top}, refresh : BOOLEAN]
  BY DEF PageInv, PageTypeOK, Top
<1>3. CASE AppEventPatches
  <2>1. PICK e \in 1..Top : page' = Reduced(page, e)
    BY <1>2, <1>3 DEF AppEventPatches
  <2>2. PageTypeOK'
    BY <1>1, <1>3, <2>1, ReducedFacts DEF PageInv, PageTypeOK, AppEventPatches
  <2>3. page'.status # Loading
    BY <1>3, <2>1, ReducedFacts, StatusFacts DEF AppEventPatches
  <2>4. ShowsHistory' /\ StreamOK'
    BY <1>1, <1>3, <2>1, <2>3, ReducedFacts DEF PageInv, ShowsHistory, StreamOK, AppEventPatches
  <2> QED
    BY <1>1, <2>2, <2>4 DEF PageInv
<1>4. CASE TakeEvent
  <2> DEFINE e == stream.taken + 1
  <2>1. /\ e \in 1..Top /\ page.status # Loading /\ stream.phase \in {"open", "closed"}
        /\ e <= stream.sent /\ stream' = [stream EXCEPT !.taken = e]
    BY <1>2, <1>4 DEF PageInv, ShowsHistory, TakeEvent
  <2>2. stream' \in [phase : StreamPhases, replayOnly : BOOLEAN, taken : 0..Top, sent : 0..Top,
                     checking : BOOLEAN]
    BY <1>2, <2>1
  <2>3. PICK n \in 0..Top : page.log = 1..n
    BY <1>2
  <2>4. stream.taken <= n
    BY <1>2, <2>3 DEF PageInv, StreamOK
  <2>5. /\ page' \in [status : PageStatuses, at : 0..Top,
                       log : {1..k : k \in 0..Top}, refresh : BOOLEAN]
        /\ 1..e \subseteq page'.log
        /\ \E i \in DOMAIN events : events[i] = page'.status
    <3>1. CASE e \in page.log
      <4>1. page' = page
        BY <1>4, <3>1 DEF TakeEvent, AppliedEvent
      <4>2. 1..e \subseteq page.log
        BY <1>2, <2>3, <3>1
      <4> QED
        BY <1>2, <2>1, <4>1, <4>2 DEF PageInv, ShowsHistory
    <3>2. CASE e \notin page.log
      <4> DEFINE r == Reduced(page, e)
      <4>1. page' = [r EXCEPT !.log = @ \cup {e}, !.refresh = @ \/ events[e] # Detail]
        BY <1>4, <3>2 DEF TakeEvent, AppliedEvent
      <4>2. /\ r \in [status : PageStatuses, at : 0..Top,
                       log : {1..k : k \in 0..Top}, refresh : BOOLEAN]
            /\ r.log = 1..n
            /\ \E i \in DOMAIN events : events[i] = r.status
        BY <2>1, <2>3, ReducedFacts
      <4> HIDE DEF r
      <4>3. e = n + 1 /\ (1..n) \cup {e} = 1..e /\ 1..e \in {1..k : k \in 0..Top}
        BY <1>2, <2>1, <2>3, <2>4, <3>2
      <4>4. (r.refresh \/ events[e] # Detail) \in BOOLEAN
        BY <4>2
      <4>5. page' = [r EXCEPT !.log = 1..e, !.refresh = (r.refresh \/ events[e] # Detail)]
        BY <4>1, <4>2, <4>3
      <4> QED
        BY <4>2, <4>3, <4>4, <4>5
    <3> QED
      BY <3>1, <3>2
  <2>6. page'.status # Loading
    BY <2>5, StatusFacts
  <2>7. PageTypeOK'
    BY <1>1, <1>4, <2>2, <2>5 DEF PageInv, PageTypeOK, TakeEvent
  <2>8. ShowsHistory'
    BY <1>4, <2>5, <2>6 DEF PageInv, ShowsHistory, TakeEvent
  <2>9. /\ stream'.taken = e /\ stream'.sent = stream.sent /\ stream'.phase = stream.phase
        /\ stream'.replayOnly = stream.replayOnly
    BY <1>2, <2>1
  <2>10. StreamOK'
    BY <1>1, <2>1, <2>5, <2>9 DEF PageInv, StreamOK
  <2> QED
    BY <1>1, <2>7, <2>8, <2>10 DEF PageInv
<1> QED
  BY <1>3, <1>4

\* A stream that ends or fails.
LEMMA ErrorStepInv == PageInv /\ (EndSeen \/ StreamFails \/ StreamGoesDeaf) => PageInv'
<1> SUFFICES ASSUME PageInv, EndSeen \/ StreamFails \/ StreamGoesDeaf PROVE PageInv'
  OBVIOUS
<1> USE PageAssumption
<1>1. HistoryOK' /\ UpdatedAt' = UpdatedAt /\ RunsStatus' = RunsStatus /\ Top' = Top
  BY SameHistory DEF PageInv, EndSeen, StreamFails, StreamGoesDeaf
<1>2. /\ Top \in Nat
      /\ stream \in [phase : StreamPhases, replayOnly : BOOLEAN, taken : 0..Top, sent : 0..Top,
                      checking : BOOLEAN]
      /\ page \in [status : PageStatuses \cup {Loading}, at : 0..Top,
                    log : {1..n : n \in 0..Top}, refresh : BOOLEAN]
      /\ pageFaults \in 0..MaxPageFaults
  BY DEF PageInv, PageTypeOK
<1>3. pageFaults' \in 0..MaxPageFaults /\ events' = events
  <2>1. pageFaults' = pageFaults \/ PageFault
    BY DEF EndSeen, StreamFails, StreamGoesDeaf
  <2>2. pageFaults \in 0..MaxPageFaults /\ MaxPageFaults \in Nat
    BY <1>2 DEF PageAssumption
  <2>3. pageFaults' \in 0..MaxPageFaults
    BY <2>1, <2>2 DEF PageFault
  <2>4. events' = events
    BY DEF EndSeen, StreamFails, StreamGoesDeaf
  <2> QED
    BY <2>3, <2>4
<1>4. PICK n \in 0..Top : page.log = 1..n
  BY <1>2
<1>5. /\ page' \in [status : PageStatuses \cup {Loading}, at : 0..Top,
                     log : {1..k : k \in 0..Top}, refresh : BOOLEAN]
      /\ page'.status = page.status /\ page'.log = page.log
      /\ get' \in {get, Asked}
  BY <1>2 DEF EndSeen, StreamFails, StreamGoesDeaf, Errs, Refresh
<1>6. stream.phase # "none"
  BY DEF EndSeen, StreamFails, StreamGoesDeaf
<1>7. \/ \E phase \in {"stopped", "cut", "deaf"} :
           /\ stream' = [stream EXCEPT !.phase = phase, !.checking = FALSE]
           /\ phase = "stopped" => stream.phase = "closed" /\ stream.taken = stream.sent
      \/ \E cursor \in {n, stream.taken} : ~stream.replayOnly /\ stream' = Connect(FALSE, cursor)
  <2>1. CASE EndSeen
    BY <2>1 DEF EndSeen, Errs
  <2>2. CASE StreamFails
    <3>1. Max0(page.log) = n
      BY <1>4, LastApplied
    <3> QED
      BY <2>2, <3>1 DEF StreamFails, Errs
  <2>3. CASE StreamGoesDeaf
    BY <2>3 DEF StreamGoesDeaf
  <2> QED
    BY <2>1, <2>2, <2>3
<1>8. /\ stream' \in [phase : StreamPhases, replayOnly : BOOLEAN, taken : 0..Top, sent : 0..Top,
                       checking : BOOLEAN]
      /\ StreamOK'
      /\ stream'.phase # "none"
  <2>1. CASE \E phase \in {"stopped", "cut", "deaf"} :
               /\ stream' = [stream EXCEPT !.phase = phase, !.checking = FALSE]
               /\ phase = "stopped" => stream.phase = "closed" /\ stream.taken = stream.sent
    <3>1. PICK phase \in {"stopped", "cut", "deaf"} :
            /\ stream' = [stream EXCEPT !.phase = phase, !.checking = FALSE]
            /\ phase = "stopped" => stream.phase = "closed" /\ stream.taken = stream.sent
      BY <2>1
    <3>2. stream' \in [phase : StreamPhases, replayOnly : BOOLEAN, taken : 0..Top, sent : 0..Top,
                       checking : BOOLEAN]
      BY <1>2, <3>1 DEF StreamPhases
    <3>3. /\ stream'.phase = phase /\ stream'.replayOnly = stream.replayOnly
          /\ stream'.taken = stream.taken /\ stream'.sent = stream.sent
      BY <1>2, <3>1
    <3> QED
      BY <1>1, <1>5, <3>1, <3>2, <3>3 DEF PageInv, StreamOK
  <2>2. CASE \E cursor \in {n, stream.taken} :
               ~stream.replayOnly /\ stream' = Connect(FALSE, cursor)
    <3>1. PICK cursor \in {n, stream.taken} : stream' = Connect(FALSE, cursor)
      BY <2>2
    <3>2. cursor \in 0..Top /\ 1..cursor \subseteq page.log
      BY <1>2, <1>4 DEF PageInv, StreamOK
    <3> QED
      BY <1>1, <1>2, <1>5, <3>1, <3>2 DEF Connect, StreamPhases, StreamOK
  <2> QED
    BY <1>7, <2>1, <2>2
<1>9. PageTypeOK'
  BY <1>1, <1>3, <1>5, <1>8 DEF PageInv, PageTypeOK, EndSeen, StreamFails, StreamGoesDeaf
<1>10. ShowsHistory'
  BY <1>3, <1>5, <1>6 DEF PageInv, ShowsHistory, Asked
<1> QED
  BY <1>1, <1>8, <1>9, <1>10 DEF PageInv

\* One step of the page, of its stream or of its run.
LEMMA PageStepInv == PageInv /\ [PageNext]_pageVars => PageInv'
<1> SUFFICES ASSUME PageInv, [PageNext]_pageVars PROVE PageInv'
  OBVIOUS
<1>1. CASE UNCHANGED pageVars
  <2>1. HistoryOK' /\ UpdatedAt' = UpdatedAt /\ RunsStatus' = RunsStatus /\ Top' = Top
    BY <1>1, SameHistory DEF PageInv, pageVars
  <2> QED
    BY <1>1, <2>1 DEF PageInv, PageTypeOK, ShowsHistory, StreamOK, pageVars
<1>2. CASE PageNext
  BY <1>2, RunStepInv, GetStepInv, ServerStepInv, SubscribeStepInv, EventStepInv, ErrorStepInv
     DEF PageNext
<1> QED
  BY <1>1, <1>2

\* PageInv is an invariant.
LEMMA PageInvHolds == PageSpec => []PageInv
BY PageInitInv, PageStepInv, PTL DEF PageSpec

\* RunPage's types: the log of a page is a prefix of the run's events at all times,
\* across every reconnection and replay.
THEOREM PageTypes == PageSpec => []PageTypeOK
BY PageInvHolds, PTL DEF PageInv

\* A page at rest shows how its run ended, with the whole log up to that end unless its
\* replay-only stream failed, for every run, every status set and any number of faults
\* (run-state.ts, runs-controller.ts).
THEOREM PageRestsAtTheEnd == PageSpec => []RestsAtTheEnd
<1>1. PageInv => RestsAtTheEnd
  <2> SUFFICES ASSUME PageInv, AtRest
               PROVE /\ Finished(RunsStatus)
                     /\ page.status = RunsStatus
                     /\ 1..UpdatedAt \subseteq page.log \/ stream.phase # "stopped"
    BY DEF RestsAtTheEnd
  <2>1. Finished(page.status) /\ stream.replayOnly
    BY DEF AtRest, Polls, Finished
  <2>2. page.status = RunsStatus
    BY <2>1, FinishedIsTrue
  <2>3. ASSUME stream.phase = "stopped" PROVE 1..UpdatedAt \subseteq page.log
    <3>1. UpdatedAt <= stream.taken /\ stream.taken \in Nat /\ UpdatedAt \in Nat
      BY <2>1, <2>3, RunsStatusIsLast DEF PageInv, StreamOK, PageTypeOK
    <3>2. 1..UpdatedAt \subseteq 1..stream.taken
      BY <3>1
    <3> QED
      BY <3>2 DEF PageInv, StreamOK
  <2> QED
    BY <2>1, <2>2, <2>3
<1> QED
  BY <1>1, PageInvHolds, PTL

-----------------------------------------------------------------------------
(***************************************************************************)
(* All of them, side by side.                                              *)
(***************************************************************************)
\* The stream's bounds: events and faults are counted, and the hub has finitely many
\* subscribers, as each joined in a step of its own.
FeedBounds ==
  /\ top <= MaxEvents
  /\ faults \in 0..MaxStreamFaults
  /\ IsFiniteSet(hub.subs)

LEMMA FeedInitBounds == FeedInit => FeedBounds
BY StreamAssumption, FS_EmptySet DEF FeedInit, FeedBounds

\* A fault that drops some of the subscribers is counted once for each.
LEMMA FaultCounted ==
  ASSUME NEW n \in Nat, Fault(n), faults \in 0..MaxStreamFaults
  PROVE  faults' \in 0..MaxStreamFaults
BY StreamAssumption DEF Fault

LEMMA FeedStepBounds == FeedInv /\ FeedBounds /\ [FeedNext]_feedVars => FeedBounds'
<1> SUFFICES ASSUME FeedInv, FeedBounds, [FeedNext]_feedVars PROVE FeedBounds'
  OBVIOUS
<1>0. /\ top \in Nat /\ MaxEvents \in Nat /\ top <= MaxEvents
      /\ faults \in 0..MaxStreamFaults /\ IsFiniteSet(hub.subs)
      /\ hub \in [head : 0..top, polling : BOOLEAN, subs : SUBSET Tabs, ghosts : Nat]
  BY StreamAssumption DEF FeedInv, FeedShape, FeedBounds
<1>1. ASSUME NEW carried \in BOOLEAN, AppendEvent(carried) PROVE FeedBounds'
  BY <1>0, <1>1 DEF AppendEvent, FeedBounds
<1>2. CASE CatchUpPage
  <2>1. hub'.subs \in {hub.subs, hub.subs \cup {loop.tab}} /\ UNCHANGED <<top, faults>>
    BY <1>0, <1>2 DEF CatchUpPage, Joined
  <2>2. IsFiniteSet(hub.subs \cup {loop.tab})
    BY <1>0, FS_AddElement
  <2> QED
    BY <1>0, <2>1, <2>2 DEF FeedBounds
<1>3. CASE TickPage
  <2>1. PICK P \in SUBSET app, failing \in SUBSET hub.subs :
          /\ Fault(Cardinality(failing))
          /\ hub'.subs \in {hub.subs, hub.subs \ failing}
          /\ top' = top
    <3>1. PICK P \in SUBSET app, failing \in SUBSET hub.subs :
            /\ Fault(Cardinality(failing))
            /\ IF P = {} THEN hub' = hub
               ELSE \E last \in P :
                      hub' = StopIfLast([hub EXCEPT !.head = last, !.subs = @ \ failing])
      BY <1>3 DEF TickPage
    <3>2. hub'.subs \in {hub.subs, hub.subs \ failing}
      BY <1>0, <3>1 DEF StopIfLast
    <3> QED
      BY <1>3, <3>1, <3>2 DEF TickPage
  <2>2. /\ IsFiniteSet(failing) /\ Cardinality(failing) \in Nat
        /\ IsFiniteSet(hub.subs \ failing)
    BY <1>0, FS_Subset, FS_CardinalityType, FS_Difference
  <2>3. faults' \in 0..MaxStreamFaults
    BY <1>0, <2>1, <2>2, FaultCounted
  <2> QED
    BY <1>0, <2>1, <2>2, <2>3 DEF FeedBounds
<1>4. CASE CatchUpFails \/ TickFails \/ ServerRestart
  <2>1. Fault(1) /\ top' = top
    BY <1>4 DEF CatchUpFails, TickFails, ServerRestart
  <2>2. hub'.subs \in {hub.subs, {}}
    <3>1. CASE CatchUpFails
      BY <3>1 DEF CatchUpFails
    <3>2. CASE TickFails
      <4>1. hub' = [hub EXCEPT !.subs = {}, !.ghosts = 0, !.polling = FALSE]
        BY <3>2 DEF TickFails
      <4> QED
        BY <1>0, <4>1
    <3>3. CASE ServerRestart
      BY <3>3 DEF ServerRestart
    <3> QED
      BY <1>4, <3>1, <3>2, <3>3
  <2>3. faults' \in 0..MaxStreamFaults
    BY <1>0, <2>1, FaultCounted
  <2> QED
    BY <1>0, <2>1, <2>2, <2>3, FS_EmptySet DEF FeedBounds
<1>5. CASE Cancelled
  <2>1. hub'.subs = hub.subs /\ UNCHANGED <<top, faults>>
    BY <1>0, <1>5 DEF Cancelled, StopIfLast
  <2> QED
    BY <1>0, <2>1 DEF FeedBounds
<1>6. ASSUME NEW t \in Tabs, Drop(t) PROVE FeedBounds'
  <2>1. Fault(1) /\ top' = top
    BY <1>6 DEF Drop
  <2>2. hub'.subs \in {hub.subs, hub.subs \ {t}}
    BY <1>0, <1>6 DEF Drop
  <2>3. faults' \in 0..MaxStreamFaults
    BY <1>0, <2>1, FaultCounted
  <2>4. IsFiniteSet(hub.subs \ {t})
    BY <1>0, FS_Difference
  <2> QED
    BY <1>0, <2>1, <2>2, <2>3, <2>4 DEF FeedBounds
<1>7. ASSUME NEW t \in Tabs, LoadSnapshot(t) \/ Subscribe(t) \/ Receive(t) \/ StreamEnds(t)
      PROVE FeedBounds'
  BY <1>0, <1>7 DEF LoadSnapshot, Subscribe, Receive, StreamEnds, FeedBounds
<1>8. CASE UNCHANGED feedVars
  BY <1>0, <1>8 DEF feedVars, FeedBounds
<1> QED
  BY <1>1, <1>2, <1>3, <1>4, <1>5, <1>6, <1>7, <1>8 DEF FeedNext

\* The stream's types, for any number of tabs: no cursor, page or subscription ever
\* names an event that was not appended.
THEOREM FeedTypes == FeedSpec => []FeedTypeOK
<1>1. FeedInv /\ FeedBounds => FeedTypeOK
  BY StreamAssumption DEF FeedInv, FeedShape, TabType, FeedBounds, FeedTypeOK
<1>2. FeedSpec => []FeedBounds
  BY FeedInvariant, FeedInitBounds, FeedStepBounds, PTL DEF FeedSpec
<1> QED
  BY <1>1, <1>2, FeedInvariant, PTL

\* What the lane's invariant does not say of the gateway's counters.
GateCounts == aborted \subseteq Callers /\ waits \in [Callers -> 0..MaxWaits]

LEMMA GateStepCounts == GateCounts /\ [GateNext]_gateVars => GateCounts'
BY GatewayAssumption
   DEF GateCounts, GateNext, gateVars, NewDay, CheckBudget, Acquire, Send, Iterate, CallEnds,
       RateLimited, WakeUp, AbortRun, NextRun, Release

\* The gateway's types.
THEOREM GateTypes == GateSpec => []GateTypeOK
<1>1. GateInit => GateCounts
  BY GatewayAssumption DEF GateInit, GateCounts
<1>2. GateSpec => []GateCounts
  BY <1>1, GateStepCounts, PTL DEF GateSpec
<1>3. BudgetInv /\ GateCounts => GateTypeOK
  BY DEF BudgetInv, LaneInv, LaneTypeOK, GateCounts, GateTypeOK
<1>4. GateSpec => []BudgetInv
  BY BudgetInit, BudgetStep, PTL DEF GateSpec
<1> QED
  BY <1>2, <1>3, <1>4, PTL

\* An outcome is inserted only if the host answered one.
CheckInv ==
  /\ CheckTypeOK
  /\ \A p \in Checkers, l \in Loops : check[p][l].at = "insert" => check[p][l].answer \in Ended

CheckEntry == [at : CheckPlaces, answer : {"none", "open"} \cup Ended]

\* One loop's check goes to a place, with an answer.
LEMMA CheckGoes ==
  ASSUME CheckInv, NEW p \in Checkers, NEW l \in Loops, NEW at1 \in CheckPlaces,
         NEW answer1 \in {"none", "open"} \cup Ended, Goes(p, l, at1, answer1),
         at1 = "insert" => answer1 \in Ended
  PROVE  /\ check' \in [Checkers -> [Loops -> CheckEntry]]
         /\ \A q \in Checkers, m \in Loops :
              check'[q][m].at = "insert" => check'[q][m].answer \in Ended
<1>1. check \in [Checkers -> [Loops -> CheckEntry]]
  BY DEF CheckInv, CheckTypeOK, CheckEntry
<1>2. [at |-> at1, answer |-> answer1] \in CheckEntry
  BY DEF CheckEntry
<1>3. check' = [check EXCEPT ![p] = [check[p] EXCEPT ![l] = [at |-> at1, answer |-> answer1]]]
  BY <1>1 DEF Goes
<1>4. check' \in [Checkers -> [Loops -> CheckEntry]]
  BY <1>1, <1>2, <1>3
<1>5. \A q \in Checkers, m \in Loops :
        check'[q][m] = IF q = p /\ m = l THEN [at |-> at1, answer |-> answer1] ELSE check[q][m]
  BY <1>1, <1>3
<1> QED
  BY <1>4, <1>5 DEF CheckInv

LEMMA CheckEnds ==
  ASSUME CheckInv, NEW p \in Checkers, NEW l \in Loops, EndCheck(p, l)
  PROVE  /\ check' \in [Checkers -> [Loops -> CheckEntry]]
         /\ \A q \in Checkers, m \in Loops :
              check'[q][m].at = "insert" => check'[q][m].answer \in Ended
         /\ request' \in BOOLEAN
BY CheckGoes DEF EndCheck, CheckPlaces, CheckInv, CheckTypeOK

LEMMA CheckInitInv == CheckInit => CheckInv
<1> SUFFICES ASSUME CheckInit PROVE CheckInv
  OBVIOUS
<1>1. /\ check \in [Checkers -> [Loops -> CheckEntry]]
      /\ \A p \in Checkers, l \in Loops : check[p][l].at = "none"
  BY DEF CheckInit, CheckEntry, Nothing, CheckPlaces
<1>2. mishaps \in 0..MaxMishaps /\ reopenings \in 0..MaxReopenings
  BY CheckAssumption DEF CheckInit
<1>3. due \in [Checkers -> {"now", "later"}]
  BY DEF CheckInit
<1>4. CheckTypeOK
  BY <1>1, <1>2, <1>3 DEF CheckInit, CheckTypeOK, CheckEntry
<1> QED
  BY <1>1, <1>4 DEF CheckInv

\* What every step but a loop's own does to the checks: nothing, or it forgets some.
LEMMA CheckWorldStep ==
  ASSUME CheckInv,
         \/ \E to \in {"open"} \cup Ended : HostChanges(to)
         \/ Expires \/ ProjectGone \/ Request
         \/ \E p \in Checkers : Elapses(p) \/ Restart(p)
         \/ UNCHANGED prVars
  PROVE  CheckInv'
<1>0. CheckTypeOK
  BY DEF CheckInv
<1>1. ASSUME check' = check, CheckTypeOK' PROVE CheckInv'
  BY <1>1 DEF CheckInv
<1>2. ASSUME NEW to \in {"open"} \cup Ended, HostChanges(to) PROVE CheckInv'
  <2>1. CheckTypeOK' /\ check' = check
    BY <1>0, <1>2, CheckAssumption DEF HostChanges, memory, CheckTypeOK
  <2> QED
    BY <1>1, <2>1
<1>3. CASE Expires \/ ProjectGone \/ Request
  <2>1. /\ UNCHANGED <<recorded, memory, check, pr, reopenings>>
        /\ expired' \in BOOLEAN /\ request' \in BOOLEAN /\ project' \in BOOLEAN
    BY <1>0, <1>3 DEF Expires, ProjectGone, Request, world, CheckTypeOK
  <2>2. mishaps' \in 0..MaxMishaps
    BY <1>0, <1>3, CheckAssumption DEF Expires, ProjectGone, Request, Mishap, CheckTypeOK
  <2>3. CheckTypeOK' /\ check' = check
    BY <1>0, <2>1, <2>2 DEF memory, CheckTypeOK
  <2> QED
    BY <1>1, <2>3
<1>4. ASSUME NEW p \in Checkers, Elapses(p) PROVE CheckInv'
  <2>1. CheckTypeOK' /\ check' = check
    BY <1>0, <1>4 DEF Elapses, world, CheckTypeOK
  <2> QED
    BY <1>1, <2>1
<1>5. ASSUME NEW p \in Checkers, Restart(p) PROVE CheckInv'
  <2>1. check' = [check EXCEPT ![p] = [l \in Loops |-> Nothing]]
    BY <1>5 DEF Restart
  <2>2. check \in [Checkers -> [Loops -> CheckEntry]] /\ [l \in Loops |-> Nothing] \in [Loops -> CheckEntry]
    BY <1>0 DEF CheckTypeOK, CheckEntry, Nothing, CheckPlaces
  <2>3. /\ check' \in [Checkers -> [Loops -> CheckEntry]]
        /\ \A q \in Checkers : q # p => check'[q] = check[q]
        /\ \A l \in Loops : check'[p][l].at = "none"
    BY <2>1, <2>2 DEF Nothing
  <2>4. CheckTypeOK'
    BY <1>0, <1>5, <2>3, CheckAssumption DEF Restart, Mishap, world, CheckTypeOK, CheckEntry
  <2>5. ASSUME NEW q \in Checkers, NEW m \in Loops, check'[q][m].at = "insert"
        PROVE  check'[q][m].answer \in Ended
    BY <2>3, <2>5 DEF CheckInv
  <2> QED
    BY <2>4, <2>5 DEF CheckInv
<1>6. CASE UNCHANGED prVars
  <2>1. CheckTypeOK' /\ check' = check
    BY <1>0, <1>6 DEF prVars, CheckTypeOK
  <2> QED
    BY <1>1, <2>1
<1> QED
  BY <1>2, <1>3, <1>4, <1>5, <1>6

LEMMA CheckLoopStep ==
  ASSUME CheckInv, NEW p \in Checkers, NEW l \in Loops,
         BeginCheck(p, l) \/ Resolve(p, l) \/ Ask(p, l) \/ CheckFails(p, l) \/ TakeAnswer(p, l)
           \/ Insert(p, l)
  PROVE  CheckInv'
<1>0. CheckTypeOK /\ check[p][l] \in CheckEntry
  BY DEF CheckInv, CheckTypeOK, CheckEntry
<1> DEFINE Rest == /\ pr' \in {"none", "open"} \cup Ended
                   /\ recorded' \subseteq Ended
                   /\ expired' \in BOOLEAN /\ project' \in BOOLEAN
                   /\ unresolvable' \subseteq Checkers
                   /\ due' \in [Checkers -> {"now", "later"}]
                   /\ mishaps' \in 0..MaxMishaps
                   /\ reopenings' \in 0..MaxReopenings
           Moved == /\ check' \in [Checkers -> [Loops -> CheckEntry]]
                    /\ \A q \in Checkers, m \in Loops :
                         check'[q][m].at = "insert" => check'[q][m].answer \in Ended
                    /\ request' \in BOOLEAN
<1>1. Rest /\ Moved => CheckInv'
  BY DEF CheckInv, CheckTypeOK, CheckEntry
<1>2. EndCheck(p, l) => Moved
  BY CheckEnds
<1>3. ASSUME NEW at1 \in CheckPlaces \ {"insert"}, NEW answer1 \in {"none", "open"} \cup Ended,
             Goes(p, l, at1, answer1), request' = request
      PROVE  Moved
  BY <1>0, <1>3, CheckGoes DEF CheckTypeOK
<1>4. CASE BeginCheck(p, l)
  <2>1. Moved
    BY <1>2, <1>3, <1>4 DEF BeginCheck, CheckPlaces
  <2>2. Rest
    BY <1>0, <1>4 DEF BeginCheck, world, memory, CheckTypeOK
  <2> QED
    BY <1>1, <2>1, <2>2
<1>5. CASE Resolve(p, l)
  <2>1. Moved
    BY <1>2, <1>3, <1>5 DEF Resolve, CheckPlaces
  <2>2. Rest
    BY <1>0, <1>5 DEF Resolve, world, CheckTypeOK
  <2> QED
    BY <1>1, <2>1, <2>2
<1>6. CASE Ask(p, l)
  <2>1. Moved
    BY <1>0, <1>3, <1>6 DEF Ask, CheckPlaces, CheckTypeOK
  <2>2. Rest
    BY <1>0, <1>6 DEF Ask, world, memory, CheckTypeOK
  <2> QED
    BY <1>1, <2>1, <2>2
<1>7. CASE CheckFails(p, l)
  <2>1. Rest
    BY <1>0, <1>7, CheckAssumption DEF CheckFails, Mishap, world, CheckTypeOK
  <2> QED
    BY <1>1, <1>2, <1>7, <2>1 DEF CheckFails
<1>8. CASE TakeAnswer(p, l)
  <2>1. Rest
    BY <1>0, <1>8 DEF TakeAnswer, world, CheckTypeOK
  <2>2. ASSUME Goes(p, l, "insert", check[p][l].answer), IsOutcome(check[p][l].answer),
               request' = request
        PROVE  Moved
    BY <1>0, <2>2, CheckGoes DEF IsOutcome, CheckPlaces, CheckTypeOK
  <2> QED
    BY <1>1, <1>2, <1>8, <2>1, <2>2 DEF TakeAnswer
<1>9. CASE Insert(p, l)
  <2>1. check[p][l].answer \in Ended
    BY <1>9 DEF Insert, CheckInv
  <2>2. Rest
    BY <1>0, <1>9, <2>1 DEF Insert, AfterInsert, world, memory, CheckTypeOK
  <2> QED
    BY <1>1, <1>2, <1>9, <2>2 DEF Insert
<1> QED
  BY <1>4, <1>5, <1>6, <1>7, <1>8, <1>9

\* The pull request checker's types: what is recorded of a run is an outcome, though
\* any number of processes insert what the host told them earlier.
THEOREM CheckTypes == CheckSpec => []CheckTypeOK
<1>1. CheckInv /\ [CheckNext]_prVars => CheckInv'
  BY CheckWorldStep, CheckLoopStep DEF CheckNext
<1>2. CheckInv => CheckTypeOK
  BY DEF CheckInv
<1> QED
  BY <1>1, <1>2, CheckInitInv, PTL DEF CheckSpec

\* Side by side the services take each other's steps as stutters, by the shape of the
\* composition: this carries what is proved of each alone over to all of them.
LEMMA EachServiceAlone ==
  ServicesSpec =>
    FeedSpec /\ GateSpec /\ LoopSpec /\ CheckSpec /\ SchemaSpec /\ PageSpec
<1>1. ServicesInit =>
        FeedInit /\ GateInit /\ LoopInit /\ CheckInit /\ SchemaInit /\ PageInit
  BY DEF ServicesInit
<1>2. [ServicesNext]_servicesVars =>
        /\ [FeedNext]_feedVars /\ [GateNext]_gateVars /\ [LoopNext]_loopVars
        /\ [CheckNext]_prVars /\ [SchemaNext]_schemaVars /\ [PageNext]_pageVars
  BY DEF ServicesNext, servicesVars, FeedRuns, GatewayRuns, LoopRuns, CheckerRuns, SchemaRuns,
         PageRuns
<1> QED
  BY <1>1, <1>2, PTL
     DEF ServicesSpec, FeedSpec, GateSpec, LoopSpec, CheckSpec, SchemaSpec, PageSpec

\* All services keep their types, in any interleaving of all of them.
THEOREM ServicesTypeCorrect == ServicesSpec => []ServicesTypeOK
<1>1. LoopInv => LoopTypeOK
  BY DEF LoopInv
<1>2. SchemaInv => SchemaTypeOK
  BY DEF SchemaInv
<1>3. /\ FeedTypeOK /\ GateTypeOK /\ LoopTypeOK /\ CheckTypeOK /\ SchemaTypeOK /\ PageTypeOK
      => ServicesTypeOK
  BY DEF ServicesTypeOK
<1> QED
  BY <1>1, <1>2, <1>3, EachServiceAlone, FeedTypes, GateTypes, LoopInvariant, CheckTypes,
     SchemaInvariant, PageTypes, PTL
=============================================================================
