--------------------------- MODULE AppEventsProofs ---------------------------
(***************************************************************************)
(* Proofs about the app-wide event stream: whatever connections, reads and *)
(* processes fail, a tab's cursor passes no event it has not applied, one  *)
(* connection carries each event once and in order, and the hub polls      *)
(* exactly while somebody is subscribed.                                   *)
(***************************************************************************)
EXTENDS AppEvents, FiniteSetTheorems, TLAPS

-----------------------------------------------------------------------------
(***************************************************************************)
(* Pipes.                                                                  *)
(***************************************************************************)
Carries(pipe, e) == \E i \in DOMAIN pipe : e \in pipe[i]
NonEmptyPages(pipe) == \A i \in DOMAIN pipe : pipe[i] # {}

LEMMA ItemsCarried == ASSUME NEW pipe, NEW e PROVE e \in Items(pipe) <=> Carries(pipe, e)
BY DEF Items, Carries

LEMMA ItemsOfPages ==
  ASSUME NEW A, NEW pipe \in Seq(SUBSET A) PROVE Items(pipe) \subseteq A
<1>1. \A i \in DOMAIN pipe : pipe[i] \subseteq A
  OBVIOUS
<1> QED
  BY <1>1, ItemsCarried DEF Carries

LEMMA PagesOfMore ==
  ASSUME NEW A, NEW B, A \subseteq B, NEW pipe \in Seq(SUBSET A) PROVE pipe \in Seq(SUBSET B)
<1>1. Len(pipe) \in Nat /\ DOMAIN pipe = 1..Len(pipe) /\ pipe = [i \in 1..Len(pipe) |-> pipe[i]]
  OBVIOUS
<1>2. \A i \in 1..Len(pipe) : pipe[i] \in SUBSET B
  OBVIOUS
<1> QED
  BY <1>1, <1>2

\* What the server sends goes to the end of the pipe.
LEMMA SentPipe ==
  ASSUME NEW A, NEW pipe \in Seq(SUBSET A), NEW R, R \subseteq A,
         Ascending(pipe), NonEmptyPages(pipe),
         \A d \in Items(pipe), e \in R : d < e
  PROVE  /\ Sent(pipe, R) \in Seq(SUBSET A)
         /\ Ascending(Sent(pipe, R)) /\ NonEmptyPages(Sent(pipe, R))
         /\ \A e : e \in Items(Sent(pipe, R)) <=> e \in Items(pipe) \/ e \in R
<1>1. CASE R = {}
  BY <1>1 DEF Sent
<1>2. CASE R # {}
  <2> DEFINE n == Len(pipe)
  <2> DEFINE q == Append(pipe, R)
  <2>1. Sent(pipe, R) = q
    BY <1>2 DEF Sent
  <2>2. /\ n \in Nat /\ DOMAIN pipe = 1..n /\ q \in Seq(SUBSET A) /\ DOMAIN q = 1..(n + 1)
        /\ q[n + 1] = R /\ \A i \in 1..n : q[i] = pipe[i]
    OBVIOUS
  <2>3. \A i \in DOMAIN q : i = n + 1 \/ (i \in DOMAIN pipe /\ i < n + 1)
    BY <2>2
  <2>4. Ascending(q)
    <3> SUFFICES ASSUME NEW i \in DOMAIN q, NEW j \in DOMAIN q, i < j,
                        NEW d \in q[i], NEW e \in q[j]
                 PROVE d < e
      BY DEF Ascending
    <3>1. i \in DOMAIN pipe /\ d \in pipe[i]
      BY <2>2, <2>3
    <3>2. CASE j = n + 1
      BY <2>2, <3>1, <3>2 DEF Items
    <3>3. CASE j # n + 1
      BY <2>2, <2>3, <3>1, <3>3 DEF Ascending
    <3> QED
      BY <3>2, <3>3
  <2>5. NonEmptyPages(q)
    BY <1>2, <2>2, <2>3 DEF NonEmptyPages
  <2>6. ASSUME NEW e PROVE Carries(q, e) <=> Carries(pipe, e) \/ e \in R
    <3>1. n + 1 \in DOMAIN q
      BY <2>2
    <3>2. \A i \in DOMAIN pipe : i \in DOMAIN q
      BY <2>2
    <3> QED
      BY <2>2, <2>3, <3>1, <3>2 DEF Carries
  <2>7. \A e : e \in Items(q) <=> e \in Items(pipe) \/ e \in R
    BY <2>6, ItemsCarried
  <2> QED
    BY <2>1, <2>2, <2>4, <2>5, <2>7
<1> QED
  BY <1>1, <1>2

\* The tab takes the first event of the first page: the least of all it carries.
LEMMA TakenPipe ==
  ASSUME NEW A \in SUBSET Nat, NEW pipe \in Seq(SUBSET A), pipe # <<>>,
         Ascending(pipe), NonEmptyPages(pipe),
         NEW e \in Head(pipe), \A d \in Head(pipe) : e <= d
  PROVE  /\ Without(pipe, e) \in Seq(SUBSET A)
         /\ Ascending(Without(pipe, e)) /\ NonEmptyPages(Without(pipe, e))
         /\ Items(Without(pipe, e)) = Items(pipe) \ {e}
         /\ e \in Items(pipe) /\ \A d \in Items(pipe) : e <= d
<1> DEFINE n == Len(pipe)
<1>1. /\ n \in Nat \ {0} /\ DOMAIN pipe = 1..n /\ Head(pipe) = pipe[1] /\ 1 \in DOMAIN pipe
      /\ \A i \in 1..n : pipe[i] \in SUBSET A
      /\ \A i \in 1..n : i = 1 \/ 1 < i
  OBVIOUS
<1>2. e \in Items(pipe)
  BY <1>1 DEF Items
<1>3. \A i \in 1..n : \A d \in pipe[i] : e <= d /\ (i # 1 => e < d)
  <2> SUFFICES ASSUME NEW i \in 1..n, NEW d \in pipe[i] PROVE e <= d /\ (i # 1 => e < d)
    OBVIOUS
  <2>1. CASE i = 1
    BY <1>1, <2>1
  <2>2. CASE i # 1
    <3>1. 1 < i /\ 1 \in DOMAIN pipe /\ i \in DOMAIN pipe /\ e \in pipe[1]
      BY <1>1, <2>2
    <3>2. e < d
      BY <3>1 DEF Ascending
    <3>3. e \in Nat /\ d \in Nat
      BY <1>1
    <3> QED
      BY <3>2, <3>3
  <2> QED
    BY <2>1, <2>2
<1>4. \A d \in Items(pipe) : e <= d
  BY <1>1, <1>3, ItemsCarried DEF Carries
<1>5. CASE Head(pipe) = {e}
  <2> DEFINE q == Tail(pipe)
  <2>1. /\ Without(pipe, e) = q /\ q \in Seq(SUBSET A) /\ DOMAIN q = 1..(n - 1)
        /\ \A i \in 1..(n - 1) : q[i] = pipe[i + 1] /\ i + 1 \in DOMAIN pipe /\ i + 1 # 1
    BY <1>1, <1>5 DEF Without
  <2>2. Ascending(q)
    <3> SUFFICES ASSUME NEW i \in 1..(n - 1), NEW j \in 1..(n - 1), i < j,
                        NEW d \in q[i], NEW f \in q[j]
                 PROVE d < f
      BY <2>1 DEF Ascending
    <3>1. d \in pipe[i + 1] /\ f \in pipe[j + 1] /\ i + 1 < j + 1
      BY <2>1
    <3> QED
      BY <2>1, <3>1 DEF Ascending
  <2>3. NonEmptyPages(q)
    BY <2>1 DEF NonEmptyPages
  <2>4. ASSUME NEW d, Carries(q, d) PROVE Carries(pipe, d) /\ d # e
    <3>1. PICK i \in 1..(n - 1) : d \in pipe[i + 1]
      BY <2>1, <2>4 DEF Carries
    <3>2. i + 1 \in 1..n /\ d \in pipe[i + 1] /\ i + 1 # 1
      BY <1>1, <2>1, <3>1
    <3>3. e < d /\ d \in Nat /\ e \in Nat
      BY <1>1, <1>3, <3>2
    <3> QED
      BY <1>1, <3>2, <3>3 DEF Carries
  <2>5. ASSUME NEW d, Carries(pipe, d), d # e PROVE Carries(q, d)
    <3>1. PICK i \in 1..n : d \in pipe[i]
      BY <1>1, <2>5 DEF Carries
    <3> DEFINE j == i - 1
    <3>2. j \in 1..(n - 1) /\ j + 1 = i
      BY <1>1, <1>5, <2>5, <3>1
    <3>3. j \in DOMAIN q /\ d \in q[j]
      BY <2>1, <3>1, <3>2
    <3> QED
      BY <3>3 DEF Carries
  <2>6. Items(q) = Items(pipe) \ {e}
    BY <2>4, <2>5, ItemsCarried
  <2> QED
    BY <1>2, <1>4, <2>1, <2>2, <2>3, <2>6
<1>6. CASE Head(pipe) # {e}
  <2> DEFINE q == [pipe EXCEPT ![1] = @ \ {e}]
  <2>1. /\ Without(pipe, e) = q /\ q \in Seq(SUBSET A) /\ DOMAIN q = 1..n
        /\ q[1] = pipe[1] \ {e} /\ \A i \in 1..n : i # 1 => q[i] = pipe[i]
    BY <1>1, <1>6 DEF Without
  <2>2. \A i \in 1..n : q[i] \subseteq pipe[i]
    BY <1>1, <2>1
  <2>3. Ascending(q)
    BY <1>1, <2>1, <2>2 DEF Ascending
  <2>4. NonEmptyPages(q)
    BY <1>1, <1>6, <2>1 DEF NonEmptyPages
  <2>5. ASSUME NEW d PROVE Carries(q, d) <=> Carries(pipe, d) /\ d # e
    <3>1. \A i \in 1..n : d \in q[i] <=> d \in pipe[i] /\ d # e
      <4> SUFFICES ASSUME NEW i \in 1..n PROVE d \in q[i] <=> d \in pipe[i] /\ d # e
        OBVIOUS
      <4>1. CASE i = 1
        BY <2>1, <4>1
      <4>2. CASE i # 1
        <5>1. q[i] = pipe[i]
          BY <2>1, <4>2
        <5>2. e \notin pipe[i]
          <6>1. e \in pipe[i] => e < e
            BY <1>3, <4>2
          <6>2. e \in Nat
            BY <1>1
          <6> QED
            BY <6>1, <6>2
        <5> QED
          BY <5>1, <5>2
      <4> QED
        BY <4>1, <4>2
    <3> QED
      BY <1>1, <2>1, <3>1 DEF Carries
  <2>6. Items(q) = Items(pipe) \ {e}
    BY <2>5, ItemsCarried
  <2> QED
    BY <1>2, <1>4, <2>1, <2>3, <2>4, <2>6
<1> QED
  BY <1>5, <1>6

-----------------------------------------------------------------------------
(***************************************************************************)
(* The invariant.                                                          *)
(***************************************************************************)
TabType(A, n) ==
  [phase : Phases, base : 0..n, cursor : 0..n, seen : SUBSET A, pipe : Seq(SUBSET A)]

FeedShape ==
  /\ top \in Nat
  /\ app \subseteq 1..top
  /\ hub \in [head : 0..top, polling : BOOLEAN, subs : SUBSET Tabs, ghosts : Nat]
  /\ \/ loop \in {Idle, Ticking}
     \/ loop \in [kind : {"catchUp"}, tab : Tabs, since : 0..top, wasPolling : BOOLEAN]
  /\ tab \in [Tabs -> TabType(app, top)]

\* What a tab has and what is on its way leave no hole: not below its cursor, and not
\* below any event of its pipe.
Sound(s, A) ==
  /\ s.base <= s.cursor
  /\ \A e \in s.seen : e <= s.cursor
  /\ \A e \in A : s.base < e /\ e <= s.cursor => e \in s.seen
  /\ s.phase \in {"off", "waiting"} => s.pipe = <<>>
  /\ Ascending(s.pipe) /\ NonEmptyPages(s.pipe)
  /\ \A e \in Items(s.pipe), d \in A : s.cursor < d /\ d < e => d \in Items(s.pipe)

\* A connection has been sent what it is owed up to n, and nothing above.
SentUpTo(s, n, A) ==
  /\ \A e \in Items(s.pipe) : e <= n
  /\ \A d \in A : s.cursor < d /\ d <= n => d \in Items(s.pipe)

\* How far a replay has come; events above a head that others set are left to the poll.
ReplayedTo == IF loop.wasPolling /\ hub.head < loop.since THEN hub.head ELSE loop.since

Reaches(t) ==
  /\ tab[t].phase = "open" => SentUpTo(tab[t], hub.head, app)
  /\ tab[t].phase = "joining" => SentUpTo(tab[t], ReplayedTo, app)

HubInv ==
  /\ PollsWhileWatched
  /\ \A t \in Tabs : t \in hub.subs <=> tab[t].phase = "open"
  /\ \A t \in Tabs : tab[t].phase = "joining" <=> loop.kind = "catchUp" /\ loop.tab = t
  /\ loop.kind = "catchUp" => (loop.wasPolling <=> hub.polling)

TabsInv == \A t \in Tabs : Sound(tab[t], app) /\ Reaches(t)

FeedInv == FeedShape /\ TabsInv /\ HubInv

LEMMA FeedInitInv == FeedInit => FeedInv
<1> SUFFICES ASSUME FeedInit PROVE FeedInv
  OBVIOUS
<1> USE DEF FeedInit
<1>1. FeedShape
  BY DEF FeedShape, TabType, Phases, Idle
<1>2. Items(<<>>) = {} /\ Ascending(<<>>) /\ NonEmptyPages(<<>>)
  BY DEF Items, Ascending, NonEmptyPages
<1>3. TabsInv
  BY <1>2 DEF TabsInv, Sound, Reaches
<1>4. HubInv
  BY DEF HubInv, PollsWhileWatched, Watched, Idle
<1> QED
  BY <1>1, <1>3, <1>4 DEF FeedInv

LEMMA EmptyPipe ==
  Items(<<>>) = {} /\ Ascending(<<>>) /\ NonEmptyPages(<<>>) /\ \A A : <<>> \in Seq(A)
BY DEF Items, Ascending, NonEmptyPages

\* Sending R, the events above n up to m, to a tab that was sent everything up to n.
Owed(s, n, m, R) ==
  /\ top \in Nat /\ app \subseteq 1..top
  /\ s \in TabType(app, top) /\ Sound(s, app) /\ SentUpTo(s, n, app)
  /\ n \in Nat /\ m \in Nat /\ n <= m
  /\ R \subseteq app
  /\ \A e \in R : n < e /\ e <= m
  /\ \A d \in app : n < d /\ d <= m => d \in R

SentOn(s, phase, R) == [s EXCEPT !.phase = phase, !.pipe = Sent(s.pipe, R)]

LEMMA SendOn ==
  ASSUME NEW s, NEW n, NEW m, NEW R, Owed(s, n, m, R),
         NEW phase \in Phases, phase \notin {"off", "waiting"}
  PROVE  /\ SentOn(s, phase, R) \in TabType(app, top)
         /\ Sound(SentOn(s, phase, R), app) /\ SentUpTo(SentOn(s, phase, R), m, app)
<1> SUFFICES
      ASSUME NEW s2, s2 = SentOn(s, phase, R)
      PROVE  s2 \in TabType(app, top) /\ Sound(s2, app) /\ SentUpTo(s2, m, app)
  OBVIOUS
<1>o. /\ top \in Nat /\ app \subseteq 1..top
      /\ s \in TabType(app, top) /\ Sound(s, app) /\ SentUpTo(s, n, app)
      /\ n \in Nat /\ m \in Nat /\ n <= m /\ R \subseteq app
      /\ \A e \in R : n < e /\ e <= m
      /\ \A d \in app : n < d /\ d <= m => d \in R
  BY DEF Owed
<1> USE <1>o
<1> DEFINE q == Sent(s.pipe, R)
<1>1. /\ s.pipe \in Seq(SUBSET app) /\ s.cursor \in Nat /\ s.base \in Nat
      /\ app \in SUBSET Nat /\ \A d \in app : d \in Nat
      /\ \A d \in R : d \in app /\ d \in Nat
      /\ \A d \in Items(s.pipe) : d \in app /\ d \in Nat
  <2>1. s.pipe \in Seq(SUBSET app) /\ s.cursor \in 0..top /\ s.base \in 0..top
    BY DEF TabType
  <2>2. app \in SUBSET Nat
    OBVIOUS
  <2>3. Items(s.pipe) \subseteq app
    BY <2>1, ItemsOfPages
  <2>4. s.cursor \in Nat /\ s.base \in Nat
    BY <2>1
  <2>5. \A d \in app : d \in Nat
    BY <2>2
  <2> QED
    BY ONLY <2>1, <2>2, <2>3, <2>4, <2>5, R \subseteq app
<1>n. (\A e \in Items(s.pipe) : e <= n) /\ (\A d \in app : s.cursor < d /\ d <= n => d \in Items(s.pipe))
  BY DEF SentUpTo
<1>2. /\ q \in Seq(SUBSET app) /\ Ascending(q) /\ NonEmptyPages(q)
      /\ \A e : e \in Items(q) <=> e \in Items(s.pipe) \/ e \in R
  <2>1. ASSUME NEW d \in Items(s.pipe), NEW e \in R PROVE d < e
    <3>1. d <= n /\ n < e /\ d \in Nat /\ e \in Nat
      BY <1>1, <1>n
    <3> QED
      BY ONLY <3>1, n \in Nat
  <2>2. Ascending(s.pipe) /\ NonEmptyPages(s.pipe)
    BY DEF Sound
  <2>3. \A d \in Items(s.pipe), e \in R : d < e
    BY <2>1
  <2> QED
    BY ONLY <1>1, <2>2, <2>3, R \subseteq app, SentPipe DEF q
<1>q. s2 = [s EXCEPT !.phase = phase, !.pipe = q]
  BY DEF SentOn
<1> HIDE DEF q
<1>3. /\ s2 \in TabType(app, top) /\ s2.phase = phase /\ s2.pipe = q
      /\ s2.base = s.base /\ s2.cursor = s.cursor /\ s2.seen = s.seen
  BY ONLY <1>o, <1>2, <1>q, phase \in Phases DEF TabType
<1>4. SentUpTo(s2, m, app)
  <2>1. ASSUME NEW e \in Items(q) PROVE e <= m
    <3>1. CASE e \in R
      BY <3>1
    <3>2. CASE e \in Items(s.pipe)
      <4>1. e <= n /\ e \in Nat
        BY <1>1, <1>n, <3>2
      <4> QED
        BY ONLY <4>1, n <= m, n \in Nat, m \in Nat
    <3> QED
      BY <1>2, <3>1, <3>2
  <2>2. \A d \in app : s.cursor < d /\ d <= m => d \in Items(q)
    BY <1>1, <1>2, <1>n
  <2> QED
    BY <1>3, <2>1, <2>2 DEF SentUpTo
<1>5. ASSUME NEW e \in Items(q), NEW d \in app, s.cursor < d, d < e PROVE d \in Items(q)
  <2>1. CASE e \in Items(s.pipe)
    BY <1>2, <1>5, <2>1 DEF Sound
  <2>2. CASE e \in R
    BY <1>1, <1>2, <1>5, <1>n, <2>2
  <2> QED
    BY <1>2, <1>5, <2>1, <2>2
<1>6. Sound(s2, app)
  BY <1>2, <1>3, <1>5 DEF Sound
<1> QED
  BY <1>3, <1>4, <1>6

\* The tab takes the next event.
LEMMA TakeOn ==
  ASSUME NEW s \in TabType(app, top), top \in Nat, app \subseteq 1..top, Sound(s, app), s.pipe # <<>>,
         NEW e \in Head(s.pipe), \A d \in Head(s.pipe) : e <= d
  PROVE  /\ Applied(s, e) \in TabType(app, top) /\ Applied(s, e).phase = s.phase
         /\ Sound(Applied(s, e), app)
         /\ \A n \in Nat : SentUpTo(s, n, app) => SentUpTo(Applied(s, e), n, app)
<1> DEFINE q == Without(s.pipe, e)
<1> DEFINE s2 == Applied(s, e)
<1>1. /\ s.pipe \in Seq(SUBSET app) /\ app \in SUBSET Nat /\ s.cursor \in 0..top /\ s.base \in 0..top
      /\ s.seen \in SUBSET app /\ \A d \in app : d \in Nat /\ d \in 0..top
  <2>1. s.pipe \in Seq(SUBSET app) /\ s.cursor \in 0..top /\ s.base \in 0..top /\ s.seen \in SUBSET app
    BY DEF TabType
  <2>2. \A d \in app : d \in Nat /\ d \in 0..top
    OBVIOUS
  <2> QED
    BY <2>1, <2>2
<1>2. /\ q \in Seq(SUBSET app) /\ Ascending(q) /\ NonEmptyPages(q)
      /\ Items(q) = Items(s.pipe) \ {e}
      /\ e \in Items(s.pipe) /\ \A d \in Items(s.pipe) : e <= d
  BY <1>1, TakenPipe DEF Sound
<1>3. e \in app /\ e \in 0..top /\ \A d \in Items(s.pipe) : d \in app /\ d \in Nat
  <2>1. Items(s.pipe) \subseteq app
    BY <1>1, ItemsOfPages
  <2> QED
    BY <1>1, <1>2, <2>1
<1> HIDE DEF q
<1>p. s.phase \notin {"off", "waiting"}
  BY DEF Sound
<1>4. CASE e \in s.seen
  <2>1. /\ s2 \in TabType(app, top) /\ s2.phase = s.phase /\ s2.pipe = q
        /\ s2.base = s.base /\ s2.cursor = s.cursor /\ s2.seen = s.seen
    BY <1>2, <1>4 DEF Applied, TabType, q
  <2> HIDE DEF s2
  <2>2. e <= s.cursor
    BY <1>4 DEF Sound
  <2>3. \A d \in app : s.cursor < d => d # e
    BY <1>1, <1>3, <2>2
  <2>4. Sound(s2, app)
    BY <1>p, <1>2, <2>1, <2>3 DEF Sound
  <2>5. \A n \in Nat : SentUpTo(s, n, app) => SentUpTo(s2, n, app)
    BY <1>2, <2>1, <2>3 DEF SentUpTo
  <2> QED
    BY <2>1, <2>4, <2>5 DEF s2
<1>5. CASE e \notin s.seen
  <2> DEFINE c == IF e > s.cursor THEN e ELSE s.cursor
  <2>1. c \in 0..top /\ s.cursor <= c /\ e <= c
    BY <1>1, <1>3
  <2>2. c = e \/ c = s.cursor
    OBVIOUS
  <2>3. Applied(s, e) = [s EXCEPT !.pipe = q, !.seen = s.seen \cup {e}, !.cursor = c]
    BY <1>5 DEF Applied, q
  <2> HIDE DEF c, s2
  <2>4. /\ s2 \in TabType(app, top) /\ s2.phase = s.phase /\ s2.pipe = q
        /\ s2.base = s.base /\ s2.cursor = c /\ s2.seen = s.seen \cup {e}
    <3>1. s.seen \cup {e} \in SUBSET app
      BY <1>1, <1>3
    <3> QED
      BY <1>2, <2>1, <2>3, <3>1 DEF TabType, s2
  <2>5. ASSUME NEW d \in app, c < d PROVE d # e /\ s.cursor < d
    <3>1. d \in Nat /\ c \in Nat /\ e \in Nat /\ s.cursor \in Nat
      BY <1>1, <1>3, <2>1
    <3> QED
      BY ONLY <2>1, <2>5, <3>1
  <2>6. ASSUME NEW d \in app, s.base < d, d <= c PROVE d \in s.seen \cup {e}
    <3>1. CASE d <= s.cursor
      BY <2>6, <3>1 DEF Sound
    <3>2. CASE ~(d <= s.cursor)
      <4>d. d \in Nat /\ s.cursor \in Nat
        BY <1>1
      <4>1. s.cursor < d /\ c = e /\ d <= e
        BY ONLY <2>2, <2>6, <3>2, <4>d
      <4>2. d < e => d \in Items(s.pipe)
        BY <1>2, <4>1 DEF Sound
      <4>3. ~(d < e)
        BY <1>1, <1>2, <1>3, <4>2
      <4> QED
        BY <1>1, <1>3, <4>1, <4>3
    <3> QED
      BY <3>1, <3>2
  <2>7. \A d \in s.seen \cup {e} : d <= c
    <3>1. \A d \in s.seen : d \in Nat /\ d <= s.cursor
      BY <1>1 DEF Sound
    <3> QED
      BY <1>1, <2>1, <3>1
  <2>8. s.base <= c
    BY <1>1, <2>1 DEF Sound
  <2>9. \A f \in Items(q), d \in app : c < d /\ d < f => d \in Items(q)
    BY <1>2, <2>5 DEF Sound
  <2>10. Sound(s2, app)
    BY <1>p, <1>2, <2>4, <2>6, <2>7, <2>8, <2>9 DEF Sound
  <2>11. \A n \in Nat : SentUpTo(s, n, app) => SentUpTo(s2, n, app)
    BY <1>2, <2>4, <2>5 DEF SentUpTo
  <2> QED
    BY <2>4, <2>10, <2>11 DEF s2
<1> QED
  BY <1>4, <1>5

-----------------------------------------------------------------------------
(***************************************************************************)
(* One lemma per action.                                                   *)
(***************************************************************************)
\* What a page of a query holds.
LEMMA PageFacts ==
  ASSUME app \in SUBSET Nat, NEW since \in Nat, NEW P \in SUBSET app, IsPage(P, since)
  PROVE  /\ \A e \in P : since < e
         /\ \A last : IsLast(last, P) =>
              /\ last \in app /\ since < last
              /\ \A e \in P : e <= last
              /\ \A d \in app : since < d /\ d <= last => d \in P
         /\ Cardinality(P) < PageSize => \A d \in app : since < d => d \in P
<1>1. \A e \in P : since < e
  BY DEF IsPage, Above
<1>2. ASSUME NEW last, IsLast(last, P)
      PROVE  /\ last \in app /\ since < last
             /\ \A e \in P : e <= last
             /\ \A d \in app : since < d /\ d <= last => d \in P
  <2>1. last \in P /\ last \in app /\ last \in Nat /\ since < last /\ \A e \in P : e <= last
    BY <1>1, <1>2 DEF IsLast
  <2>2. ASSUME NEW d \in app, since < d, d <= last PROVE d \in P
    <3>1. CASE d = last
      BY <2>1, <3>1
    <3>2. CASE d # last
      <4>1. d < last
        <5>1. d \in Nat
          OBVIOUS
        <5> QED
          BY ONLY <2>1, <2>2, <3>2, <5>1
      <4>2. d \in Above(since)
        BY <2>2 DEF Above
      <4> QED
        BY <2>1, <4>1, <4>2 DEF IsPage
    <3> QED
      BY <3>1, <3>2
  <2> QED
    BY <2>1, <2>2
<1>3. ASSUME Cardinality(P) < PageSize PROVE P = Above(since)
  BY <1>3, StreamAssumption DEF IsPage
<1> QED
  BY <1>1, <1>2, <1>3 DEF Above

\* The ids are numbers.
LEMMA ShapeFacts ==
  ASSUME FeedShape
  PROVE  /\ top \in Nat /\ app \subseteq 1..top /\ app \in SUBSET Nat
         /\ hub.head \in Nat /\ hub.head <= top /\ hub.subs \in SUBSET Tabs
         /\ \A t \in Tabs : tab[t] \in TabType(app, top)
         /\ loop.kind = "catchUp" => loop.tab \in Tabs /\ loop.since \in Nat /\ loop.since <= top
BY DEF FeedShape, Idle, Ticking

LEMMA AppendKeeps ==
  ASSUME FeedInv, NEW carried \in BOOLEAN, AppendEvent(carried)
  PROVE  FeedInv'
<1>1. /\ top \in Nat /\ top' = top + 1 /\ UNCHANGED <<hub, loop, tab>>
      /\ app \subseteq app' /\ app' \subseteq app \cup {top + 1} /\ app \subseteq 1..top
  BY DEF AppendEvent, FeedInv, FeedShape
<1>2. FeedShape'
  <2>1. app' \subseteq 1..top' /\ top' \in Nat /\ \A n \in 0..top : n \in 0..top'
    BY <1>1
  <2>2. /\ hub' \in [head : 0..top', polling : BOOLEAN, subs : SUBSET Tabs, ghosts : Nat]
        /\ \/ loop' \in {Idle, Ticking}
           \/ loop' \in [kind : {"catchUp"}, tab : Tabs, since : 0..top', wasPolling : BOOLEAN]
    BY <1>1, <2>1 DEF FeedInv, FeedShape
  <2>3. ASSUME NEW s \in TabType(app, top) PROVE s \in TabType(app', top')
    <3>1. \A q \in Seq(SUBSET app) : q \in Seq(SUBSET app')
      BY <1>1, PagesOfMore
    <3>2. \A S \in SUBSET app : S \in SUBSET app'
      BY <1>1
    <3> QED
      BY <2>1, <3>1, <3>2 DEF TabType
  <2>4. tab' \in [Tabs -> TabType(app', top')]
    BY <1>1, <2>3 DEF FeedInv, FeedShape
  <2> QED
    BY <2>1, <2>2, <2>4 DEF FeedShape
<1>3. ASSUME NEW t \in Tabs PROVE Sound(tab'[t], app') /\ Reaches(t)'
  <2> DEFINE s == tab[t]
  <2>1. Sound(s, app) /\ Reaches(t) /\ s \in TabType(app, top)
    BY DEF FeedInv, TabsInv, FeedShape
  <2>2. s.cursor \in Nat /\ s.cursor <= top /\ \A e \in Items(s.pipe) : e \in Nat /\ e <= top
    <3>1. s.cursor \in 0..top /\ s.pipe \in Seq(SUBSET app)
      BY <2>1 DEF TabType
    <3>2. Items(s.pipe) \subseteq app
      BY <3>1, ItemsOfPages
    <3>3. s.cursor \in Nat /\ s.cursor <= top
      BY <1>1, <3>1
    <3>4. \A e \in app : e \in Nat /\ e <= top
      BY <1>1
    <3> QED
      BY ONLY <3>2, <3>3, <3>4
  <2>3. Sound(s, app')
    <3> HIDE DEF s
    <3>1. ASSUME NEW e \in app', s.base < e, e <= s.cursor PROVE e \in s.seen
      <4>1. e \in app
        BY <1>1, <2>2, <3>1
      <4> QED
        BY <2>1, <3>1, <4>1 DEF Sound
    <3>2. ASSUME NEW e \in Items(s.pipe), NEW d \in app', s.cursor < d, d < e
          PROVE d \in Items(s.pipe)
      <4>1. d \in app
        BY <1>1, <2>2, <3>2
      <4> QED
        BY <2>1, <3>2, <4>1 DEF Sound
    <3> QED
      BY <2>1, <3>1, <3>2 DEF Sound
  <2>4. ASSUME NEW n \in Nat, n <= top, SentUpTo(s, n, app) PROVE SentUpTo(s, n, app')
    <3> HIDE DEF s
    <3>1. \A d \in app' : d <= n => d \in app
      BY <1>1, <2>4
    <3> QED
      BY <2>4, <3>1 DEF SentUpTo
  <2>5. tab[t].phase = "joining" => ReplayedTo \in Nat /\ ReplayedTo <= top
    <3>1. tab[t].phase = "joining" => loop.kind = "catchUp"
      BY DEF FeedInv, HubInv
    <3> QED
      BY <3>1, ShapeFacts DEF ReplayedTo, FeedInv
  <2>6. hub.head \in Nat /\ hub.head <= top
    BY ShapeFacts DEF FeedInv
  <2> QED
    BY <1>1, <2>1, <2>3, <2>4, <2>5, <2>6 DEF Reaches, ReplayedTo
<1>4. HubInv'
  BY <1>1 DEF FeedInv, HubInv, PollsWhileWatched, Watched
<1> QED
  BY <1>2, <1>3, <1>4 DEF FeedInv, TabsInv

LEMMA SubscribeKeeps ==
  ASSUME FeedInv, NEW t \in Tabs, Subscribe(t)
  PROVE  FeedInv'
<1> DEFINE s == tab[t]
<1>1. /\ loop = Idle /\ s.phase = "waiting" /\ UNCHANGED <<top, app, hub>>
      /\ loop' = CatchingUp(t, s.cursor, hub.polling)
      /\ tab' = [tab EXCEPT ![t].phase = "joining"]
  BY DEF Subscribe
<1>2. s \in TabType(app, top) /\ Sound(s, app) /\ s.cursor \in 0..top /\ s.pipe = <<>>
  BY <1>1 DEF FeedInv, FeedShape, TabsInv, TabType, Sound
<1>3. FeedShape'
  <2>1. loop' \in [kind : {"catchUp"}, tab : Tabs, since : 0..top, wasPolling : BOOLEAN]
    BY <1>1, <1>2 DEF CatchingUp, FeedInv, FeedShape
  <2>2. [s EXCEPT !.phase = "joining"] \in TabType(app, top)
    BY <1>2 DEF TabType, Phases
  <2>3. tab' \in [Tabs -> TabType(app, top)]
    BY <1>1, <2>2 DEF FeedInv, FeedShape
  <2> QED
    BY <1>1, <2>1, <2>3 DEF FeedInv, FeedShape
<1>4. tab \in [Tabs -> TabType(app, top)] /\ loop.kind # "catchUp"
  BY <1>1 DEF FeedInv, FeedShape, Idle
<1>5. /\ tab'[t] = [s EXCEPT !.phase = "joining"]
      /\ \A u \in Tabs \ {t} : tab'[u] = tab[u]
  BY <1>1, <1>4
<1>6. Sound(tab'[t], app) /\ Reaches(t)'
  <2>1. /\ tab'[t].phase = "joining" /\ tab'[t].pipe = <<>> /\ tab'[t].cursor = s.cursor
        /\ tab'[t].base = s.base /\ tab'[t].seen = s.seen
    BY <1>2, <1>5 DEF TabType
  <2>2. Sound(tab'[t], app)
    BY <1>2, <2>1, EmptyPipe DEF Sound
  <2>3. ReplayedTo' \in Nat /\ ReplayedTo' <= s.cursor
    BY <1>1, <1>2, ShapeFacts DEF ReplayedTo, CatchingUp, FeedInv
  <2>4. SentUpTo(tab'[t], ReplayedTo', app)
    <3>1. ASSUME NEW d \in app, s.cursor < d, d <= ReplayedTo' PROVE FALSE
      <4>1. d \in Nat /\ s.cursor \in Nat
        BY <1>2, ShapeFacts DEF FeedInv
      <4> QED
        BY ONLY <2>3, <3>1, <4>1
    <3> QED
      BY <2>1, <3>1, EmptyPipe DEF SentUpTo
  <2> QED
    BY <1>1, <2>1, <2>2, <2>4 DEF Reaches
<1>7. ASSUME NEW u \in Tabs \ {t} PROVE Sound(tab'[u], app) /\ Reaches(u)'
  <2>1. Sound(tab[u], app) /\ Reaches(u) /\ tab[u].phase # "joining"
    BY <1>4 DEF FeedInv, TabsInv, HubInv
  <2> QED
    BY <1>1, <1>5, <2>1 DEF Reaches
<1>8. HubInv'
  <2>1. loop'.kind = "catchUp" /\ loop'.tab = t /\ loop'.wasPolling = hub.polling
    BY <1>1 DEF CatchingUp
  <2>2. \A u \in Tabs : tab'[u].phase = IF u = t THEN "joining" ELSE tab[u].phase
    BY <1>2, <1>5 DEF TabType
  <2>3. \A u \in Tabs : tab[u].phase # "joining"
    BY <1>4 DEF FeedInv, HubInv
  <2> QED
    BY <1>1, <2>1, <2>2, <2>3 DEF FeedInv, HubInv, PollsWhileWatched, Watched
<1> QED
  BY <1>1, <1>3, <1>6, <1>7, <1>8 DEF FeedInv, TabsInv

\* A stream the server ends keeps what it was sent.
LEMMA ClosedTab ==
  ASSUME NEW s \in TabType(app, top), Sound(s, app), s.phase \in {"joining", "open"}
  PROVE  LET c == [s EXCEPT !.phase = "closed"] IN
         c \in TabType(app, top) /\ Sound(c, app) /\ c.phase = "closed"
<1> DEFINE c == [s EXCEPT !.phase = "closed"]
<1>1. /\ c \in TabType(app, top) /\ c.phase = "closed" /\ c.pipe = s.pipe
      /\ c.base = s.base /\ c.cursor = s.cursor /\ c.seen = s.seen
  BY DEF TabType, Phases
<1> HIDE DEF c
<1>2. Sound(c, app)
  BY <1>1 DEF Sound
<1> QED
  BY <1>1, <1>2 DEF c

\* A tab without a connection, or with one about to be replayed.
LEMMA WaitingTab ==
  ASSUME NEW s \in TabType(app, top), Sound(s, app)
  PROVE  LET c == [s EXCEPT !.phase = "waiting", !.pipe = <<>>] IN
         c \in TabType(app, top) /\ Sound(c, app) /\ c.phase = "waiting"
<1> DEFINE c == [s EXCEPT !.phase = "waiting", !.pipe = <<>>]
<1>1. /\ c \in TabType(app, top) /\ c.phase = "waiting" /\ c.pipe = <<>>
      /\ c.base = s.base /\ c.cursor = s.cursor /\ c.seen = s.seen
  BY EmptyPipe DEF TabType, Phases
<1> HIDE DEF c
<1>2. Sound(c, app)
  BY <1>1, EmptyPipe DEF Sound
<1> QED
  BY <1>1, <1>2 DEF c

LEMMA CatchUpFailsKeeps ==
  ASSUME FeedInv, CatchUpFails
  PROVE  FeedInv'
<1> DEFINE t == loop.tab
<1>1. /\ loop.kind = "catchUp" /\ loop' = Idle /\ UNCHANGED <<top, app, hub>>
      /\ tab' = [tab EXCEPT ![t] = [tab[t] EXCEPT !.phase = "closed"]]
  BY DEF CatchUpFails
<1>2. t \in Tabs /\ tab[t] \in TabType(app, top) /\ Sound(tab[t], app) /\ tab[t].phase = "joining"
      /\ tab \in [Tabs -> TabType(app, top)]
  BY <1>1, ShapeFacts DEF FeedInv, FeedShape, TabsInv, HubInv
<1>3. tab'[t] \in TabType(app, top) /\ Sound(tab'[t], app) /\ tab'[t].phase = "closed"
  BY <1>1, <1>2, ClosedTab
<1>4. \A u \in Tabs \ {t} : tab'[u] = tab[u]
  BY <1>1, <1>2
<1>5. FeedShape'
  BY <1>1, <1>2, <1>3 DEF FeedInv, FeedShape
<1>6. ASSUME NEW u \in Tabs PROVE Sound(tab'[u], app) /\ Reaches(u)'
  <2>1. u # t => tab[u].phase # "joining" /\ Sound(tab[u], app) /\ Reaches(u)
    BY DEF FeedInv, TabsInv, HubInv
  <2> QED
    BY <1>1, <1>3, <1>4, <2>1 DEF Reaches
<1>7. HubInv'
  <2>1. loop'.kind = "idle"
    BY <1>1 DEF Idle
  <2> QED
    BY <1>1, <1>2, <1>3, <1>4, <2>1 DEF FeedInv, HubInv, PollsWhileWatched, Watched
<1> QED
  BY <1>1, <1>5, <1>6, <1>7 DEF FeedInv, TabsInv

\* Another page of a replay, or its last: the subscription takes over where it ends.
LEMMA CatchUpPageKeeps ==
  ASSUME FeedInv, CatchUpPage
  PROVE  FeedInv'
<1>0. loop.kind = "catchUp" /\ loop.tab \in Tabs
  BY ShapeFacts DEF CatchUpPage, FeedInv
<1>t. PICK t \in Tabs : loop.tab = t
  BY <1>0
<1> DEFINE s == tab[t]
<1>1. PICK P \in SUBSET app, since \in 0..top :
        /\ loop.kind = "catchUp" /\ IsPage(P, loop.since)
        /\ IF P = {} THEN since = loop.since ELSE IsLast(since, P)
        /\ IF ReplayEnds(P)
           THEN /\ hub' = Joined(t, since)
                /\ loop' = Idle
                /\ tab' = [tab EXCEPT ![t].phase = "open", ![t].pipe = Sent(@, Replayed(P))]
           ELSE /\ loop' = [loop EXCEPT !.since = since]
                /\ tab' = [tab EXCEPT ![t].pipe = Sent(@, Replayed(P))]
                /\ hub' = hub
        /\ UNCHANGED <<top, app>>
  BY <1>t DEF CatchUpPage
<1>2. /\ t \in Tabs /\ s \in TabType(app, top) /\ Sound(s, app) /\ s.phase = "joining"
      /\ SentUpTo(s, ReplayedTo, app) /\ tab \in [Tabs -> TabType(app, top)]
      /\ loop.since \in Nat /\ hub.head \in Nat /\ hub.head <= top /\ top \in Nat
      /\ app \subseteq 1..top /\ app \in SUBSET Nat /\ since \in Nat
      /\ loop \in [kind : {"catchUp"}, tab : Tabs, since : 0..top, wasPolling : BOOLEAN]
  <2>1. loop \in [kind : {"catchUp"}, tab : Tabs, since : 0..top, wasPolling : BOOLEAN]
    BY <1>1 DEF FeedInv, FeedShape, Idle, Ticking
  <2>2. t \in Tabs /\ s.phase = "joining" /\ Sound(s, app) /\ Reaches(t)
    BY <1>1, <1>t DEF FeedInv, TabsInv, HubInv
  <2> QED
    BY <1>1, <2>1, <2>2, ShapeFacts DEF FeedInv, FeedShape, Reaches
<1>3. /\ loop.since <= since
      /\ \A e \in P : loop.since < e /\ e <= since
      /\ \A d \in app : loop.since < d /\ d <= since => d \in P
  <2>1. CASE P = {}
    <3>1. since = loop.since
      BY <1>1, <2>1
    <3>2. \A d \in app : ~(loop.since < d /\ d <= loop.since)
      BY <1>2
    <3> QED
      BY <1>2, <2>1, <3>1, <3>2
  <2>2. CASE P # {}
    <3>1. /\ loop.since < since /\ \A e \in P : loop.since < e /\ e <= since
          /\ \A d \in app : loop.since < d /\ d <= since => d \in P
      BY <1>1, <1>2, <2>2, PageFacts
    <3> QED
      BY <1>2, <3>1
  <2> QED
    BY <2>1, <2>2
<1>4. Cardinality(P) < PageSize => \A d \in app : loop.since < d => d \in P
  BY <1>1, <1>2, PageFacts
<1> DEFINE R == Replayed(P)
<1>5. /\ R \in SUBSET app /\ R \subseteq P
      /\ \A e \in P : e \in R <=> (loop.wasPolling => e <= hub.head)
  BY DEF Replayed
<1>n. /\ \A e \in app : e \in Nat
      /\ \A e \in P : e \in Nat
      /\ ReplayedTo \in Nat
      /\ ReplayedTo <= loop.since /\ (loop.wasPolling => ReplayedTo <= hub.head)
      /\ ReplayedTo = loop.since \/ (loop.wasPolling /\ ReplayedTo = hub.head)
  BY <1>2 DEF ReplayedTo
<1>u. \A u \in Tabs \ {t} : tab[u].phase # "joining" /\ Sound(tab[u], app) /\ Reaches(u)
  BY <1>t DEF FeedInv, TabsInv, HubInv
<1> HIDE DEF R
<1>6. CASE ~ReplayEnds(P)
  <2> DEFINE upto == IF loop.wasPolling /\ hub.head < since THEN hub.head ELSE since
  <2>1. /\ loop' = [loop EXCEPT !.since = since] /\ hub' = hub /\ UNCHANGED <<top, app>>
        /\ tab' = [tab EXCEPT ![t] = [s EXCEPT !.phase = "joining", !.pipe = Sent(s.pipe, R)]]
    <3>1. [s EXCEPT !.pipe = Sent(s.pipe, R)] = [s EXCEPT !.phase = "joining", !.pipe = Sent(s.pipe, R)]
      BY <1>2 DEF TabType
    <3> QED
      BY <1>1, <1>6, <3>1 DEF R
  <2>2. /\ loop'.kind = "catchUp" /\ loop'.tab = t /\ loop'.since = since
        /\ loop'.wasPolling = loop.wasPolling
        /\ loop' \in [kind : {"catchUp"}, tab : Tabs, since : 0..top, wasPolling : BOOLEAN]
    BY <1>1, <1>2, <1>t, <2>1
  <2>3. ReplayedTo' = upto
    BY <2>1, <2>2 DEF ReplayedTo
  <2>4. upto \in Nat /\ ReplayedTo <= upto
    BY <1>2, <1>3, <1>n DEF ReplayedTo
  <2>5. ASSUME NEW e \in R PROVE ReplayedTo < e /\ e <= upto
    <3>1. e \in Nat /\ loop.since < e /\ e <= since /\ (loop.wasPolling => e <= hub.head)
      BY <1>3, <1>5, <1>n
    <3> QED
      BY <1>2, <1>n, <3>1
  <2>6. ASSUME NEW d \in app, ReplayedTo < d, d <= upto PROVE d \in R
    <3>1. d \in Nat /\ d <= since /\ (loop.wasPolling => d <= hub.head)
      BY <1>2, <1>n, <2>6
    <3>2. loop.since < d
      BY <1>2, <1>n, <2>6, <3>1
    <3> QED
      BY <1>3, <1>5, <3>1, <3>2
  <2> HIDE DEF upto
  <2>7. tab'[t] = [s EXCEPT !.phase = "joining", !.pipe = Sent(s.pipe, R)]
        /\ \A u \in Tabs \ {t} : tab'[u] = tab[u]
    BY <1>2, <2>1
  <2>8. /\ tab'[t] \in TabType(app, top) /\ Sound(tab'[t], app) /\ SentUpTo(tab'[t], upto, app)
    <3>1. "joining" \in Phases /\ "joining" \notin {"off", "waiting"}
      BY DEF Phases
    <3>2. /\ \A e \in R : ReplayedTo < e /\ e <= upto
          /\ \A d \in app : ReplayedTo < d /\ d <= upto => d \in R
      BY <2>5, <2>6
    <3>3. R \subseteq app
      BY <1>5
    <3>4. Owed(s, ReplayedTo, upto, R)
      BY <1>2, <1>n, <2>4, <3>2, <3>3 DEF Owed
    <3>5. tab'[t] = SentOn(s, "joining", R)
      BY <2>7 DEF SentOn
    <3> HIDE DEF s
    <3> QED
      BY ONLY <3>1, <3>4, <3>5, SendOn
  <2>9. tab'[t].phase = "joining"
    BY <1>2, <2>7 DEF TabType
  <2>10. FeedShape'
    BY <1>2, <2>1, <2>2, <2>7, <2>8 DEF FeedInv, FeedShape
  <2>11. \A u \in Tabs : Sound(tab'[u], app) /\ Reaches(u)'
    BY <1>u, <2>1, <2>3, <2>7, <2>8, <2>9 DEF Reaches
  <2>12. HubInv'
    BY <1>1, <1>2, <2>1, <2>2, <2>7, <2>9 DEF FeedInv, HubInv, PollsWhileWatched, Watched
  <2> QED
    BY <2>1, <2>10, <2>11, <2>12 DEF FeedInv, TabsInv
<1>7. CASE ReplayEnds(P)
  <2> DEFINE head == IF loop.wasPolling THEN hub.head ELSE since
  <2>1. /\ hub' = Joined(t, since) /\ loop' = Idle /\ UNCHANGED <<top, app>>
        /\ tab' = [tab EXCEPT ![t] = [s EXCEPT !.phase = "open", !.pipe = Sent(s.pipe, R)]]
    BY <1>1, <1>2, <1>7 DEF R
  <2>2. /\ hub'.head = head /\ hub'.polling = TRUE /\ hub'.subs = hub.subs \cup {t}
        /\ hub'.ghosts = hub.ghosts /\ head \in 0..top
        /\ hub' \in [head : 0..top, polling : BOOLEAN, subs : SUBSET Tabs, ghosts : Nat]
    <3>1. hub \in [head : 0..top, polling : BOOLEAN, subs : SUBSET Tabs, ghosts : Nat]
      BY DEF FeedInv, FeedShape
    <3>2. hub' = [hub EXCEPT !.subs = hub.subs \cup {t}, !.polling = TRUE, !.head = head]
      BY <2>1, <3>1 DEF Joined
    <3>3. head \in 0..top
      BY <1>1, <3>1
    <3> HIDE DEF head
    <3> QED
      BY <1>2, <3>1, <3>2, <3>3
  <2>3. head \in Nat /\ ReplayedTo <= head
    BY <1>2, <1>3, <1>n
  <2>4. ASSUME NEW e \in R PROVE ReplayedTo < e /\ e <= head
    <3>1. e \in Nat /\ loop.since < e /\ e <= since /\ (loop.wasPolling => e <= hub.head)
      BY <1>3, <1>5, <1>n
    <3> QED
      BY <1>2, <1>n, <3>1
  <2>5. ASSUME NEW d \in app, ReplayedTo < d, d <= head PROVE d \in R
    <3>1. d \in Nat /\ (loop.wasPolling => d <= hub.head) /\ (~loop.wasPolling => d <= since)
      BY <1>n, <2>5
    <3>2. loop.since < d
      BY <1>2, <1>n, <2>5, <3>1
    <3>3. d \in P
      <4>1. CASE Cardinality(P) < PageSize
        BY <1>4, <3>2, <4>1
      <4>2. CASE ~loop.wasPolling
        BY <1>3, <3>1, <3>2, <4>2
      <4>3. CASE loop.wasPolling /\ \E last \in P : last >= hub.head
        <5>1. PICK last \in P : last >= hub.head
          BY <4>3
        <5>2. last \in Nat /\ last <= since
          BY <1>3, <1>n
        <5>3. d <= since
          BY <1>2, <3>1, <4>3, <5>1, <5>2
        <5> QED
          BY <1>3, <3>2, <5>3
      <4> QED
        BY <1>7, <4>1, <4>2, <4>3 DEF ReplayEnds
    <3> QED
      BY <1>5, <3>1, <3>3
  <2> HIDE DEF head
  <2>6. tab'[t] = [s EXCEPT !.phase = "open", !.pipe = Sent(s.pipe, R)]
        /\ \A u \in Tabs \ {t} : tab'[u] = tab[u]
    BY <1>2, <2>1
  <2>7. /\ tab'[t] \in TabType(app, top) /\ Sound(tab'[t], app) /\ SentUpTo(tab'[t], head, app)
    <3>1. "open" \in Phases /\ "open" \notin {"off", "waiting"}
      BY DEF Phases
    <3>2. /\ \A e \in R : ReplayedTo < e /\ e <= head
          /\ \A d \in app : ReplayedTo < d /\ d <= head => d \in R
      BY <2>4, <2>5
    <3>3. R \subseteq app
      BY <1>5
    <3>4. Owed(s, ReplayedTo, head, R)
      BY <1>2, <1>n, <2>3, <3>2, <3>3 DEF Owed
    <3>5. tab'[t] = SentOn(s, "open", R)
      BY <2>6 DEF SentOn
    <3> HIDE DEF s
    <3> QED
      BY ONLY <3>1, <3>4, <3>5, SendOn
  <2>8. tab'[t].phase = "open"
    BY <1>2, <2>6 DEF TabType
  <2>9. FeedShape'
    BY <1>2, <2>1, <2>2, <2>6, <2>7 DEF FeedInv, FeedShape
  <2>10. ASSUME NEW u \in Tabs \ {t} PROVE Reaches(u)'
    <3>1. tab[u].phase = "open" => hub'.head = hub.head
      <4>1. tab[u].phase = "open" => hub.polling
        BY DEF FeedInv, HubInv, PollsWhileWatched, Watched
      <4>2. hub.polling => loop.wasPolling
        BY <1>1 DEF FeedInv, HubInv
      <4> QED
        BY <2>2, <4>1, <4>2 DEF head
    <3> QED
      BY <1>u, <2>1, <2>6, <3>1 DEF Reaches
  <2>11. \A u \in Tabs : Sound(tab'[u], app) /\ Reaches(u)'
    <3>1. Reaches(t)'
      BY <2>1, <2>2, <2>7, <2>8 DEF Reaches
    <3> QED
      BY <1>u, <2>6, <2>7, <2>10, <3>1
  <2>12. HubInv'
    <3>1. loop'.kind = "idle"
      BY <2>1 DEF Idle
    <3>2. \A u \in Tabs : u \in hub'.subs <=> tab'[u].phase = "open"
      <4>1. \A u \in Tabs \ {t} : u \in hub.subs <=> tab'[u].phase = "open"
        BY <2>6 DEF FeedInv, HubInv
      <4> QED
        BY ONLY <2>2, <2>8, <4>1
    <3>3. PollsWhileWatched'
      BY <2>2 DEF PollsWhileWatched, Watched
    <3>4. \A u \in Tabs : tab'[u].phase # "joining"
      BY <1>u, <2>6, <2>8
    <3> QED
      BY <3>1, <3>2, <3>3, <3>4 DEF HubInv
  <2> QED
    BY <2>1, <2>9, <2>11, <2>12 DEF FeedInv, TabsInv
<1> QED
  BY <1>6, <1>7

\* The stop of the timer with the last subscriber.
LEMMA StopIfLastFacts ==
  ASSUME NEW h \in [head : 0..top, polling : BOOLEAN, subs : SUBSET Tabs, ghosts : Nat]
  PROVE  /\ StopIfLast(h) \in [head : 0..top, polling : BOOLEAN, subs : SUBSET Tabs, ghosts : Nat]
         /\ StopIfLast(h).head = h.head /\ StopIfLast(h).subs = h.subs
         /\ StopIfLast(h).ghosts = h.ghosts
         /\ StopIfLast(h).polling <=> h.polling /\ Watched(h)
<1> DEFINE b == h.polling /\ Watched(h)
<1>1. b \in BOOLEAN
  OBVIOUS
<1>2. StopIfLast(h) = [h EXCEPT !.polling = b]
  BY DEF StopIfLast
<1> HIDE DEF b
<1>3. /\ StopIfLast(h) \in [head : 0..top, polling : BOOLEAN, subs : SUBSET Tabs, ghosts : Nat]
      /\ StopIfLast(h).head = h.head /\ StopIfLast(h).subs = h.subs
      /\ StopIfLast(h).ghosts = h.ghosts /\ StopIfLast(h).polling = b
  BY <1>1, <1>2
<1> QED
  BY <1>3 DEF b

\* A page of the shared poll: a page of the events above the head, to everyone who was
\* sent what is below it.
LEMMA TickPageKeeps ==
  ASSUME FeedInv, TickPage
  PROVE  FeedInv'
<1>0. /\ top \in Nat /\ app \subseteq 1..top /\ app \in SUBSET Nat
      /\ hub.head \in Nat /\ hub.head <= top /\ hub.subs \in SUBSET Tabs
      /\ hub \in [head : 0..top, polling : BOOLEAN, subs : SUBSET Tabs, ghosts : Nat]
      /\ tab \in [Tabs -> TabType(app, top)] /\ UNCHANGED <<top, app>>
      /\ \A t \in Tabs : tab[t] \in TabType(app, top) /\ Sound(tab[t], app) /\ Reaches(t)
  BY ShapeFacts DEF TickPage, FeedInv, FeedShape, TabsInv
<1>i. /\ loop.kind # "catchUp" /\ \A t \in Tabs : tab[t].phase # "joining"
      /\ \A t \in Tabs : t \in hub.subs <=> tab[t].phase = "open"
      /\ PollsWhileWatched
  <2>1. loop = Ticking \/ loop = Idle
    BY DEF TickPage, InTick
  <2>2. loop.kind # "catchUp"
    BY <2>1 DEF Idle, Ticking
  <2> QED
    BY <2>2 DEF FeedInv, HubInv
<1>1. PICK P \in SUBSET app, failing \in SUBSET hub.subs :
        /\ IsPage(P, hub.head)
        /\ IF P = {}
           THEN /\ failing = {} /\ loop' = Idle /\ UNCHANGED <<hub, tab>>
           ELSE /\ \E last \in P :
                    /\ IsLast(last, P)
                    /\ hub' = StopIfLast([hub EXCEPT !.head = last, !.subs = hub.subs \ failing])
                /\ loop' = IF Watched(hub') /\ Cardinality(P) = PageSize THEN Ticking ELSE Idle
                /\ tab' = [t \in Tabs |->
                    IF t \in failing THEN [tab[t] EXCEPT !.phase = "closed"]
                    ELSE IF t \in hub.subs THEN [tab[t] EXCEPT !.pipe = Sent(tab[t].pipe, P)]
                    ELSE tab[t]]
  BY DEF TickPage
<1>l. loop' \in {Idle, Ticking} /\ loop'.kind # "catchUp"
  <2>1. loop' = Idle \/ loop' = Ticking
    <3> HIDE DEF Idle, Ticking
    <3> QED
      BY <1>1
  <2> QED
    BY <2>1 DEF Idle, Ticking
<1>2. CASE P = {}
  <2>1. UNCHANGED <<hub, tab>>
    BY <1>1, <1>2
  <2>2. FeedShape'
    BY <1>0, <1>l, <2>1 DEF FeedShape
  <2>3. TabsInv'
    BY <1>0, <1>i, <2>1 DEF TabsInv, Reaches
  <2>4. HubInv'
    BY <1>i, <1>l, <2>1 DEF HubInv, PollsWhileWatched, Watched
  <2> QED
    BY <2>2, <2>3, <2>4 DEF FeedInv
<1>3. CASE P # {}
  <2>1. PICK last \in P :
          /\ IsLast(last, P)
          /\ hub' = StopIfLast([hub EXCEPT !.head = last, !.subs = hub.subs \ failing])
    BY <1>1, <1>3
  <2>2. /\ last \in Nat /\ last \in 0..top /\ hub.head <= last
        /\ \A e \in P : hub.head < e /\ e <= last
        /\ \A d \in app : hub.head < d /\ d <= last => d \in P
    <3>1. /\ last \in app /\ hub.head < last
          /\ \A e \in P : hub.head < e /\ e <= last
          /\ \A d \in app : hub.head < d /\ d <= last => d \in P
      <4>1. IsPage(P, hub.head) /\ P \in SUBSET app
        BY <1>1
      <4> QED
        BY ONLY <1>0, <2>1, <4>1, PageFacts
    <3>2. last \in 0..top /\ last \in Nat
      BY <1>0, <3>1
    <3> QED
      BY <1>0, <3>1, <3>2
  <2>3. /\ hub' \in [head : 0..top, polling : BOOLEAN, subs : SUBSET Tabs, ghosts : Nat]
        /\ hub'.head = last /\ hub'.subs = hub.subs \ failing
        /\ hub'.polling <=> Watched(hub')
    <3> DEFINE h == [hub EXCEPT !.head = last, !.subs = hub.subs \ failing]
    <3>1. /\ h \in [head : 0..top, polling : BOOLEAN, subs : SUBSET Tabs, ghosts : Nat]
          /\ h.head = last /\ h.subs = hub.subs \ failing
          /\ h.ghosts = hub.ghosts /\ h.polling = hub.polling
      BY <1>0, <2>2
    <3>2. hub' = StopIfLast(h)
      BY <2>1
    <3> HIDE DEF h
    <3>3. /\ hub' \in [head : 0..top, polling : BOOLEAN, subs : SUBSET Tabs, ghosts : Nat]
          /\ hub'.head = last /\ hub'.subs = hub.subs \ failing
          /\ hub'.ghosts = hub.ghosts
          /\ hub'.polling <=> hub.polling /\ Watched(h)
      BY <3>1, <3>2, StopIfLastFacts
    <3>4. Watched(h) <=> Watched(hub')
      BY <3>1, <3>3 DEF Watched
    <3>5. Watched(hub') => hub.polling
      BY <1>i, <3>3 DEF Watched, PollsWhileWatched
    <3> QED
      BY <3>3, <3>4, <3>5
  <2>4. ASSUME NEW t \in failing
        PROVE tab'[t] \in TabType(app, top) /\ Sound(tab'[t], app) /\ tab'[t].phase = "closed"
    <3>1. t \in Tabs /\ tab[t].phase = "open" /\ tab'[t] = [tab[t] EXCEPT !.phase = "closed"]
      BY <1>0, <1>1, <1>3, <1>i
    <3> QED
      BY <1>0, <3>1, ClosedTab
  <2>5. ASSUME NEW t \in hub.subs \ failing
        PROVE /\ tab'[t] \in TabType(app, top) /\ Sound(tab'[t], app)
              /\ tab'[t].phase = "open" /\ SentUpTo(tab'[t], last, app)
    <3>1. t \in Tabs /\ tab[t].phase = "open" /\ tab[t] \in TabType(app, top)
          /\ Sound(tab[t], app) /\ SentUpTo(tab[t], hub.head, app)
      BY <1>0, <1>i DEF Reaches
    <3>2. tab'[t] = [tab[t] EXCEPT !.pipe = Sent(tab[t].pipe, P)]
      BY <1>1, <1>3, <3>1
    <3>3. tab'[t] = SentOn(tab[t], "open", P)
      BY <3>1, <3>2 DEF SentOn, TabType
    <3>4. Owed(tab[t], hub.head, last, P)
      BY <1>0, <2>2, <3>1 DEF Owed
    <3>5. "open" \in Phases /\ "open" \notin {"off", "waiting"}
      BY DEF Phases
    <3>6. tab'[t] \in TabType(app, top) /\ Sound(tab'[t], app) /\ SentUpTo(tab'[t], last, app)
      BY ONLY <3>3, <3>4, <3>5, SendOn
    <3>7. tab'[t].phase = "open"
      BY <3>1, <3>3 DEF SentOn, TabType
    <3> QED
      BY <3>6, <3>7
  <2>6. ASSUME NEW t \in Tabs \ hub.subs PROVE tab'[t] = tab[t] /\ tab[t].phase \notin {"open", "joining"}
    BY <1>1, <1>3, <1>i
  <2>7. FeedShape'
    <3>1. \A t \in Tabs : tab'[t] \in TabType(app, top)
      BY <1>0, <2>4, <2>5, <2>6
    <3>2. tab' \in [Tabs -> TabType(app, top)]
      BY <1>1, <1>3, <3>1
    <3> QED
      BY <1>0, <1>l, <2>3, <3>2 DEF FeedShape
  <2>8. TabsInv'
    <3> SUFFICES ASSUME NEW t \in Tabs PROVE Sound(tab'[t], app) /\ Reaches(t)'
      BY <1>0 DEF TabsInv
    <3>1. CASE t \in failing
      BY <2>4, <3>1 DEF Reaches
    <3>2. CASE t \in hub.subs \ failing
      BY <1>0, <2>3, <2>5, <3>2 DEF Reaches
    <3>3. CASE t \notin hub.subs
      BY <1>0, <2>6, <3>3 DEF Reaches
    <3> QED
      BY <3>1, <3>2, <3>3
  <2>9. HubInv'
    <3>1. ASSUME NEW t \in Tabs
          PROVE  (t \in hub'.subs <=> tab'[t].phase = "open") /\ tab'[t].phase # "joining"
      <4>1. CASE t \in failing
        BY <2>3, <2>4, <4>1
      <4>2. CASE t \in hub.subs \ failing
        BY <2>3, <2>5, <4>2
      <4>3. CASE t \notin hub.subs
        BY <2>3, <2>6, <4>3
      <4> QED
        BY <4>1, <4>2, <4>3
    <3> QED
      BY <1>l, <2>3, <3>1 DEF HubInv, PollsWhileWatched
  <2> QED
    BY <2>7, <2>8, <2>9 DEF FeedInv
<1> QED
  BY <1>2, <1>3

\* The API process ends or its read fails: every stream it closes keeps what it was sent.
LEMMA ClosingKeeps ==
  ASSUME FeedInv, UNCHANGED <<top, app>>, loop' = Idle, NEW closing \in SUBSET Tabs,
         hub' \in [head : 0..top, polling : BOOLEAN, subs : SUBSET Tabs, ghosts : Nat],
         ~hub'.polling, hub'.subs = {}, hub'.ghosts = 0,
         \A t \in Tabs : tab[t].phase \in {"joining", "open"} <=> t \in closing,
         tab' = [t \in Tabs |-> IF t \in closing THEN [tab[t] EXCEPT !.phase = "closed"] ELSE tab[t]]
  PROVE  FeedInv'
<1>0. \A t \in Tabs : tab[t] \in TabType(app, top) /\ Sound(tab[t], app)
  BY ShapeFacts DEF FeedInv, TabsInv
<1>1. ASSUME NEW t \in Tabs
      PROVE /\ tab'[t] \in TabType(app, top) /\ Sound(tab'[t], app)
            /\ tab'[t].phase \notin {"joining", "open"}
  <2>1. CASE t \in closing
    BY <1>0, <2>1, ClosedTab
  <2>2. CASE t \notin closing
    BY <1>0, <2>2
  <2> QED
    BY <2>1, <2>2
<1>2. FeedShape'
  <2>1. tab' \in [Tabs -> TabType(app, top)]
    BY <1>1
  <2> QED
    BY <2>1 DEF FeedInv, FeedShape
<1>3. TabsInv'
  BY <1>1 DEF TabsInv, Reaches
<1>4. HubInv'
  BY <1>1 DEF HubInv, PollsWhileWatched, Watched, Idle
<1> QED
  BY <1>2, <1>3, <1>4 DEF FeedInv

LEMMA TickFailsKeeps == ASSUME FeedInv, TickFails PROVE FeedInv'
<1>1. \A t \in Tabs : tab[t].phase \in {"joining", "open"} <=> t \in hub.subs
  BY DEF TickFails, InTick, FeedInv, HubInv, Idle, Ticking
<1>2. /\ hub' \in [head : 0..top, polling : BOOLEAN, subs : SUBSET Tabs, ghosts : Nat]
      /\ ~hub'.polling /\ hub'.subs = {} /\ hub'.ghosts = 0
  BY DEF TickFails, FeedInv, FeedShape
<1>3. hub.subs \in SUBSET Tabs
  BY DEF FeedInv, FeedShape
<1> QED
  BY <1>1, <1>2, <1>3, ClosingKeeps DEF TickFails

LEMMA ServerRestartKeeps == ASSUME FeedInv, ServerRestart PROVE FeedInv'
<1> DEFINE closing == {t \in Tabs : tab[t].phase \in {"joining", "open"}}
<1>1. tab' = [t \in Tabs |-> IF t \in closing THEN [tab[t] EXCEPT !.phase = "closed"] ELSE tab[t]]
  BY DEF ServerRestart
<1>2. /\ hub' \in [head : 0..top, polling : BOOLEAN, subs : SUBSET Tabs, ghosts : Nat]
      /\ ~hub'.polling /\ hub'.subs = {} /\ hub'.ghosts = 0
  BY DEF ServerRestart, FeedInv, FeedShape
<1>3. closing \in SUBSET Tabs /\ \A t \in Tabs : tab[t].phase \in {"joining", "open"} <=> t \in closing
  OBVIOUS
<1> HIDE DEF closing
<1> QED
  BY <1>1, <1>2, <1>3, ClosingKeeps DEF ServerRestart

LEMMA CancelledKeeps == ASSUME FeedInv, Cancelled PROVE FeedInv'
<1> DEFINE h == [hub EXCEPT !.ghosts = hub.ghosts - 1]
<1>1. /\ hub \in [head : 0..top, polling : BOOLEAN, subs : SUBSET Tabs, ghosts : Nat]
      /\ hub.ghosts > 0 /\ hub.polling /\ hub' = StopIfLast(h) /\ UNCHANGED <<top, app, loop, tab>>
      /\ loop.kind # "catchUp"
  BY DEF Cancelled, FeedInv, FeedShape, HubInv, PollsWhileWatched, Watched, Idle
<1>2. /\ h \in [head : 0..top, polling : BOOLEAN, subs : SUBSET Tabs, ghosts : Nat]
      /\ h.head = hub.head /\ h.subs = hub.subs /\ h.polling
  BY <1>1
<1> HIDE DEF h
<1>3. /\ hub' \in [head : 0..top, polling : BOOLEAN, subs : SUBSET Tabs, ghosts : Nat]
      /\ hub'.head = hub.head /\ hub'.subs = hub.subs /\ hub'.ghosts = h.ghosts
      /\ hub'.polling <=> Watched(h)
  BY <1>1, <1>2, StopIfLastFacts
<1>4. PollsWhileWatched'
  BY <1>2, <1>3 DEF PollsWhileWatched, Watched
<1>5. FeedShape'
  BY <1>1, <1>3 DEF FeedInv, FeedShape
<1>6. TabsInv'
  BY <1>1, <1>3 DEF FeedInv, TabsInv, Reaches, ReplayedTo
<1>7. HubInv'
  BY <1>1, <1>3, <1>4 DEF FeedInv, HubInv
<1> QED
  BY <1>5, <1>6, <1>7 DEF FeedInv

\* The steps of a tab change that tab, and perhaps the hub's subscriptions.
LEMMA LoadSnapshotKeeps ==
  ASSUME FeedInv, NEW t \in Tabs, LoadSnapshot(t)
  PROVE  FeedInv'
<1> DEFINE s == tab[t]
<1> DEFINE s2 == [s EXCEPT !.phase = "waiting", !.base = top, !.cursor = top]
<1>1. /\ s.phase = "off" /\ UNCHANGED <<top, app, hub, loop>>
      /\ tab' = [tab EXCEPT ![t] = s2]
  BY DEF LoadSnapshot
<1>2. /\ s \in TabType(app, top) /\ Sound(s, app) /\ s.pipe = <<>>
      /\ tab \in [Tabs -> TabType(app, top)] /\ top \in Nat /\ app \subseteq 1..top
  BY <1>1 DEF FeedInv, FeedShape, TabsInv, Sound
<1>3. /\ s2 \in TabType(app, top) /\ s2.phase = "waiting" /\ s2.pipe = <<>>
      /\ s2.base = top /\ s2.cursor = top /\ s2.seen = s.seen /\ s.seen \in SUBSET app
  <2>1. top \in 0..top
    BY <1>2
  <2> QED
    BY <1>2, <2>1 DEF TabType, Phases
<1> HIDE DEF s2
<1>4. Sound(s2, app)
  <2>1. \A e \in s.seen : e <= top
    <3>1. \A e \in app : e <= top
      BY <1>2
    <3> QED
      BY <1>3, <3>1
  <2>2. \A e \in app : ~(top < e /\ e <= top)
    BY <1>2
  <2>3. top <= top
    BY <1>2
  <2> QED
    BY <1>3, <2>1, <2>2, <2>3, EmptyPipe DEF Sound
<1>5. /\ tab'[t] = s2 /\ \A u \in Tabs \ {t} : tab'[u] = tab[u]
      /\ tab' \in [Tabs -> TabType(app, top)]
  BY <1>1, <1>2, <1>3
<1>6. FeedShape'
  BY <1>1, <1>5 DEF FeedInv, FeedShape
<1>7. TabsInv'
  BY <1>1, <1>3, <1>4, <1>5 DEF FeedInv, TabsInv, Reaches, ReplayedTo
<1>8. HubInv'
  BY <1>1, <1>3, <1>5 DEF FeedInv, HubInv, PollsWhileWatched, Watched
<1> QED
  BY <1>6, <1>7, <1>8 DEF FeedInv

LEMMA ReceiveKeeps ==
  ASSUME FeedInv, NEW t \in Tabs, Receive(t)
  PROVE  FeedInv'
<1> DEFINE s == tab[t]
<1>1. PICK e \in Head(s.pipe) :
        /\ \A d \in Head(s.pipe) : e <= d
        /\ tab' = [tab EXCEPT ![t] = Applied(s, e)]
  BY DEF Receive
<1>2. UNCHANGED <<top, app, hub, loop>> /\ s.pipe # <<>> /\ s.phase \in {"open", "closed"}
  BY DEF Receive, Delivered
<1>3. /\ s \in TabType(app, top) /\ Sound(s, app) /\ Reaches(t) /\ top \in Nat /\ app \subseteq 1..top
      /\ tab \in [Tabs -> TabType(app, top)] /\ hub.head \in Nat
  BY ShapeFacts DEF FeedInv, FeedShape, TabsInv
<1>4. /\ Applied(s, e) \in TabType(app, top) /\ Applied(s, e).phase = s.phase
      /\ Sound(Applied(s, e), app)
      /\ \A n \in Nat : SentUpTo(s, n, app) => SentUpTo(Applied(s, e), n, app)
  BY <1>1, <1>2, <1>3, TakeOn
<1>5. /\ tab'[t] = Applied(s, e) /\ \A u \in Tabs \ {t} : tab'[u] = tab[u]
      /\ tab' \in [Tabs -> TabType(app, top)]
  BY <1>1, <1>3, <1>4
<1>6. FeedShape'
  BY <1>2, <1>5 DEF FeedInv, FeedShape
<1>7. TabsInv'
  <2>1. Reaches(t)'
    BY <1>2, <1>3, <1>4, <1>5 DEF Reaches
  <2>2. \A u \in Tabs \ {t} : Sound(tab'[u], app) /\ Reaches(u)'
    BY <1>2, <1>5 DEF FeedInv, TabsInv, Reaches, ReplayedTo
  <2> QED
    BY <1>2, <1>4, <1>5, <2>1, <2>2 DEF TabsInv
<1>8. HubInv'
  BY <1>2, <1>4, <1>5 DEF FeedInv, HubInv, PollsWhileWatched, Watched
<1> QED
  BY <1>6, <1>7, <1>8 DEF FeedInv

LEMMA DropKeeps ==
  ASSUME FeedInv, NEW t \in Tabs, Drop(t)
  PROVE  FeedInv'
<1> DEFINE s2 == [tab[t] EXCEPT !.phase = "waiting", !.pipe = <<>>]
<1>1. /\ loop = Idle /\ UNCHANGED <<top, app, loop>> /\ tab[t].phase \in {"open", "closed"}
      /\ tab' = [tab EXCEPT ![t] = s2]
      /\ hub' = IF t \in hub.subs
                THEN [hub EXCEPT !.subs = hub.subs \ {t}, !.ghosts = hub.ghosts + 1] ELSE hub
  BY DEF Drop
<1>2. /\ tab[t] \in TabType(app, top) /\ Sound(tab[t], app) /\ tab \in [Tabs -> TabType(app, top)]
      /\ hub \in [head : 0..top, polling : BOOLEAN, subs : SUBSET Tabs, ghosts : Nat]
      /\ PollsWhileWatched
  BY DEF FeedInv, FeedShape, TabsInv, HubInv
<1>3. s2 \in TabType(app, top) /\ Sound(s2, app) /\ s2.phase = "waiting"
  BY <1>2, WaitingTab
<1> HIDE DEF s2
<1>4. /\ hub' \in [head : 0..top, polling : BOOLEAN, subs : SUBSET Tabs, ghosts : Nat]
      /\ hub'.head = hub.head /\ hub'.subs = hub.subs \ {t}
      /\ PollsWhileWatched'
  <2>1. CASE t \in hub.subs
    <3>1. /\ hub' \in [head : 0..top, polling : BOOLEAN, subs : SUBSET Tabs, ghosts : Nat]
          /\ hub'.head = hub.head /\ hub'.subs = hub.subs \ {t}
          /\ hub'.ghosts > 0 /\ hub'.polling = hub.polling
      <4> DEFINE n == hub.ghosts + 1
      <4>1. n \in Nat /\ n > 0 /\ hub.subs \ {t} \in SUBSET Tabs
        BY <1>2
      <4>2. hub' = [hub EXCEPT !.subs = hub.subs \ {t}, !.ghosts = n]
        BY <1>1, <2>1
      <4> HIDE DEF n
      <4> QED
        BY ONLY <1>2, <4>1, <4>2
    <3>2. hub.polling
      BY <1>2, <2>1 DEF PollsWhileWatched, Watched
    <3> QED
      BY <3>1, <3>2 DEF PollsWhileWatched, Watched
  <2>2. CASE t \notin hub.subs
    <3>1. hub' = hub /\ hub.subs = hub.subs \ {t}
      BY <1>1, <2>2
    <3> QED
      BY <1>2, <3>1 DEF PollsWhileWatched, Watched
  <2> QED
    BY <2>1, <2>2
<1>5. /\ tab'[t] = s2 /\ \A u \in Tabs \ {t} : tab'[u] = tab[u]
      /\ tab' \in [Tabs -> TabType(app, top)]
  BY <1>1, <1>2, <1>3
<1>6. FeedShape'
  BY <1>1, <1>4, <1>5 DEF FeedInv, FeedShape
<1>7. TabsInv'
  <2>1. \A u \in Tabs : Sound(tab[u], app) /\ Reaches(u) /\ tab[u].phase # "joining"
    BY <1>1 DEF FeedInv, TabsInv, HubInv, Idle
  <2> QED
    BY <1>1, <1>3, <1>4, <1>5, <2>1 DEF TabsInv, Reaches
<1>8. HubInv'
  <2>1. loop'.kind # "catchUp" /\ \A u \in Tabs : tab[u].phase # "joining"
    BY <1>1 DEF FeedInv, HubInv, Idle
  <2>2. \A u \in Tabs : u \in hub'.subs <=> tab'[u].phase = "open"
    <3>1. \A u \in Tabs : u \in hub.subs <=> tab[u].phase = "open"
      BY DEF FeedInv, HubInv
    <3> QED
      BY <1>3, <1>4, <1>5, <3>1
  <2>3. \A u \in Tabs : tab'[u].phase # "joining"
    BY <1>3, <1>5, <2>1
  <2> QED
    BY <1>4, <2>1, <2>2, <2>3 DEF HubInv
<1> QED
  BY <1>6, <1>7, <1>8 DEF FeedInv

LEMMA StreamEndsKeeps ==
  ASSUME FeedInv, NEW t \in Tabs, StreamEnds(t)
  PROVE  FeedInv'
<1> DEFINE s2 == [tab[t] EXCEPT !.phase = "waiting", !.pipe = <<>>]
<1>1. /\ UNCHANGED <<top, app, hub, loop>> /\ tab[t].phase = "closed"
      /\ tab[t] \in TabType(app, top) /\ Sound(tab[t], app) /\ tab \in [Tabs -> TabType(app, top)]
  BY DEF StreamEnds, FeedInv, FeedShape, TabsInv
<1>2. tab' = [tab EXCEPT ![t] = s2]
  <2>1. tab[t].pipe = <<>> /\ tab' = [tab EXCEPT ![t] = [tab[t] EXCEPT !.phase = "waiting"]]
    BY DEF StreamEnds
  <2>2. [tab[t] EXCEPT !.phase = "waiting"] = s2
    BY <1>1, <2>1 DEF TabType
  <2> QED
    BY <2>1, <2>2
<1>3. s2 \in TabType(app, top) /\ Sound(s2, app) /\ s2.phase = "waiting"
  BY <1>1, WaitingTab
<1> HIDE DEF s2
<1>4. /\ tab'[t] = s2 /\ \A u \in Tabs \ {t} : tab'[u] = tab[u]
      /\ tab' \in [Tabs -> TabType(app, top)]
  BY <1>1, <1>2, <1>3
<1>5. FeedShape'
  BY <1>1, <1>4 DEF FeedInv, FeedShape
<1>6. TabsInv'
  BY <1>1, <1>3, <1>4 DEF FeedInv, TabsInv, Reaches, ReplayedTo
<1>7. HubInv'
  BY <1>1, <1>3, <1>4 DEF FeedInv, HubInv, PollsWhileWatched, Watched
<1> QED
  BY <1>5, <1>6, <1>7 DEF FeedInv

-----------------------------------------------------------------------------
LEMMA FeedStepInv == FeedInv /\ [FeedNext]_feedVars => FeedInv'
<1> SUFFICES ASSUME FeedInv, [FeedNext]_feedVars PROVE FeedInv'
  OBVIOUS
<1>1. ASSUME NEW carried \in BOOLEAN, AppendEvent(carried) PROVE FeedInv'
  BY <1>1, AppendKeeps
<1>2. CASE CatchUpPage
  BY <1>2, CatchUpPageKeeps
<1>3. CASE CatchUpFails
  BY <1>3, CatchUpFailsKeeps
<1>4. CASE TickPage
  BY <1>4, TickPageKeeps
<1>5. CASE TickFails
  BY <1>5, TickFailsKeeps
<1>6. CASE Cancelled
  BY <1>6, CancelledKeeps
<1>7. CASE ServerRestart
  BY <1>7, ServerRestartKeeps
<1>8. ASSUME NEW t \in Tabs, LoadSnapshot(t) PROVE FeedInv'
  BY <1>8, LoadSnapshotKeeps
<1>9. ASSUME NEW t \in Tabs, Subscribe(t) PROVE FeedInv'
  BY <1>9, SubscribeKeeps
<1>10. ASSUME NEW t \in Tabs, Receive(t) PROVE FeedInv'
  BY <1>10, ReceiveKeeps
<1>11. ASSUME NEW t \in Tabs, Drop(t) PROVE FeedInv'
  BY <1>11, DropKeeps
<1>12. ASSUME NEW t \in Tabs, StreamEnds(t) PROVE FeedInv'
  BY <1>12, StreamEndsKeeps
<1>13. CASE UNCHANGED feedVars
  BY <1>13 DEF feedVars, FeedInv, FeedShape, TabsInv, Reaches, ReplayedTo, HubInv,
     PollsWhileWatched, Watched
<1> QED
  BY <1>1, <1>2, <1>3, <1>4, <1>5, <1>6, <1>7, <1>8, <1>9, <1>10, <1>11, <1>12, <1>13 DEF FeedNext

LEMMA FeedInvariant == FeedSpec => []FeedInv
BY FeedInitInv, FeedStepInv, PTL DEF FeedSpec

\* Any number of tabs, events and faults, any page size: a tab's cursor never passes an
\* event it has not applied.
THEOREM CursorsLeaveNoGap == FeedSpec => []NoGap
<1>1. FeedInv => NoGap
  BY DEF FeedInv, TabsInv, Sound, NoGap
<1> QED
  BY <1>1, FeedInvariant, PTL

\* What one connection carries is in ascending order, each event once.
THEOREM ConnectionsAscend == FeedSpec => []StreamAscends
<1>1. FeedInv => StreamAscends
  BY DEF FeedInv, TabsInv, Sound, StreamAscends
<1> QED
  BY <1>1, FeedInvariant, PTL

\* The poll runs exactly while there is somebody to send to.
THEOREM HubPollsWhileWatched == FeedSpec => []PollsWhileWatched
<1>1. FeedInv => PollsWhileWatched
  BY DEF FeedInv, HubInv
<1> QED
  BY <1>1, FeedInvariant, PTL
=============================================================================
