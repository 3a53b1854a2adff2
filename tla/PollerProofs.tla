---------------------------- MODULE PollerProofs ----------------------------
(***************************************************************************)
(* What the poller's operations do to its items, for any PIDs, intervals   *)
(* and times: the lemmas that the plugins' proofs rest on.                 *)
(***************************************************************************)
EXTENDS Poller, SequenceTheorems, WellFoundedInduction, TLAPS

\* Every nonempty set of natural numbers has a least element.
LEMMA LeastNat ==
    ASSUME NEW T, T \subseteq Nat, T # {}
    PROVE  \E x \in T : \A y \in T : x <= y
<1> DEFINE Q == OpToRel(<, Nat)
<1>1. IsWellFoundedOn(Q, Nat)
  BY NatLessThanWellFounded
<1>2. \A x, y \in Nat : <<y, x>> \in Q <=> y < x
  BY DEF OpToRel
<1> HIDE DEF Q
<1>3. PICK x \in T : \A y \in T : ~ (<<y, x>> \in Q)
  BY <1>1, WFMin
<1>4. \A y \in T : x <= y
  <2> TAKE y \in T
  <2>1. x \in Nat /\ y \in Nat
    OBVIOUS
  <2>2. ~ (y < x)
    BY <1>2, <1>3, <2>1, Zenon
  <2>3. QED
    BY <2>1, <2>2
<1>5. QED
  BY <1>4

LEMMA MinOf ==
    ASSUME NEW T, T \subseteq Nat, T # {}
    PROVE  Min(T) \in T /\ \A y \in T : Min(T) <= y
BY LeastNat DEF Min

\* The smaller and the larger of two numbers.
LEMMA MinMaxOfTwo ==
    ASSUME NEW a \in Int, NEW b \in Int
    PROVE  /\ Max({a, b}) = IF a >= b THEN a ELSE b
           /\ Min({a, b}) = IF a <= b THEN a ELSE b
<1>1. \E x \in {a, b} : \A y \in {a, b} : x >= y
  OBVIOUS
<1>2. \E x \in {a, b} : \A y \in {a, b} : x <= y
  OBVIOUS
<1>3. Max({a, b}) \in {a, b} /\ \A y \in {a, b} : Max({a, b}) >= y
  BY <1>1 DEF Max
<1>4. Min({a, b}) \in {a, b} /\ \A y \in {a, b} : Min({a, b}) <= y
  BY <1>2 DEF Min
<1> QED
  BY <1>3, <1>4
-----------------------------------------------------------------------------
\* The items of a poller for the PIDs of a set, and a poller with each PID once.
Items(pids) == [pid: pids, interval: Nat \ {0}, due: Nat, lastAnswer: Nat \cup {-1}]

PollerOk(p, pids) ==
    /\ p \in [items: Seq(Items(pids)), unanswered: Nat]
    /\ \A i, j \in 1 .. Len(p.items) : p.items[i].pid = p.items[j].pid => i = j

LEMMA ProductIsInt == ASSUME NEW a \in Nat, NEW b \in Nat PROVE a * b \in Int
OBVIOUS

LEMMA ItemFacts ==
    ASSUME NEW pids, NEW p, PollerOk(p, pids)
    PROVE  /\ Len(p.items) \in Nat /\ DOMAIN p.items = 1 .. Len(p.items)
           /\ \A i \in 1 .. Len(p.items) :
                 /\ p.items[i].pid \in pids /\ p.items[i].pid \in PidsOf(p)
                 /\ p.items[i].interval \in Nat /\ p.items[i].interval > 0
                 /\ p.items[i].due \in Nat
                 /\ p.items[i].lastAnswer \in Nat \cup {-1}
           /\ p.unanswered \in Nat
           /\ PidsOf(p) \subseteq pids
<1>1. p.items \in Seq(Items(pids)) /\ p.unanswered \in Nat
  BY DEF PollerOk
<1>2. Len(p.items) \in Nat /\ DOMAIN p.items = 1 .. Len(p.items)
      /\ \A i \in 1 .. Len(p.items) : p.items[i] \in Items(pids)
  BY <1>1
<1>3. ASSUME NEW i \in 1 .. Len(p.items)
      PROVE  /\ p.items[i].pid \in pids /\ p.items[i].pid \in PidsOf(p)
             /\ p.items[i].interval \in Nat /\ p.items[i].interval > 0
             /\ p.items[i].due \in Nat
             /\ p.items[i].lastAnswer \in Nat \cup {-1}
  <2>1. p.items[i] \in Items(pids) /\ i \in DOMAIN p.items
    BY <1>2
  <2>2. p.items[i].pid \in PidsOf(p)
    BY <2>1, Zenon DEF PidsOf
  <2> QED
    BY <2>1, <2>2 DEF Items
<1>4. PidsOf(p) \subseteq pids
  BY <1>2, <1>3 DEF PidsOf
<1> QED
  BY <1>1, <1>2, <1>3, <1>4

\* A PID that is polled is found.
LEMMA FindFacts ==
    ASSUME NEW pids, NEW p, PollerOk(p, pids), NEW pid \in PidsOf(p)
    PROVE  /\ find(p, pid) \in 1 .. Len(p.items)
           /\ p.items[find(p, pid)].pid = pid
           /\ \A i \in 1 .. Len(p.items) : p.items[i].pid = pid => i = find(p, pid)
<1> DEFINE n == Len(p.items)
           T == {i \in 1 .. n : p.items[i].pid = pid}
<1>1. n \in Nat /\ DOMAIN p.items = 1 .. n
  BY ItemFacts
<1>2. T # {} /\ T \subseteq Nat
  BY <1>1 DEF PidsOf
<1>3. PICK x \in T : \A y \in T : x <= y
  BY <1>2, LeastNat
<1>4. \A j \in 1 .. (x - 1) : p.items[j].pid # pid
  <2> SUFFICES ASSUME NEW j \in 1 .. (x - 1), p.items[j].pid = pid
               PROVE  FALSE
    OBVIOUS
  <2>1. j \in T /\ j < x
    BY <1>1
  <2> QED
    BY <1>3, <2>1
<1>5. find(p, pid) \in DOMAIN p.items /\ p.items[find(p, pid)].pid = pid
  BY <1>1, <1>3, <1>4 DEF find
<1> QED
  BY <1>1, <1>5 DEF PollerOk

\* How overdue items are is a total order: what is behind the best so far is behind
\* whatever is ahead of that.
LEMMA OverdueOrder ==
    ASSUME NEW a \in Nat, NEW b \in Nat, NEW c \in Nat,
           NEW i \in Nat, NEW j \in Nat, NEW k \in Nat, i > 0, j > 0, k > 0,
           a * j > b * i, ~ (c * j > b * k)
    PROVE  a * k > c * i
<1> DEFINE aj == a * j  bi == b * i  cj == c * j  bk == b * k
<1>1. aj \in Nat /\ bi \in Nat /\ cj \in Nat /\ bk \in Nat /\ aj >= bi + 1 /\ bk >= cj
  OBVIOUS
<1>2. aj * k >= (bi + 1) * k
  BY <1>1
<1>3. bk * i >= cj * i
  BY <1>1
<1>4. (bi + 1) * k = bk * i + k
  OBVIOUS
<1>5. aj * k = j * (a * k) /\ cj * i = j * (c * i)
  OBVIOUS
<1> DEFINE x == a * k  y == c * i
<1>6. x \in Nat /\ y \in Nat
  OBVIOUS
<1>7. j * x > j * y
  <2>1. aj * k \in Nat /\ cj * i \in Nat /\ bk * i \in Nat /\ (bi + 1) * k \in Nat
    BY <1>1
  <2> HIDE DEF aj, bi, cj, bk, x, y
  <2> QED
    BY <1>2, <1>3, <1>4, <1>5, <2>1 DEF x, y
<1> HIDE DEF x, y
<1>8. x > y
  <2> SUFFICES ASSUME x <= y
               PROVE  FALSE
    BY <1>6
  <2>1. j * x <= j * y
    BY <1>6
  <2>2. j * x \in Nat /\ j * y \in Nat
    BY <1>6
  <2> QED
    BY <1>7, <2>1, <2>2
<1> QED
  BY <1>8 DEF x, y
\* The item that nextDue chooses exists: the first of the most overdue ones.
LEMMA BestExists ==
    ASSUME NEW pids, NEW p, PollerOk(p, pids), NEW t \in Nat, DueItems(p, t) # {}
    PROVE  \E i \in DueItems(p, t) : MostOverdue(p, t, i)
<1> DEFINE n == Len(p.items)
           Due == DueItems(p, t)
           Best(b, k) == /\ b \in Due /\ b <= k
                         /\ \A j \in Due :
                               j <= k => /\ ~MoreOverdue(t, p.items[j], p.items[b])
                                         /\ j < b => MoreOverdue(t, p.items[b], p.items[j])
           P(k) == (\A j \in Due : ~ (j <= k)) \/ \E b \in Due : Best(b, k)
           T == {k \in 0 .. n : ~P(k)}
<1>1. n \in Nat /\ Due \subseteq 1 .. n
      /\ \A i \in 1 .. n : /\ p.items[i].interval \in Nat /\ p.items[i].interval > 0
                           /\ p.items[i].due \in Nat
  BY ItemFacts DEF DueItems
<1>2. \A i \in Due : t - p.items[i].due \in Nat
  BY <1>1 DEF DueItems
<1> HIDE DEF Due
<1>3. P(0)
  BY <1>1
<1>4. ASSUME NEW k \in 0 .. n, k # 0, P(k - 1)
      PROVE  P(k)
  <2>0. k - 1 \in Nat /\ k \in Nat /\ \A j \in Due : j \in Nat /\ (j <= k <=> j <= k - 1 \/ j = k)
    BY <1>1, <1>4
  <2>1. CASE k \notin Due
    <3>1. \A j \in Due : j <= k <=> j <= k - 1
      BY <2>0, <2>1
    <3> QED
      BY <1>4, <3>1
  <2>2. CASE k \in Due /\ \A j \in Due : ~ (j <= k - 1)
    <3>1. ~MoreOverdue(t, p.items[k], p.items[k])
      BY <1>1, <1>2, <2>2 DEF MoreOverdue
    <3>2. \A j \in Due : j <= k => j = k
      BY <2>0, <2>2
    <3>3. k <= k /\ ~ (k < k)
      BY <2>0
    <3>4. Best(k, k)
      BY <2>2, <3>1, <3>2, <3>3
    <3> QED
      BY <2>2, <3>4
  <2>3. ASSUME k \in Due, NEW b \in Due, Best(b, k - 1)
        PROVE  P(k)
    <3>1. CASE MoreOverdue(t, p.items[k], p.items[b])
      <4>1. ASSUME NEW j \in Due, j <= k - 1
            PROVE  MoreOverdue(t, p.items[k], p.items[j])
        <5>1. ~MoreOverdue(t, p.items[j], p.items[b])
          BY <2>3, <4>1
        <5>2. /\ t - p.items[k].due \in Nat /\ t - p.items[b].due \in Nat
              /\ t - p.items[j].due \in Nat
              /\ p.items[k].interval \in Nat /\ p.items[b].interval \in Nat
              /\ p.items[j].interval \in Nat /\ p.items[k].interval > 0
              /\ p.items[b].interval > 0 /\ p.items[j].interval > 0
          BY <1>1, <1>2, <2>3
        <5> QED
          BY <3>1, <5>1, <5>2, OverdueOrder DEF MoreOverdue
      <4>2. ASSUME NEW j \in Due, j <= k - 1
            PROVE  ~MoreOverdue(t, p.items[j], p.items[k])
        <5>1. MoreOverdue(t, p.items[k], p.items[j])
          BY <4>1, <4>2
        <5>2. /\ (t - p.items[k].due) * p.items[j].interval \in Int
              /\ (t - p.items[j].due) * p.items[k].interval \in Int
          <6>1. /\ t - p.items[k].due \in Nat /\ t - p.items[j].due \in Nat
                /\ p.items[k].interval \in Nat /\ p.items[j].interval \in Nat
            BY <1>1, <1>2, <2>3
          <6> QED
            BY <6>1, ProductIsInt, Zenon
        <5> QED
          BY <5>1, <5>2 DEF MoreOverdue
      <4>3. ~MoreOverdue(t, p.items[k], p.items[k])
        BY <1>1, <1>2, <2>3 DEF MoreOverdue
      <4>4. Best(k, k)
        BY <2>0, <2>3, <4>1, <4>2, <4>3
      <4> QED
        BY <2>3, <4>4
    <3>2. CASE ~MoreOverdue(t, p.items[k], p.items[b])
      <4>1. b <= k /\ ~ (k < b)
        BY <2>0, <2>3
      <4>2. Best(b, k)
        BY <2>0, <2>3, <3>2, <4>1
      <4> QED
        BY <4>2
    <3> QED
      BY <3>1, <3>2
  <2> QED
    BY <1>4, <2>1, <2>2, <2>3
<1>5. P(n)
  <2> HIDE DEF P
  <2> SUFFICES ASSUME T # {}
               PROVE  FALSE
    BY <1>1
  <2>1. T \subseteq Nat
    BY <1>1
  <2>2. PICK k \in T : \A y \in T : k <= y
    BY <2>1, LeastNat
  <2>3. k \in 0 .. n /\ ~P(k) /\ k # 0
    BY <1>3
  <2>4. k - 1 \in 0 .. n /\ ~ (k <= k - 1)
    BY <1>1, <2>3
  <2>5. P(k - 1)
    BY <2>2, <2>4
  <2> QED
    BY <1>4, <2>3, <2>5
<1>6. PICK b \in Due : Best(b, n)
  <2>1. Due # {} /\ \A j \in Due : j <= n
    BY <1>1 DEF Due
  <2> QED
    BY <1>5, <2>1
<1>7. \A j \in Due : j <= n
  BY <1>1
<1> QED
  BY <1>6, <1>7 DEF Due, MostOverdue

\* nextDue names a PID that is polled and due.
LEMMA NextDueFacts ==
    ASSUME NEW pids, NEW p, PollerOk(p, pids), NEW t \in Nat, DueItems(p, t) # {}
    PROVE  \E i \in 1 .. Len(p.items) : /\ nextDue(p, t) = p.items[i].pid
                                        /\ p.items[i].due <= t
<1> DEFINE c == CHOOSE i \in DueItems(p, t) : MostOverdue(p, t, i)
<1>1. \E i \in DueItems(p, t) : MostOverdue(p, t, i)
  BY BestExists
<1>2. nextDue(p, t) = p.items[c].pid
  BY DEF nextDue
<1>3. c \in DueItems(p, t)
  BY <1>1
<1> HIDE DEF c
<1> QED
  BY <1>2, <1>3, ItemFacts DEF DueItems

\* Of two due items the one with the shorter interval that is due no later is at least
\* as overdue.
LEMMA SoonerOverdue ==
    ASSUME NEW a \in Nat, NEW b \in Nat, NEW i \in Nat, NEW j \in Nat, a <= b, i <= j
    PROVE  ~ (a * i > b * j)
<1> DEFINE x == b - a
           y == j - i
<1>1. x \in Nat /\ y \in Nat /\ b = a + x /\ j = i + y
  OBVIOUS
<1> HIDE DEF x, y
<1>2. b * j = a * i + (a * y + x * j)
  <2>1. (a + x) * j = a * j + x * j /\ a * (i + y) = a * i + a * y
    BY <1>1
  <2>2. a * j \in Nat /\ x * j \in Nat /\ a * i \in Nat /\ a * y \in Nat
    BY <1>1
  <2> QED
    BY <1>1, <2>1, <2>2
<1>3. a * i \in Nat /\ a * y \in Nat /\ x * j \in Nat
  BY <1>1
<1> QED
  BY <1>2, <1>3

\* nextDue passes over the first item, if no interval is shorter than its own, only for
\* one that is due earlier.
LEMMA FirstGoesFirst ==
    ASSUME NEW pids, NEW p, PollerOk(p, pids), NEW t \in Nat, DueItems(p, t) # {},
           NEW k \in 1 .. Len(p.items), nextDue(p, t) = p.items[k].pid, k # 1,
           \A i \in 1 .. Len(p.items) : p.items[1].interval <= p.items[i].interval
    PROVE  p.items[k].due < p.items[1].due
<1> DEFINE c == CHOOSE i \in DueItems(p, t) : MostOverdue(p, t, i)
<1>1. \E i \in DueItems(p, t) : MostOverdue(p, t, i)
  BY BestExists
<1>2. nextDue(p, t) = p.items[c].pid
  BY DEF nextDue
<1>3. c \in DueItems(p, t) /\ MostOverdue(p, t, c)
  BY <1>1
<1> HIDE DEF c
<1>4. Len(p.items) \in Nat /\ DOMAIN p.items = 1 .. Len(p.items)
  BY ItemFacts
<1>5. c = k
  BY <1>2, <1>3, <1>4 DEF DueItems, PollerOk
<1>6. 1 \in 1 .. Len(p.items) /\ 1 < k
  BY <1>4
<1>7. /\ p.items[1].due \in Nat /\ p.items[k].due \in Nat
      /\ p.items[1].interval \in Nat /\ p.items[k].interval \in Nat
      /\ p.items[1].interval <= p.items[k].interval
  BY <1>6, ItemFacts
<1>8. p.items[k].due <= t
  BY <1>3, <1>5, <1>7 DEF DueItems
<1>9. CASE p.items[1].due > t
  BY <1>7, <1>8, <1>9
<1>10. CASE p.items[1].due <= t
  <2>1. 1 \in DueItems(p, t)
    BY <1>4, <1>6, <1>7, <1>10 DEF DueItems
  <2>2. MoreOverdue(t, p.items[k], p.items[1])
    BY <1>3, <1>5, <1>6, <2>1 DEF MostOverdue
  <2> DEFINE a == t - p.items[k].due
             b == t - p.items[1].due
  <2>3. a \in Nat /\ b \in Nat
    BY <1>7, <1>8, <1>10, SMTT(30)
  <2>4. a * p.items[1].interval > b * p.items[k].interval
    BY <2>2 DEF MoreOverdue
  <2>5. ~ (a <= b)
    <3> HIDE DEF a, b
    <3> QED
      BY <1>7, <2>3, <2>4, SoonerOverdue
  <2> QED
    BY <1>7, <1>8, <1>10, <2>5
<1> QED
  BY <1>7, <1>9, <1>10
-----------------------------------------------------------------------------
\* Items with new deadlines or answers, in their places, are a poller still.
LEMMA SameItems ==
    ASSUME NEW pids, NEW p, PollerOk(p, pids),
           NEW q, q \in [items: Seq(Items(pids)), unanswered: Nat],
           Len(q.items) = Len(p.items),
           \A i \in 1 .. Len(p.items) : q.items[i].pid = p.items[i].pid
    PROVE  PollerOk(q, pids) /\ PidsOf(q) = PidsOf(p)
<1>1. /\ DOMAIN p.items = 1 .. Len(p.items) /\ Len(p.items) \in Nat
      /\ DOMAIN q.items = 1 .. Len(p.items)
  <2>1. p.items \in Seq(Items(pids)) /\ q.items \in Seq(Items(pids))
    BY DEF PollerOk
  <2> QED
    BY <2>1
<1>2. PidsOf(q) = PidsOf(p)
  BY <1>1 DEF PidsOf
<1>3. PollerOk(q, pids)
  BY <1>1 DEF PollerOk
<1> QED
  BY <1>2, <1>3

\* markRequested moves the deadline of the PID's item by its interval, and counts.
LEMMA MarkRequestedFacts ==
    ASSUME NEW pids, NEW p, PollerOk(p, pids), NEW pid \in PidsOf(p), NEW t \in Nat
    PROVE  LET q == markRequested(p, pid, t)
           IN  /\ PollerOk(q, pids) /\ PidsOf(q) = PidsOf(p)
               /\ Len(q.items) = Len(p.items)
               /\ q.unanswered = p.unanswered + 1
               /\ \A i \in 1 .. Len(p.items) :
                     /\ q.items[i].pid = p.items[i].pid
                     /\ q.items[i].interval = p.items[i].interval
                     /\ q.items[i].lastAnswer = p.items[i].lastAnswer
                     /\ q.items[i].due = IF p.items[i].pid = pid
                                         THEN t + p.items[i].interval
                                         ELSE p.items[i].due
<1> DEFINE q == markRequested(p, pid, t)
           f == find(p, pid)
           item == [p.items[f] EXCEPT !.due = t + p.items[f].interval]
<1>1. /\ f \in 1 .. Len(p.items)
      /\ \A i \in 1 .. Len(p.items) : p.items[i].pid = pid <=> i = f
  BY FindFacts
<1>2. p \in [items: Seq(Items(pids)), unanswered: Nat]
  BY DEF PollerOk
<1>3. p.items \in Seq(Items(pids)) /\ p.unanswered \in Nat
  BY <1>2
<1>4. /\ p.items[f] \in Items(pids) /\ item \in Items(pids)
      /\ item.pid = p.items[f].pid /\ item.interval = p.items[f].interval
      /\ item.lastAnswer = p.items[f].lastAnswer /\ item.due = t + p.items[f].interval
  <2>1. p.items[f] \in Items(pids)
    BY <1>1, <1>3
  <2> QED
    BY <2>1 DEF Items
<1>5. q = [p EXCEPT !.items = [@ EXCEPT ![f] = item], !.unanswered = @ + 1]
  BY <1>2 DEF markRequested
<1> HIDE DEF f, item, q
<1>6. /\ q.items = [p.items EXCEPT ![f] = item] /\ q.unanswered = p.unanswered + 1
      /\ q = [items |-> q.items, unanswered |-> q.unanswered]
  BY <1>2, <1>5
<1>7. q.items \in Seq(Items(pids)) /\ Len(q.items) = Len(p.items)
  BY <1>1, <1>3, <1>4, <1>6
<1>8. \A i \in 1 .. Len(p.items) : q.items[i] = IF i = f THEN item ELSE p.items[i]
  BY <1>1, <1>3, <1>6
<1>9. q \in [items: Seq(Items(pids)), unanswered: Nat]
  <2>1. q.unanswered \in Nat
    BY <1>3, <1>6
  <2> QED
    BY <1>6, <1>7, <2>1
<1>10. PollerOk(q, pids) /\ PidsOf(q) = PidsOf(p)
  BY <1>4, <1>7, <1>8, <1>9, SameItems
<1> QED
  BY <1>1, <1>4, <1>6, <1>7, <1>8, <1>10 DEF q

\* markAnswered sets the time of the PID's last answer, and ends the streak.
LEMMA MarkAnsweredFacts ==
    ASSUME NEW pids, NEW p, PollerOk(p, pids), NEW pid \in PidsOf(p), NEW t \in Nat
    PROVE  LET q == markAnswered(p, pid, t)
           IN  /\ PollerOk(q, pids) /\ PidsOf(q) = PidsOf(p)
               /\ Len(q.items) = Len(p.items)
               /\ q.unanswered = 0
               /\ \A i \in 1 .. Len(p.items) :
                     /\ q.items[i].pid = p.items[i].pid
                     /\ q.items[i].interval = p.items[i].interval
                     /\ q.items[i].due = p.items[i].due
                     /\ q.items[i].lastAnswer = IF p.items[i].pid = pid THEN t
                                                ELSE p.items[i].lastAnswer
<1> DEFINE q == markAnswered(p, pid, t)
           f == find(p, pid)
           item == [p.items[f] EXCEPT !.lastAnswer = t]
<1>1. /\ f \in 1 .. Len(p.items)
      /\ \A i \in 1 .. Len(p.items) : p.items[i].pid = pid <=> i = f
  BY FindFacts
<1>2. p \in [items: Seq(Items(pids)), unanswered: Nat]
  BY DEF PollerOk
<1>3. p.items \in Seq(Items(pids)) /\ p.unanswered \in Nat
  BY <1>2
<1>4. /\ p.items[f] \in Items(pids) /\ item \in Items(pids)
      /\ item.pid = p.items[f].pid /\ item.interval = p.items[f].interval
      /\ item.due = p.items[f].due /\ item.lastAnswer = t
  <2>1. p.items[f] \in Items(pids)
    BY <1>1, <1>3
  <2> QED
    BY <2>1 DEF Items
<1>5. q = [p EXCEPT !.items = [@ EXCEPT ![f] = item], !.unanswered = 0]
  BY <1>2 DEF markAnswered
<1> HIDE DEF f, item, q
<1>6. /\ q.items = [p.items EXCEPT ![f] = item] /\ q.unanswered = 0
      /\ q = [items |-> q.items, unanswered |-> q.unanswered]
  BY <1>2, <1>5
<1>7. q.items \in Seq(Items(pids)) /\ Len(q.items) = Len(p.items)
  BY <1>1, <1>3, <1>4, <1>6
<1>8. \A i \in 1 .. Len(p.items) : q.items[i] = IF i = f THEN item ELSE p.items[i]
  BY <1>1, <1>3, <1>6
<1>9. q \in [items: Seq(Items(pids)), unanswered: Nat]
  <2>1. q.unanswered \in Nat
    BY <1>3, <1>6
  <2> QED
    BY <1>6, <1>7, <2>1
<1>10. PollerOk(q, pids) /\ PidsOf(q) = PidsOf(p)
  BY <1>4, <1>7, <1>8, <1>9, SameItems
<1> QED
  BY <1>1, <1>4, <1>6, <1>7, <1>8, <1>10 DEF q

\* The items after an add are the ones before it and, at the end, a new one whose
\* deadline is in the past.
LEMMA AddFacts ==
    ASSUME NEW pids, NEW p, PollerOk(p, pids), NEW pid \in pids, pid \notin PidsOf(p),
           NEW iv \in Nat \ {0}
    PROVE  LET q == add(p, pid, iv)
           IN  /\ PollerOk(q, pids) /\ PidsOf(q) = PidsOf(p) \cup {pid}
               /\ q.unanswered = p.unanswered
               /\ Len(q.items) = Len(p.items) + 1
               /\ \A i \in 1 .. Len(p.items) : q.items[i] = p.items[i]
               /\ q.items[Len(p.items) + 1]
                     = [pid |-> pid, interval |-> iv, due |-> 0, lastAnswer |-> -1]
<1> DEFINE q == add(p, pid, iv)
           new == [pid |-> pid, interval |-> iv, due |-> 0, lastAnswer |-> -1]
           n == Len(p.items)
<1>1. p \in [items: Seq(Items(pids)), unanswered: Nat]
  BY DEF PollerOk
<1>2. p.items \in Seq(Items(pids)) /\ p.unanswered \in Nat /\ n \in Nat
      /\ DOMAIN p.items = 1 .. n
  BY <1>1
<1>3. new \in Items(pids) /\ new.pid = pid
  BY DEF Items
<1>4. q = [p EXCEPT !.items = Append(@, new)]
  BY DEF add
<1> HIDE DEF q, new
<1>5. /\ q.items = Append(p.items, new) /\ q.unanswered = p.unanswered
      /\ q = [items |-> q.items, unanswered |-> q.unanswered]
  BY <1>1, <1>4
<1>6. q.items \in Seq(Items(pids)) /\ Len(q.items) = n + 1 /\ q.items[n + 1] = new
      /\ \A i \in 1 .. n : q.items[i] = p.items[i]
  BY <1>2, <1>3, <1>5
<1>7. q \in [items: Seq(Items(pids)), unanswered: Nat]
  BY <1>2, <1>5, <1>6
<1>8. \A i \in 1 .. n : p.items[i].pid # pid
  BY ItemFacts
<1>9. DOMAIN q.items = 1 .. (n + 1)
  BY <1>6
<1>10. PollerOk(q, pids)
  <2> SUFFICES ASSUME NEW i \in 1 .. (n + 1), NEW j \in 1 .. (n + 1),
                      q.items[i].pid = q.items[j].pid
               PROVE  i = j
    BY <1>6, <1>7 DEF PollerOk
  <2>1. i \in 1 .. n \/ i = n + 1
    BY <1>2
  <2>2. j \in 1 .. n \/ j = n + 1
    BY <1>2
  <2>3. CASE i \in 1 .. n /\ j \in 1 .. n
    BY <1>6, <2>3 DEF PollerOk
  <2> QED
    BY <1>3, <1>6, <1>8, <2>1, <2>2, <2>3
<1>11. PidsOf(q) = PidsOf(p) \cup {pid}
  <2>1. \A i \in 1 .. (n + 1) : i \in 1 .. n \/ i = n + 1
    BY <1>2
  <2>2. 1 .. n \subseteq 1 .. (n + 1) /\ n + 1 \in 1 .. (n + 1)
    BY <1>2
  <2> QED
    BY <1>2, <1>3, <1>6, <1>9, <2>1, <2>2 DEF PidsOf
<1> QED
  BY <1>5, <1>6, <1>10, <1>11 DEF q, new

\* The items after a remove are the ones of the other PIDs.
LEMMA RemoveFacts ==
    ASSUME NEW pids, NEW p, PollerOk(p, pids), NEW pid \in PidsOf(p)
    PROVE  LET q == remove(p, pid)
           IN  /\ PollerOk(q, pids) /\ PidsOf(q) \subseteq PidsOf(p) \ {pid}
               /\ q.unanswered = p.unanswered
               /\ \A i \in 1 .. Len(q.items) :
                     \E j \in 1 .. Len(p.items) : q.items[i] = p.items[j]
<1> DEFINE q == remove(p, pid)
           f == find(p, pid)
           n == Len(p.items)
           at(i) == IF i <= f - 1 THEN i ELSE i + 1
           front == SubSeq(p.items, 1, f - 1)
           back == SubSeq(p.items, f + 1, n)
<1>1. /\ f \in 1 .. n
      /\ \A i \in 1 .. n : p.items[i].pid = pid <=> i = f
  BY FindFacts
<1>2. p \in [items: Seq(Items(pids)), unanswered: Nat]
  BY DEF PollerOk
<1>3. p.items \in Seq(Items(pids)) /\ p.unanswered \in Nat /\ n \in Nat
      /\ DOMAIN p.items = 1 .. n /\ \A i \in 1 .. n : p.items[i] \in Items(pids)
  BY <1>2
<1>4. /\ q.items = front \o back /\ q.unanswered = p.unanswered
      /\ q = [items |-> q.items, unanswered |-> q.unanswered]
  BY <1>2 DEF remove, RemoveAt
<1> HIDE DEF q, f
<1>5. /\ f \in Int /\ n \in Int /\ f - 1 \in Int /\ f + 1 \in Int
      /\ \A i \in 1 .. (f - 1) : i \in 1 .. n
      /\ \A i \in (f + 1) .. n : i \in 1 .. n
  BY <1>1, <1>3
<1>6. /\ front \in Seq(Items(pids)) /\ Len(front) = f - 1
      /\ \A i \in 1 .. (f - 1) : front[i] = p.items[i]
  <2>1. /\ front \in Seq(Items(pids)) /\ Len(front) = IF 1 <= f - 1 THEN f - 1 - 1 + 1 ELSE 0
        /\ \A i \in 1 .. (f - 1 - 1 + 1) : front[i] = p.items[1 + i - 1]
    BY <1>3, <1>5, SubSeqProperties
  <2> HIDE DEF front
  <2>2. f \in Nat /\ f >= 1 /\ f - 1 - 1 + 1 = f - 1
    BY <1>1
  <2>3. \A i \in 1 .. (f - 1) : 1 + i - 1 = i
    OBVIOUS
  <2> QED
    BY <2>1, <2>2, <2>3
<1>7. /\ back \in Seq(Items(pids)) /\ Len(back) = n - f
      /\ \A i \in 1 .. (n - f) : back[i] = p.items[f + i]
  <2>1. /\ back \in Seq(Items(pids)) /\ Len(back) = IF f + 1 <= n THEN n - (f + 1) + 1 ELSE 0
        /\ \A i \in 1 .. (n - (f + 1) + 1) : back[i] = p.items[f + 1 + i - 1]
    BY <1>3, <1>5, SubSeqProperties
  <2> HIDE DEF back
  <2>2. f \in Nat /\ f <= n /\ n - (f + 1) + 1 = n - f
    BY <1>1, <1>3
  <2>3. \A i \in 1 .. (n - f) : f + 1 + i - 1 = f + i
    BY <1>5
  <2> QED
    BY <1>3, <2>1, <2>2, <2>3, SMTT(30)
<1> HIDE DEF front, back
<1>8. /\ q.items \in Seq(Items(pids)) /\ Len(q.items) = n - 1
      /\ \A i \in 1 .. (n - 1) : q.items[i] = p.items[at(i)]
  <2>1. /\ q.items \in Seq(Items(pids)) /\ Len(q.items) = (f - 1) + (n - f)
        /\ \A i \in 1 .. ((f - 1) + (n - f)) :
              q.items[i] = IF i <= f - 1 THEN front[i] ELSE back[i - (f - 1)]
    <3>1. /\ front \o back \in Seq(Items(pids))
          /\ Len(front \o back) = Len(front) + Len(back)
          /\ \A i \in 1 .. Len(front) + Len(back) :
                (front \o back)[i]
                   = IF i <= Len(front) THEN front[i] ELSE back[i - Len(front)]
      BY <1>6, <1>7, ConcatProperties
    <3> QED
      BY <1>4, <1>6, <1>7, <3>1, Zenon
  <2>2. (f - 1) + (n - f) = n - 1
    BY <1>5
  <2>3. ASSUME NEW i \in 1 .. (n - 1)
        PROVE  q.items[i] = p.items[at(i)]
    <3>1. CASE i <= f - 1
      <4>1. i \in 1 .. (f - 1)
        BY <1>5, <3>1
      <4> QED
        BY <1>6, <2>1, <2>2, <3>1, <4>1
    <3>2. CASE ~ (i <= f - 1)
      <4>1. i - (f - 1) \in 1 .. (n - f) /\ f + (i - (f - 1)) = i + 1
        BY <1>5, <3>2
      <4> QED
        BY <1>7, <2>1, <2>2, <3>2, <4>1
    <3> QED
      BY <3>1, <3>2
  <2> QED
    BY <2>1, <2>2, <2>3
<1>9. /\ \A i \in 1 .. (n - 1) : at(i) \in 1 .. n /\ at(i) # f
      /\ \A i, j \in 1 .. (n - 1) : at(i) = at(j) => i = j
  BY <1>1, <1>3
<1> HIDE DEF at
<1>10. q \in [items: Seq(Items(pids)), unanswered: Nat] /\ DOMAIN q.items = 1 .. (n - 1)
  <2>1. q.items \in Seq(Items(pids)) /\ q.unanswered \in Nat
    BY <1>3, <1>4, <1>8
  <2>2. DOMAIN q.items = 1 .. (n - 1)
    BY <1>8, <2>1, LenProperties
  <2> QED
    BY <1>4, <2>1, <2>2
<1>11. PollerOk(q, pids)
  <2> SUFFICES ASSUME NEW i \in 1 .. (n - 1), NEW j \in 1 .. (n - 1),
                      q.items[i].pid = q.items[j].pid
               PROVE  i = j
    BY <1>8, <1>10 DEF PollerOk
  <2>1. p.items[at(i)].pid = p.items[at(j)].pid
    BY <1>8
  <2>2. at(i) = at(j)
    BY <1>9, <2>1 DEF PollerOk
  <2> QED
    BY <1>9, <2>2
<1>12. PidsOf(q) \subseteq PidsOf(p) \ {pid}
  <2> SUFFICES ASSUME NEW i \in 1 .. (n - 1)
               PROVE  q.items[i].pid \in PidsOf(p) /\ q.items[i].pid # pid
    BY <1>10 DEF PidsOf
  <2>1. at(i) \in 1 .. n /\ at(i) # f /\ q.items[i] = p.items[at(i)]
    BY <1>8, <1>9
  <2>2. p.items[at(i)].pid \in PidsOf(p)
    BY <2>1, ItemFacts
  <2>3. p.items[at(i)].pid # pid
    BY <1>1, <2>1
  <2> QED
    BY <2>1, <2>2, <2>3
<1> QED
  BY <1>4, <1>8, <1>9, <1>11, <1>12 DEF q

\* nextDeadline is no time in the past, no later than any deadline in the future,
\* and now if nothing is polled.
LEMMA NextDeadlineFacts ==
    ASSUME NEW pids, NEW p, PollerOk(p, pids), NEW t \in Nat
    PROVE  /\ nextDeadline(p, t) \in Nat /\ nextDeadline(p, t) >= t
           /\ \A i \in 1 .. Len(p.items) :
                 p.items[i].due > t => nextDeadline(p, t) <= p.items[i].due
<1> DEFINE dues == {p.items[i].due : i \in DOMAIN p.items}
<1>1. /\ DOMAIN p.items = 1 .. Len(p.items)
      /\ \A i \in 1 .. Len(p.items) : p.items[i].due \in Nat
  BY ItemFacts
<1>2. dues \subseteq Nat /\ \A i \in 1 .. Len(p.items) : p.items[i].due \in dues
  BY <1>1
<1>3. nextDeadline(p, t) = IF dues = {} THEN t ELSE Max({t, Min(dues)})
  BY DEF nextDeadline
<1> HIDE DEF dues
<1>4. CASE dues = {}
  BY <1>2, <1>3, <1>4
<1>5. CASE dues # {}
  <2>1. Min(dues) \in Nat /\ \A d \in dues : Min(dues) <= d
    BY <1>2, <1>5, MinOf
  <2>2. Max({t, Min(dues)}) = IF t >= Min(dues) THEN t ELSE Min(dues)
    BY <2>1, MinMaxOfTwo
  <2>3. nextDeadline(p, t) = IF t >= Min(dues) THEN t ELSE Min(dues)
    BY <1>3, <1>5, <2>2
  <2> DEFINE least == Min(dues)
  <2> HIDE DEF least
  <2>4. least \in Nat /\ (nextDeadline(p, t) = IF t >= least THEN t ELSE least)
        /\ \A i \in 1 .. Len(p.items) : p.items[i].due \in Nat /\ least <= p.items[i].due
    BY <1>1, <1>2, <2>1, <2>3 DEF least
  <2> QED
    BY <2>4
<1> QED
  BY <1>4, <1>5
=============================================================================
