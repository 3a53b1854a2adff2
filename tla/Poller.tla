------------------------------- MODULE Poller -------------------------------
(***************************************************************************)
(* libobd/src/Poller.cpp: poll scheduling of a request/response source, as *)
(* operators on the poller's state, a record of                            *)
(*   items       the polled PIDs in the order they were added, each with   *)
(*               its interval, its deadline and the time of its last       *)
(*               answer (-1 when it has none), and                         *)
(*   unanswered  requests marked since the last answer.                    *)
(***************************************************************************)
EXTENDS Integers, Sequences, SequencesExt

clear == [items |-> <<>>, unanswered |-> 0]

PidsOf(p) == {p.items[i].pid : i \in DOMAIN p.items}

\* A PID that is already polled keeps its item.
add(p, pid, interval) ==
    IF pid \in PidsOf(p) THEN p
    ELSE [p EXCEPT !.items =
             Append(@, [pid |-> pid, interval |-> interval, due |-> 0,
                        lastAnswer |-> -1])]

\* The index of the first item of a PID that is polled.
find(p, pid) == CHOOSE i \in DOMAIN p.items :
                    /\ p.items[i].pid = pid
                    /\ \A j \in 1 .. (i - 1) : p.items[j].pid # pid

remove(p, pid) ==
    IF pid \notin PidsOf(p) THEN p
    ELSE [p EXCEPT !.items = RemoveAt(@, find(p, pid))]

DueItems(p, t) == {i \in DOMAIN p.items : t >= p.items[i].due}

\* Item i is more overdue than item j in units of its own interval.
MoreOverdue(t, i, j) == (t - i.due) * j.interval > (t - j.due) * i.interval

\* Mutant: whatever was added last goes first.
nextDueLast(p, t) == p.items[Max(DueItems(p, t))].pid

\* No due item is more overdue than item i, and no earlier one as much.
MostOverdue(p, t, i) ==
    \A j \in DueItems(p, t) : /\ ~MoreOverdue(t, p.items[j], p.items[i])
                              /\ j < i => MoreOverdue(t, p.items[i], p.items[j])

\* The most overdue PID relative to its own interval, the first one on a tie.
nextDue(p, t) == p.items[CHOOSE i \in DueItems(p, t) : MostOverdue(p, t, i)].pid

\* The earliest deadline, but not one in the past; t if nothing is polled.
nextDeadline(p, t) ==
    LET dues == {p.items[i].due : i \in DOMAIN p.items}
    IN  IF dues = {} THEN t ELSE Max({t, Min(dues)})

\* Mutant: a request is not counted.
markRequestedUncounted(p, pid, t) ==
    IF pid \notin PidsOf(p) THEN p
    ELSE [p EXCEPT !.items[find(p, pid)].due = t + p.items[find(p, pid)].interval]

markRequested(p, pid, t) ==
    IF pid \notin PidsOf(p) THEN p
    ELSE [p EXCEPT !.items[find(p, pid)].due = t + p.items[find(p, pid)].interval,
                   !.unanswered = @ + 1]

markAnswered(p, pid, t) ==
    IF pid \notin PidsOf(p) THEN p
    ELSE [p EXCEPT !.items[find(p, pid)].lastAnswer = t,
                   !.unanswered = 0]

\* Mutant: an answer never gets old.
freshForEver(p, pid, t) ==
    \E i \in DOMAIN p.items : p.items[i].pid = pid /\ p.items[i].lastAnswer >= 0

\* The last answer is at most three intervals old.
fresh(p, pid, t) ==
    /\ pid \in PidsOf(p)
    /\ p.items[find(p, pid)].lastAnswer >= 0
    /\ t - p.items[find(p, pid)].lastAnswer <= 3 * p.items[find(p, pid)].interval
=============================================================================
