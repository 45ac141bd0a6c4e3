---------------------------- MODULE SessionTurns ----------------------------
(***************************************************************************)
(* What docs/concepts/queue.md promises of the session lanes: the agent    *)
(* runs of one session take turns, one at a time, in the order in which    *)
(* they asked.  A fair mutex per session, with no lanes and no pump.       *)
(***************************************************************************)
EXTENDS Naturals, Sequences

CONSTANTS Runs, Sessions, NoRun

VARIABLES
    holder,   \* the run whose turn it is, per session
    waiting   \* the runs that have asked and wait, per session

turnVars == <<holder, waiting>>

Init ==
    /\ holder = [s \in Sessions |-> NoRun]
    /\ waiting = [s \in Sessions |-> <<>>]

Ask(r, s) ==
    /\ holder[s] # r
    /\ \A i \in 1..Len(waiting[s]) : waiting[s][i] # r
    /\ \/ /\ holder[s] = NoRun
          /\ holder' = [holder EXCEPT ![s] = r]
          /\ UNCHANGED waiting
       \/ /\ holder[s] # NoRun
          /\ waiting' = [waiting EXCEPT ![s] = Append(@, r)]
          /\ UNCHANGED holder

\* The turn passes to the first waiter.
Yield(s) ==
    /\ holder[s] # NoRun
    /\ \/ /\ waiting[s] = <<>>
          /\ holder' = [holder EXCEPT ![s] = NoRun]
          /\ UNCHANGED waiting
       \/ /\ waiting[s] # <<>>
          /\ holder' = [holder EXCEPT ![s] = Head(waiting[s])]
          /\ waiting' = [waiting EXCEPT ![s] = Tail(@)]

\* Whoever waits is sent away; the turn in progress goes on.
SendAway(s) ==
    /\ waiting' = [waiting EXCEPT ![s] = <<>>]
    /\ UNCHANGED holder

Next == \E s \in Sessions : Yield(s) \/ SendAway(s) \/ \E r \in Runs : Ask(r, s)

Spec == Init /\ [][Next]_turnVars

\* A new life begins: every turn passes to the first waiter, whether or not its holder is done.
StartOver ==
    /\ holder' = [s \in Sessions |-> IF waiting[s] = <<>> THEN NoRun ELSE Head(waiting[s])]
    /\ waiting' = [s \in Sessions |-> IF waiting[s] = <<>> THEN <<>> ELSE Tail(waiting[s])]

SpecOfLives == Init /\ [][Next \/ StartOver]_turnVars
=============================================================================
