----------------------------- MODULE RoundPromise -----------------------------
(***************************************************************************)
(* What one dispatch of a panel promises to the layers above it, whatever   *)
(* timeouts, exceptions and crashes happen inside (runtime/round1.py:52-63  *)
(* and 185-254, runtime/round2.py:241-285): a seat of the panel owes one    *)
(* terminal status, which is recorded once and never changed or withdrawn;  *)
(* a round is complete only when nobody owes anything, and never if a seat  *)
(* was lost; and nothing is recorded for a seat that was not of the panel,  *)
(* or was lost, or died with its process.  LensDispatch, with a round's  *)
(* watchdogs and saves, and TwoRounds, with the rounds of a brief, both     *)
(* implement it.                                                            *)
(***************************************************************************)

CONSTANTS Seats, Dispatches, Statuses

VARIABLES
  recorded,   \* recorded[d][s]: the terminal status of seat s, "due" or "absent"
  closed      \* closed[d]: how round d stands

promiseVars == <<recorded, closed>>

Init ==
  /\ recorded = [d \in Dispatches |-> [s \in Seats |-> "absent"]]
  /\ closed = [d \in Dispatches |-> "unborn"]

Open(d) ==
  /\ closed[d] = "unborn"
  /\ closed' = [closed EXCEPT ![d] = "open"]
  /\ \E panel \in SUBSET Seats :
       recorded' = [recorded EXCEPT ![d] =
                      [s \in Seats |-> IF s \in panel THEN "due" ELSE "absent"]]

Record(d, s) ==
  /\ recorded[d][s] = "due"
  /\ \E status \in Statuses :
       recorded' = [recorded EXCEPT ![d][s] = status]
  /\ UNCHANGED closed

Breaks(standing) == IF standing = "open" THEN "broken" ELSE standing

\* A lens raised: its seat is lost, and its round breaks; the lenses still running
\* go on to record.
Lose(d, s) ==
  /\ recorded[d][s] = "due"
  /\ recorded' = [recorded EXCEPT ![d][s] = "absent"]
  /\ closed' = [closed EXCEPT ![d] = Breaks(@)]

Complete(d) ==
  /\ closed[d] = "open"
  /\ \A s \in Seats : recorded[d][s] # "due"
  /\ closed' = [closed EXCEPT ![d] = "complete"]
  /\ UNCHANGED recorded

\* The process dies with everything that was due.
Die ==
  /\ closed' = [d \in Dispatches |-> Breaks(closed[d])]
  /\ recorded' = [d \in Dispatches |->
       [s \in Seats |-> IF recorded[d][s] = "due" THEN "absent" ELSE recorded[d][s]]]

Next ==
  \/ \E d \in Dispatches :
       \/ Open(d)
       \/ Complete(d)
       \/ \E s \in Seats : Record(d, s) \/ Lose(d, s)
  \/ Die

Spec == Init /\ [][Next]_promiseVars
=============================================================================
