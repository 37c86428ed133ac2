------------------------------ MODULE JobLedger ------------------------------
(***************************************************************************)
(* What Lidarr may rely on for each grab, whatever threads, polls and      *)
(* removals do meanwhile and whichever writes fail.  An id is answered at  *)
(* most once and, once the job is gone, never comes back to life; a job    *)
(* that was accepted survives a restart; while the job is tracked, one run *)
(* of the bridge spends at most Budget retry rounds on it.                 *)
(***************************************************************************)
EXTENDS Naturals

CONSTANTS Grabs, Budget

\* A grab refused by a failing write is "unsure" as long as its row may be seen,
\* and may yet be committed.
Stages == {"new", "opening", "unsure", "tracked", "gone"}

VARIABLES
  stage,  \* [Grabs -> Stages]
  spent   \* [Grabs -> retry rounds spent on a tracked job since the last start]

ledger == <<stage, spent>>

Init == stage = [g \in Grabs |-> "new"] /\ spent = [g \in Grabs |-> 0]

\* Lidarr's request begins.
Open(g) ==
  /\ stage[g] = "new" /\ stage' = [stage EXCEPT ![g] = "opening"]
  /\ UNCHANGED spent

\* The bridge re-enqueues the job's failed files.
Retry(g) ==
  /\ stage[g] \in {"unsure", "tracked"} /\ spent[g] < Budget
  /\ spent' = [spent EXCEPT ![g] = @ + 1]
  /\ UNCHANGED stage

\* A grab is answered, with an id or with an error; Lidarr deletes a job or the
\* bridge purges it.  One write may settle others that failed before it.
Onward == {<<"opening", "tracked">>, <<"opening", "unsure">>, <<"opening", "gone">>,
           <<"unsure", "tracked">>, <<"unsure", "gone">>, <<"tracked", "gone">>}
Settle ==
  /\ stage' \in [Grabs -> Stages]
  /\ \A g \in Grabs : stage'[g] = stage[g] \/ <<stage[g], stage'[g]>> \in Onward
  /\ spent' = [g \in Grabs |-> IF stage'[g] = "gone" THEN 0 ELSE spent[g]]

\* The bridge restarts: requests being served are lost, tracked jobs are not.
Reset ==
  /\ stage' = [g \in Grabs |-> IF stage[g] \in {"opening", "unsure"} THEN "gone" ELSE stage[g]]
  /\ spent' = [g \in Grabs |-> 0]

Next == Settle \/ Reset \/ \E g \in Grabs : Open(g) \/ Retry(g)

Spec == Init /\ [][Next]_ledger
=============================================================================
