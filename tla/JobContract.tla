---------------------------- MODULE JobContract ----------------------------
(***************************************************************************)
(* What the job queue promises to those who enqueue jobs, whatever its     *)
(* backend: a job is handed to one worker at a time and at most MaxTries   *)
(* times, it fails only when its tries are used up, an outcome is final,   *)
(* and a job that still has to run is forgotten only for a new one and     *)
(* when no settled one is stored.  JobQueue implements it.                 *)
(***************************************************************************)
EXTENDS Naturals

CONSTANTS Jobs, Nothing, Holders, MaxTries

VARIABLES state,    \* state[j]: where the job stands
          tries,    \* tries[j]: how often it was handed out
          holding   \* holding[h]: the job h works on, or Nothing

contractVars == <<state, tries, holding>>

Outcomes == {"completed", "failed"}

ContractInit ==
    /\ state = [j \in Jobs |-> "new"]
    /\ tries = [j \in Jobs |-> 0]
    /\ holding = [h \in Holders |-> Nothing]

NoOutcomeStored == \A j \in Jobs : state[j] \notin Outcomes

\* A new job, and perhaps one that is forgotten to make room for it.
Submit(j) ==
    /\ state[j] = "new"
    /\ \/ state' = [state EXCEPT ![j] = "waiting"]
       \/ \E k \in Jobs \ {j} :
             /\ state[k] \notin {"new", "forgotten"}
             /\ state[k] \in Outcomes \/ NoOutcomeStored
             /\ state' = [state EXCEPT ![j] = "waiting", ![k] = "forgotten"]
    /\ UNCHANGED <<tries, holding>>

Hand(j, h) ==
    /\ state[j] = "waiting" /\ holding[h] = Nothing /\ tries[j] < MaxTries
    /\ state' = [state EXCEPT ![j] = "held"]
    /\ tries' = [tries EXCEPT ![j] = @ + 1]
    /\ holding' = [holding EXCEPT ![h] = j]

\* What becomes of a job when its holder is done with it: an outcome, another
\* try, or nothing: the holder died or could not report.  A forgotten one
\* stays forgotten.
NextStates(j) ==
    CASE state[j] = "forgotten" -> {"forgotten"}
      [] state[j] = "held" ->
            {"completed", "abandoned", IF tries[j] < MaxTries THEN "waiting" ELSE "failed"}
      [] OTHER -> {}

Return(j, h) ==
    /\ holding[h] = j
    /\ \E s \in NextStates(j) : state' = [state EXCEPT ![j] = s]
    /\ holding' = [holding EXCEPT ![h] = Nothing]
    /\ UNCHANGED tries

ContractNext ==
    \E j \in Jobs : Submit(j) \/ \E h \in Holders : Hand(j, h) \/ Return(j, h)

ContractSpec == ContractInit /\ [][ContractNext]_contractVars

-----------------------------------------------------------------------------
States == {"new", "waiting", "held", "abandoned", "forgotten"} \cup Outcomes

ContractTypeOK ==
    /\ state \in [Jobs -> States] /\ tries \in [Jobs -> Nat]
    /\ holding \in [Holders -> Jobs \cup {Nothing}]

\* No two holders have the same job, what they have is theirs or forgotten under
\* them, every job that counts as held has a holder, and a job with no tries left
\* is not waiting for another.
OneHolder ==
    /\ \A g, h \in Holders : holding[g] = holding[h] /\ holding[g] # Nothing => g = h
    /\ \A h \in Holders : holding[h] # Nothing => state[holding[h]] \in {"held", "forgotten"}
    /\ \A j \in Jobs : state[j] = "held" => \E h \in Holders : holding[h] = j
    /\ \A j \in Jobs : /\ tries[j] <= MaxTries
                       /\ state[j] \in {"new", "waiting"} => tries[j] < MaxTries
=============================================================================
