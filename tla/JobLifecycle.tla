---------------------------- MODULE JobLifecycle ----------------------------
(***************************************************************************)
(* What GET /v1/capture/jobs/{uuid} promises of one crawl_job row, without *)
(* saying who moves it: a job is accepted once, may be started, ends at    *)
(* most once, keeps its result for as long as it is visible, and once      *)
(* expired never reappears.                                                *)
(***************************************************************************)
CONSTANTS Jobs, None

VARIABLES
    status,   \* status[j]: "absent" before the job exists, "gone" once expired
    resultId  \* resultId[j]: result_capture_id of a succeeded job

lifecycleVars == <<status, resultId>>

Init ==
    /\ status = [j \in Jobs |-> "absent"]
    /\ resultId = [j \in Jobs |-> None]

Accept(j) ==
    /\ status[j] = "absent"
    /\ status' = [status EXCEPT ![j] = "pending"]
    /\ UNCHANGED resultId

Start(j) ==
    /\ status[j] = "pending"
    /\ status' = [status EXCEPT ![j] = "running"]
    /\ UNCHANGED resultId

Succeed(j, c) ==
    /\ status[j] = "running"
    /\ status' = [status EXCEPT ![j] = "succeeded"]
    /\ resultId' = [resultId EXCEPT ![j] = c]

Fail(j) ==
    /\ status[j] \in {"pending", "running"}
    /\ status' = [status EXCEPT ![j] = "failed"]
    /\ UNCHANGED resultId

Expire(expired) ==
    /\ \A j \in expired : status[j] # "absent"
    /\ status' = [j \in Jobs |-> IF j \in expired THEN "gone" ELSE status[j]]
    /\ UNCHANGED resultId

Next ==
    \/ \E j \in Jobs : Accept(j) \/ Start(j) \/ Fail(j)
    \/ \E j \in Jobs, c \in Jobs : Succeed(j, c)
    \/ \E expired \in SUBSET Jobs : Expire(expired)

Spec == Init /\ [][Next]_lifecycleVars
=============================================================================
