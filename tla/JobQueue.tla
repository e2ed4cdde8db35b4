------------------------------ MODULE JobQueue ------------------------------
(***************************************************************************)
(* What the ingest queue promises its users, without tables, connections,  *)
(* threads or processes: the contract that the head comments of queue.py   *)
(* and schema.sql describe.  A job is one commit.                          *)
(*                                                                         *)
(*   - asking for a commit queues it unless it is already queued, running  *)
(*     or done; a failed one is queued again below the retry cap;          *)
(*   - jobs run one at a time, and every run is counted;                   *)
(*   - a run that was cut short is queued again;                           *)
(*   - a job that succeeded is never touched again.                        *)
(***************************************************************************)
EXTENDS Naturals

CONSTANTS Commits, MaxAttempts

VARIABLES status, attempts
jvars == <<status, attempts>>

Init ==
    /\ status = [c \in Commits |-> "absent"]
    /\ attempts = [c \in Commits |-> 0]

Ask(c) ==
    /\ \/ status[c] = "absent"
       \/ status[c] = "failed" /\ attempts[c] < MaxAttempts
    /\ status' = [status EXCEPT ![c] = "queued"]
    /\ UNCHANGED attempts

Run(c) ==
    /\ status[c] = "queued"
    /\ \A d \in Commits : status[d] # "running"
    /\ status' = [status EXCEPT ![c] = "running"]
    /\ attempts' = [attempts EXCEPT ![c] = @ + 1]

Finish(c, outcome) ==
    /\ status[c] = "running"
    /\ status' = [status EXCEPT ![c] = outcome]
    /\ UNCHANGED attempts

CutShort(c) ==
    /\ status[c] = "running"
    /\ status' = [status EXCEPT ![c] = "queued"]
    /\ UNCHANGED attempts

Next ==
    \E c \in Commits :
        \/ Ask(c)
        \/ Run(c)
        \/ Finish(c, "succeeded")
        \/ Finish(c, "failed")
        \/ CutShort(c)

Spec == Init /\ [][Next]_jvars
=============================================================================
