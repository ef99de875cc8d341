---------------------------- MODULE RequestReply ----------------------------
(***************************************************************************)
(* What the broker promises the clients of one chat, with nothing said of  *)
(* threads, pipes or timeouts: a request is opened once, executed at most  *)
(* once, and closed once; it counts as replied only when it was executed.  *)
(* It may be executed after it was closed: a late answer changes nothing.  *)
(***************************************************************************)
CONSTANT Requests

VARIABLES status, served

Init ==
    /\ status = [r \in Requests |-> "idle"]
    /\ served = [r \in Requests |-> 0]

Open(r) ==
    /\ status[r] = "idle"
    /\ status' \in {[status EXCEPT ![r] = s] : s \in {"open", "closed"}}
    /\ UNCHANGED served

Serve(r) ==
    /\ status[r] # "idle"
    /\ served[r] = 0
    /\ served' = [served EXCEPT ![r] = 1]
    /\ UNCHANGED status

Reply(r) ==
    /\ status[r] = "open"
    /\ served[r] = 1
    /\ status' = [status EXCEPT ![r] = "replied"]
    /\ UNCHANGED served

Close(r) ==
    /\ status[r] = "open"
    /\ status' = [status EXCEPT ![r] = "closed"]
    /\ UNCHANGED served

Next == \E r \in Requests : Open(r) \/ Serve(r) \/ Reply(r) \/ Close(r)

Spec == Init /\ [][Next]_<<status, served>>
=============================================================================
