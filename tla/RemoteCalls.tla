---------------------------- MODULE RemoteCalls -----------------------------
(***************************************************************************)
(* What a caller of the IPC client (internal/api/ipc/client.go) may rely   *)
(* on, whatever happens to the connection: a call is answered or fails,    *)
(* once; its handler runs at most once; it is answered with success only   *)
(* after its handler has succeeded.  A call that failed may have run, or   *)
(* may still run.                                                          *)
(***************************************************************************)
EXTENDS Naturals

CONSTANT Calls

VARIABLES
    status,     \* of each call
    runs        \* how often the handler of each call has succeeded

Init ==
    /\ status = [k \in Calls |-> "new"]
    /\ runs = [k \in Calls |-> 0]

Make(k) ==
    /\ status[k] = "new"
    /\ status' = [status EXCEPT ![k] = "made"]
    /\ UNCHANGED runs

Execute(k) ==
    /\ status[k] \in {"made", "failed"}
    /\ runs[k] = 0
    /\ runs' = [runs EXCEPT ![k] = 1]
    /\ UNCHANGED status

Succeed(k) ==
    /\ status[k] = "made"
    /\ runs[k] = 1
    /\ status' = [status EXCEPT ![k] = "ok"]
    /\ UNCHANGED runs

Fail(k) ==
    /\ status[k] \in {"new", "made"}
    /\ status' = [status EXCEPT ![k] = "failed"]
    /\ UNCHANGED runs

Next == \E k \in Calls : Make(k) \/ Execute(k) \/ Succeed(k) \/ Fail(k)

Spec == Init /\ [][Next]_<<status, runs>>
=============================================================================
