------------------------------ MODULE Delivery ------------------------------
(***************************************************************************)
(* What the gateway promises a client about one request, without keys,     *)
(* clocks or pools: retries happen inside, and the client sees one answer. *)
(*                                                                         *)
(*   - at most MaxCalls upstream calls, one at a time;                     *)
(*   - a final response ends the request and is relayed, never retried;    *)
(*   - a response worth a retry is never relayed;                          *)
(*   - a request that is open is eventually closed.                        *)
(***************************************************************************)
EXTENDS Naturals

CONSTANTS Clients, MaxCalls

VARIABLES
    phase,    \* idle, open, or how the request was closed
    calls,    \* upstream calls made for it, while it is open
    verdict   \* what the last call came to, while it is open

contract == <<phase, calls, verdict>>

Closed == {"idle", "relayed", "unavailable", "refused", "dropped"}

Start ==
    /\ phase = [c \in Clients |-> "idle"]
    /\ calls = [c \in Clients |-> 0]
    /\ verdict = [c \in Clients |-> "none"]

Move(c, ph, n, v) ==
    /\ phase' = [phase EXCEPT ![c] = ph]
    /\ calls' = [calls EXCEPT ![c] = n]
    /\ verdict' = [verdict EXCEPT ![c] = v]

Close(c, ph) == Move(c, ph, 0, "none")

Open(c) == phase[c] \in Closed /\ Move(c, "open", 0, "none")

Refuse(c) == phase[c] \in Closed /\ Close(c, "refused")

Call(c) ==
    /\ phase[c] = "open"
    /\ verdict[c] \in {"none", "retry"}
    /\ calls[c] < MaxCalls
    /\ Move(c, "open", calls[c] + 1, "pending")

Judge(c) ==
    /\ phase[c] = "open"
    /\ verdict[c] = "pending"
    /\ \E v \in {"final", "retry"} : Move(c, "open", calls[c], v)

Relay(c) ==
    /\ phase[c] = "open"
    /\ verdict[c] = "final"
    /\ Close(c, "relayed")

GiveUp(c) ==
    /\ phase[c] = "open"
    /\ verdict[c] \in {"none", "retry"}
    /\ Close(c, "unavailable")

\* The client is gone and its last call failed.
Drop(c) ==
    /\ phase[c] = "open"
    /\ verdict[c] = "retry"
    /\ Close(c, "dropped")

Work(c) == Call(c) \/ Judge(c) \/ Relay(c) \/ GiveUp(c) \/ Drop(c)

Step(c) == Open(c) \/ Refuse(c) \/ Work(c)

\* What may be done for a client.
Contract == Start /\ [][\E c \in Clients : Step(c)]_contract

\* And what is done in the end.
Promise == Contract /\ \A c \in Clients : WF_contract(Work(c))
=============================================================================
