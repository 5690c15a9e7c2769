-------------------------- MODULE MakeBeforeBreak ---------------------------
(***************************************************************************)
(* What a generation handover promises the traffic, with no journal,       *)
(* rounds, receipts or messages: a Node selects a generation only when     *)
(* every running Node can receive it, and a receive path goes away only    *)
(* when no Node selects it and none has for DrainInterval.  A reboot loses *)
(* a Node's own paths; it comes back selecting a received generation.      *)
(***************************************************************************)
EXTENDS Integers

CONSTANTS Node, DrainInterval

VARIABLES now, recv, egress, left

Down == 0 - 1
Receivable(g) == \A m \in Node : egress[m] # Down => g \in recv[m]
Drained(g) ==
    \A m \in Node :
        /\ egress[m] # g
        /\ left[m].gen = g => now >= left[m].at + DrainInterval

Init ==
    /\ now = 1
    /\ recv = [n \in Node |-> {0, 1}]
    /\ egress = [n \in Node |-> 0]
    /\ left = [n \in Node |-> [gen |-> Down, at |-> 0]]

Tick ==
    /\ now' = now + 1
    /\ UNCHANGED <<recv, egress, left>>

Install(n) ==
    /\ recv[n] \subseteq recv'[n]
    /\ recv' = [recv EXCEPT ![n] = recv'[n]]
    /\ UNCHANGED <<now, egress, left>>

Switch(n) ==
    /\ egress[n] # Down
    /\ Receivable(egress'[n])
    /\ egress' = [egress EXCEPT ![n] = egress'[n]]
    /\ left' = [left EXCEPT ![n] = [gen |-> egress[n], at |-> now]]
    /\ UNCHANGED <<now, recv>>

Retire(n, g) ==
    /\ Drained(g)
    /\ recv' = [recv EXCEPT ![n] = @ \ {g}]
    /\ UNCHANGED <<now, egress, left>>

Reboot(n) ==
    /\ recv' = [recv EXCEPT ![n] = {}]
    /\ egress' = [egress EXCEPT ![n] = Down]
    /\ UNCHANGED <<now, left>>

\* The Node returns with every generation a running Node selects.
Return(n) ==
    /\ egress[n] = Down
    /\ Receivable(egress'[n])
    /\ \A m \in Node : egress'[m] # Down => egress'[m] \in recv'[n]
    /\ recv' = [recv EXCEPT ![n] = recv'[n]]
    /\ egress' = [egress EXCEPT ![n] = egress'[n]]
    /\ UNCHANGED <<now, left>>

Next ==
    \/ Tick
    \/ \E n \in Node :
          \/ Install(n)
          \/ Switch(n)
          \/ \E g \in recv[n] : Retire(n, g)
          \/ Reboot(n)
          \/ Return(n)

vars == <<now, recv, egress, left>>
Spec == Init /\ [][Next]_vars
=============================================================================
