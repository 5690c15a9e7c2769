------------------------------ MODULE NodeGroup ------------------------------
(***************************************************************************)
(* Node groups: the group, claim and join controllers together with the    *)
(* parts of the system they wait for, and what they promise jointly.       *)
(***************************************************************************)
EXTENDS GroupController, ClaimController, JoinController

Next == GroupNext \/ ClaimNext \/ JoinNext \/ External

Spec == Init /\ [][Next]_vars

\* Compute exists only under a claim that holds it: a provider machine, a
\* Machine or a Node has its claim, with the claim's finalizer, and a Machine
\* belongs to the claim's own incarnation.  (pkg/claim: the finalizer "keeps
\* the claim alive until its compute is gone".)
OwnedCompute ==
    \A s \in Slot :
        /\ infra[s] # "none" \/ machine[s].here \/ node[s].here => claim[s].here /\ claim[s].fin
        /\ machine[s].here => machine[s].uid = claim[s].uid

\* When the group object is gone, no child can have or get compute: a child
\* that a delayed creation brings back afterwards is never admitted.
NothingLeftBehind ==
    group.phase = "gone" =>
        \A s \in Slot : ~claim[s].fin /\ mesh[s] = 0 /\ (c.pc = "admit" => ~c.claim)

\* A Machine cancelled before bootstrap stays unpublished: the join
\* controller's reservation or the cancellation mark wins, never both
\* (pkg/nodegroup/cancel_bootstrap.go).
CancelledNeverPublished ==
    \A s \in Slot :
        machine[s].cancel # 0 =>
            /\ machine[s].addr = 0 /\ mesh[s] = 0 /\ ~node[s].here
            /\ secret[s].uid # machine[s].uid

\* No running agent has a peer whose Machine is being deleted, and no
\* instance that has yet to boot was rendered with one.
NoDeadPeer ==
    /\ \A n \in Consumer : Running(n) =>
         \A s \in applied[n] : machine[s].here /\ ~machine[s].del
    /\ \A t \in Slot : machine[t].here /\ ~node[t].here /\ secret[t].uid = machine[t].uid =>
         \A s \in secret[t].peers : machine[s].here /\ ~machine[s].del

\* Two workers never hold one tunnel address, on their Machines or in the mesh.
AddressesDistinct ==
    \A s, t \in Slot : s # t =>
        {machine[s].addr, mesh[s]} \cap {machine[t].addr, mesh[t]} \subseteq {0}

\* A Machine with a Node is deleted only when the Node is cordoned and empty,
\* its gateway attachments are retired and every survivor has dropped it.
DrainedBeforeDelete ==
    [][\A s \in Slot : ~machine[s].del /\ machine'[s].del /\ node[s].here =>
         /\ node[s].cordon /\ node[s].pods = "none" /\ ~WorkerRequests(s)
         /\ mesh[s] = 0]_vars
=============================================================================
