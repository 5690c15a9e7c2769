--------------------------- MODULE JoinController ---------------------------
(***************************************************************************)
(* The join controller: for a Machine without a bootstrap Secret it        *)
(* reserves a tunnel address on the Machine, publishes the peer in the     *)
(* mesh Secret and then creates the bootstrap Secret, with the peers of    *)
(* the mesh it had read baked in.  The three writes go to three objects.   *)
(***************************************************************************)
EXTENDS Provisioning

Largest(S) == CHOOSE n \in S \cup {0} : \A m \in S : m <= n

\* An allocation that forgets the addresses reserved but not yet published.
allocateFromPeers == Largest({mesh[s] : s \in Slot}) + 1

\* One past the largest address a Machine reserves or a peer routes to.
allocateWireGuardAddress ==
    Largest({machine[s].addr : s \in Slot} \cup {mesh[s] : s \in Slot}) + 1

\* A Machine that is staying, whose provider machine exists, and that has no
\* bootstrap Secret yet.
Joinable(s) ==
    /\ machine[s].here /\ ~machine[s].del /\ machine[s].drain = 0
    /\ secret[s].uid = 0 /\ infra[s] # "none"

\* The peers baked into the rendered userdata: the others of the mesh read.
RenderedPeers(s) == Published \ {s}

JoinRead(s) ==
    /\ j.pc = "idle" /\ Joinable(s)
    /\ LET known == machine[s].addr # 0
           addr == IF known THEN machine[s].addr ELSE allocateWireGuardAddress
       IN  /\ addr <= MaxAddress
           /\ j' = [pc |-> IF known THEN "check" ELSE "reserve", slot |-> s,
                    uid |-> machine[s].uid, addr |-> addr, peers |-> RenderedPeers(s),
                    machine |-> TRUE, mesh |-> TRUE]
    /\ UNCHANGED <<objects, applied, ack, g, c, late, used>>

\* A reservation without the version precondition of the Machine.
ReserveAnyway ==
    /\ j.pc = "reserve" /\ machine[j.slot].here
    /\ machine' = [machine EXCEPT ![j.slot].addr = j.addr]
    /\ j' = [j EXCEPT !.pc = "check"]
    /\ UNCHANGED <<group, claim, infra, secret, mesh, node, gateway, applied, ack,
                   g, c, late, used>>

JoinReserve ==
    /\ j.pc = "reserve" /\ j.machine
    /\ machine' = [machine EXCEPT ![j.slot].addr = j.addr]
    /\ j' = [j EXCEPT !.pc = "check"]
    /\ UNCHANGED <<group, claim, infra, secret, mesh, node, gateway, applied, ack,
                   g, c, late, used>>

CheckPeerPublication ==
    /\ j.pc = "check"
    /\ machine[j.slot].here /\ machine[j.slot].uid = j.uid
    /\ ~machine[j.slot].del /\ machine[j.slot].drain = 0
    /\ j' = [j EXCEPT !.pc = "publish"]
    /\ UNCHANGED <<objects, applied, ack, g, c, late, used>>

JoinPublish ==
    /\ j.pc = "publish" /\ j.mesh
    /\ mesh' = [mesh EXCEPT ![j.slot] = j.addr]
    /\ j' = [j EXCEPT !.pc = "commit"]
    /\ UNCHANGED <<group, claim, infra, machine, secret, node, gateway, applied, ack,
                   g, c, late, used>>

\* The commit point: no instance starts before this Secret exists.
JoinCommit ==
    /\ j.pc = "commit" /\ secret[j.slot].uid = 0
    /\ secret' = [secret EXCEPT ![j.slot] = [uid |-> j.uid, peers |-> j.peers]]
    /\ j' = IdleJ
    /\ UNCHANGED <<group, claim, infra, machine, mesh, node, gateway, applied, ack,
                   g, c, late, used>>

\* An error, a refused write or a restart ends the pass; the next starts over.
JoinAbandon ==
    /\ j.pc # "idle"
    /\ j' = IdleJ
    /\ UNCHANGED <<objects, applied, ack, g, c, late, used>>

JoinStep ==
    \/ \E s \in Slot : JoinRead(s)
    \/ JoinReserve \/ CheckPeerPublication \/ JoinPublish \/ JoinCommit
JoinNext == JoinStep \/ JoinAbandon
=============================================================================
