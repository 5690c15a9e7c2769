---------------------------- MODULE MCRetirement ----------------------------
(* Retirement with two workers and one site node.                           *)
EXTENDS Retirement, TLC

CONSTANTS w1, w2, s1

Course(joined, leaving, publishing, restarting, maintaining, addresses) ==
    [joined |-> joined, leaving |-> leaving, publishing |-> publishing,
     restarting |-> restarting, maintaining |-> maintaining,
     addresses |-> addresses]

\* Two workers removed at the same time, as one cohort or one after the other;
\* one of them keeps doing ordinary work meanwhile, and so does the site.
Together == Course({w1, w2}, {w1, w2}, {}, {}, {w2, s1}, 0)

\* A worker joins at any moment of another one's removal.
Joining == Course({w1}, {w1}, {w2}, {}, Consumer, 0)

\* A worker joins, changes its endpoint and is removed, with restarts.
Moving == Course({}, {w1}, {w1}, {w1, s1}, Consumer, 1)

\* A surviving consumer restarts or reboots at any moment of a removal.
Restarting == {Course({w1, w2}, {w1}, {}, {c}, Consumer, 0) : c \in {w2, s1}}

AllCourses == {Together, Joining, Moving} \cup Restarting

OnlyTogether == {Together}

Symmetry == Permutations({w1, w2})

\* Revisions only grow, so receipts bound to earlier ones are never read.
LiveReceipts ==
    <<controls, agent, native, check, boot,
      {r \in fresh : r.auth = inv.auth /\ r.mesh = mesh.rv /\ r.boot = boot[r.node]}>>
=============================================================================
