--------------------------- MODULE MCPauseApproval ---------------------------
(* Two approvals, two nonces, and the bodies that tell the checks apart.     *)
EXTENDS PauseApproval

CONSTANTS a1, a2, n1, n2

Body(i, p, n, c, h, t) ==
    [id |-> i, proposal |-> p, nonce |-> n, confirmer |-> c, coherent |-> h, confirmed |-> t]

MCBodies ==
    { Body(a1, a1, n1, TRUE, TRUE, 0),
      Body(a1, a1, n2, TRUE, TRUE, 2),    \* same id, another record
      Body(a2, a2, n1, TRUE, TRUE, 1),    \* another id, same nonce
      Body(a2, a2, n2, TRUE, TRUE, 1),
      Body(a2, a2, n2, FALSE, TRUE, 1),   \* not confirmed by a confirmer
      Body(a2, a2, n2, TRUE, FALSE, 1),   \* its own times do not fit
      Body(a1, a2, n1, TRUE, TRUE, 1) }   \* approves another proposal

MCIds == {a1, a2}
MCNonces == {n1, n2}
MCTimes == 0..2
=============================================================================
