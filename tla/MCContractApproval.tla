-------------------------- MODULE MCContractApproval --------------------------
EXTENDS ContractApproval

CONSTANTS a1, a2, d1, d2, e1

Approvers == {a1, a2}
Deciders == {d1, d2}
Editors == {e1}

\* One approver, or two.
OneOrder == {<<a1>>, <<a1, a2>>}

=============================================================================
