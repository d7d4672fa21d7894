----------------------------- MODULE MCAgentLoop ----------------------------
EXTENDS AgentLoop
MCBatches == {<<>>, <<"a", "b">>}
=============================================================================
