---------------------------- MODULE MCPowerLoss -----------------------------
\* Three blocks, a dozen boot sequences and three saves.
EXTENDS PowerLoss
=============================================================================
