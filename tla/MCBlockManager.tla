---------------------------- MODULE MCBlockManager -----------------------------
\* Three allocatable blocks of two tokens, two requests that may ask for more
\* tokens than the whole pool holds.
EXTENDS BlockManager

CONSTANTS r1, r2
MCRequestIds == {r1, r2}
MCMaxTokens  == Capacity * BlockSize + 1
================================================================================
