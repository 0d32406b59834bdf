------------------------------ MODULE MCStorage ------------------------------
EXTENDS Storage

\* Shorter and longer data, which differ in every chunk they share.
MCData == {<<1>>, <<2, 1>>}

==============================================================================
