-------------------------- MODULE MCRetrievalIndex --------------------------
EXTENDS RetrievalIndex
=============================================================================
