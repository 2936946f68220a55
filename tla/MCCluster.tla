----------------------------- MODULE MCCluster ------------------------------
EXTENDS Cluster

CONSTANTS a, b, c, none

MCNodes == {a, b, c}
=============================================================================
