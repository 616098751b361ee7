----------------------------- MODULE MCDeployment -----------------------------
EXTENDS Deployment

\* A library deep in the graph, a pinned contract other pinned ones take, and
\* the two stores the scripts write to.
MCReleased == {"SwapUtils", "Oracle", "DataStore", "RoleStore"}
=============================================================================
