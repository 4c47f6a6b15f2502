-------------------------- MODULE MCWorkspaceIndex --------------------------
EXTENDS WorkspaceIndex

\* Two files; the watcher's worker and one caller of workspace_reindex.
MCPaths == {1, 2}
NoTools == {}
=============================================================================
