------------------------- MODULE MCWorkspaceAccess -------------------------
(***************************************************************************)
(* Two instance admins (and, for the race of a removal and a grant, a      *)
(* plain user), one workspace, one project, two requests at a time.        *)
(***************************************************************************)
EXTENDS WorkspaceAccess, TLC

MCHome == [p \in Projects |-> CHOOSE w \in Workspaces : TRUE]
Swaps == Permutations(InstanceAdmins) \cup Permutations(Requests)
============================================================================
