--------------------------- MODULE MCGithubComments ---------------------------
(***************************************************************************)
(* Two repositories and two names, so that one can take the name the other *)
(* left; two comments of one user.                                         *)
(***************************************************************************)
EXTENDS GithubComments, TLC

CONSTANTS g1

MCAuthor == [c \in Comments |-> g1]
Swaps == Permutations(Handlers) \cup Permutations(Comments) \cup Permutations(Repos) \cup Permutations(Names)
            \cup Permutations(Mappings)

(* One of the people and the project is missing at a time, and not while   *)
(* there are two mappings; the last entry and what went astray are checked *)
(* but not followed further.                                               *)
Missing == {g \in GithubUsers : identity[g] = None} \cup UNION {Users \ welcome[p] : p \in Projects}
              \cup (Projects \ projects)
Telling ==
    /\ logged < MaxEntries /\ astray = {}
    /\ \A x, y \in Missing : x = y
    /\ \A m, n \in Mapped : m # n => Missing = {}
=============================================================================
