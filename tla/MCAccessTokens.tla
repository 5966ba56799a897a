---------------------------- MODULE MCAccessTokens ----------------------------
EXTENDS AccessTokens, TLC
CONSTANTS ann
MCOwnerOf == [a \in Agents |-> ann]
Swaps == Permutations(Requests) \cup Permutations(Secrets)

(* One of the account, the agent and the tokens is out at a time.          *)
Out == {u \in Users : users[u] # "enabled"} \cup {a \in Agents : agents[a] \in {"disabled", "archived"}}
         \cup {<<i>> : i \in {j \in Existing : tokens[j].expired}}
Telling == \A x, y \in Out : x = y
===============================================================================
