-------------------------- MODULE WinningOverrides --------------------------
(***************************************************************************)
(* What a plugin cache promises: it maps every record it knows to the      *)
(* plugin that wins, and a plugin added later wins over those before it.   *)
(* Nothing is ever forgotten.                                              *)
(***************************************************************************)
EXTENDS Naturals

VARIABLES
    loaded,   \* the number of plugins
    winner    \* record -> the position of the plugin that wins

Init ==
    /\ loaded = 0
    /\ DOMAIN winner = {}

\* A plugin joins and wins the records it defines; the others keep theirs.
AddPlugin ==
    /\ loaded' = loaded + 1
    /\ DOMAIN winner \subseteq DOMAIN winner'
    /\ \A r \in DOMAIN winner' :
          winner'[r] = loaded' \/ (r \in DOMAIN winner /\ winner'[r] = winner[r])

Spec == Init /\ [][AddPlugin]_<<loaded, winner>>
=============================================================================
