----------------------------- MODULE TokenFamilies -----------------------------
(***************************************************************************)
(* What the refresh tokens of an account promise: each login is a chain of *)
(* tokens of which one at most is good.  It is exchanged for a token that  *)
(* was never seen before, and a chain that has ended stays so.             *)
(* AuthSessions.tla implements it.                                         *)
(***************************************************************************)

CONSTANT Tokens

VARIABLES
    good,  \* pairs of a chain and a token it accepts; a chain is named by its first token
    seen   \* tokens ever given out

tvars == <<good, seen>>

Init == good = {} /\ seen = {}

Of(chain) == {g \in good : g[1] = chain}

Start(t) == good' = good \cup {<<t, t>>}

\* The good token goes, the next comes.
Exchange(chain, new) == good' = (good \ Of(chain)) \cup {<<chain, new>>}

End(chain) == good' = good \ Of(chain)

\* A chain with nothing good in it has ended.
Next ==
    \/ \E t \in Tokens \ seen :
         /\ seen' = seen \cup {t}
         /\ Start(t) \/ \E g \in good : Exchange(g[1], t)
    \/ seen' = seen /\ \E g \in good : End(g[1])

Spec == Init /\ [][Next]_tvars

=============================================================================
