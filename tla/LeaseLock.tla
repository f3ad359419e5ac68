----------------------------- MODULE LeaseLock -----------------------------
(***************************************************************************)
(* What one lock of apps/api/app/services/cache.py promises its callers.   *)
(* A caller draws a token (uuid4) and asks once with it.  The lock is      *)
(* granted only while nobody owns it, a token owns it at most once, and    *)
(* the lock may become free at any moment (release, expiry or restart).    *)
(***************************************************************************)
CONSTANTS Tokens,    \* every token a caller may draw
          NoToken    \* the owner of a free lock

VARIABLES owner,     \* the token that owns the lock, or NoToken
          unused     \* the tokens that this lock may still be asked with

leaseVars == <<owner, unused>>

Init ==
    /\ owner = NoToken
    /\ unused = Tokens

\* The lock stays as it is, becomes free, or goes from free to a token that
\* leaves `unused' with this very step.
Next ==
    /\ unused' \subseteq unused
    /\ \/ owner' = owner
       \/ owner' = NoToken
       \/ owner = NoToken /\ owner' \in unused \ unused'

Spec == Init /\ [][Next]_leaseVars
=============================================================================
