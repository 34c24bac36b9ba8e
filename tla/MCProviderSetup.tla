-------------------------- MODULE MCProviderSetup --------------------------
(* Small instances of ProviderSetup for TLC.                                *)
EXTENDS ProviderSetup, TLC

CONSTANTS gemini, edited, router, local, g1, e1, x1, r1

\* Keys for the remote targets; the local one needs none.
MCKeyOf == (g1 :> gemini) @@ (r1 :> router)
\* A Gemini profile with an edited URL has a key of its own; e1 is in .env.local.
MCEditedKeyOf == (g1 :> gemini) @@ (e1 :> gemini) @@ (x1 :> edited) @@ (r1 :> router)

\* Used by the runs without liveness properties only.
Symmetry == Permutations(Model)
=============================================================================
