------------------------ MODULE MCBillingCheckout ------------------------
(* The workers of BillingCheckout for TLC. *)
EXTENDS BillingCheckout, TLC

CONSTANTS t1, t2, h1, h2, monthly, yearly

Symmetry == Permutations({t1, t2}) \cup Permutations({h1, h2}) \cup Permutations({monthly, yearly})
=============================================================================
