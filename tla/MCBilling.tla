------------------------------ MODULE MCBilling ------------------------------
(***************************************************************************)
(* Subscriptions as TLC checks them; the .cfg gives the parameters.        *)
(* Users, tokens and request slots are interchangeable, and the properties *)
(* checked under the symmetry are invariants and step properties.          *)
(***************************************************************************)
EXTENDS Billing, TLC

Symmetry == Permutations(User) \cup Permutations(Token) \cup Permutations(Request)
=============================================================================
