-------------------------- MODULE MCSubscriptionTerms --------------------------
(* Two subscriptions, the second with auto_renew.  No symmetry: TLC checks a    *)
(* liveness property.                                                           *)
EXTENDS SubscriptionTerms
=============================================================================
