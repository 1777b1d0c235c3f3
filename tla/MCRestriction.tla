---------------------------- MODULE MCRestriction ----------------------------
(* A school is restricted and lifted, or a row is read through the cache, as  *)
(* the guard reads the restriction: an instance takes either side.  The       *)
(* school has an open-ended subscription that suspends and a fixed-term one   *)
(* that restricts softly, each with an invoice.  Nothing is declared          *)
(* symmetric, since both sides have a liveness property; one reader's         *)
(* instance is fixed instead, for instances are interchangeable.              *)
EXTENDS SchoolRestriction, ReadThroughCache, TLC

CONSTANTS i1, i2, s1, s2, n1, r1
VARIABLE enforcing

MCSubscriptionOf == (i1 :> s1) @@ (i2 :> s2)
MCMode == (s1 :> "COMPLETE") @@ (s2 :> "SOFT")

RestrictionInit ==
    /\ enforcing \in BOOLEAN
    /\ Init /\ CacheInit
    /\ call[r1].at = n1
    /\ enforcing => \A c \in Calls : call[c].at = n1
RestrictionNext ==
    /\ UNCHANGED enforcing
    /\ \/ enforcing /\ Next /\ UNCHANGED cacheVars
       \/ ~enforcing /\ CacheNext /\ UNCHANGED vars
       \/ ~enforcing /\ UNCHANGED <<vars, cacheVars>>

\* The fairness of FairSpec where the school is, and that of FairCacheSpec.
RestrictionSpec ==
    /\ RestrictionInit /\ [][RestrictionNext]_<<enforcing, vars, cacheVars>>
    /\ WF_vars(enforcing /\ CronStep)
    /\ \A i \in Invoices : WF_vars(ListenerStep(i))
    /\ \A r \in Readers : WF_cacheVars(Reader(r))
=============================================================================
