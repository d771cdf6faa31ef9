----------------------------- MODULE MCDelivery -----------------------------
(***************************************************************************)
(* Small instances of DeliveryEngine.                                      *)
(***************************************************************************)
EXTENDS DeliveryEngine, TLC

CONSTANTS m1, m2, b1, f1, fb

(* One submission to one domain, tried twice. *)
OneDomain == m1 :> f1
TwoAttempts == m1 :> 2

(* One submission to two domains, whose messages share one file, and room for
   one bounce; each is tried once.                                           *)
TwoDomains == (m1 :> f1) @@ (m2 :> f1) @@ (b1 :> fb)
OneAttempt == (m1 :> 1) @@ (m2 :> 1) @@ (b1 :> 1)

WorkerSymmetry == Permutations(Workers)
=============================================================================
