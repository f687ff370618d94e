-------------------------  MODULE MCTokenClaims ------------------------------
(* TokenClaims on small key rings. *)
EXTENDS TokenClaims, TLC

CONSTANTS Pairs, Secrets

MCKind == [k \in Keys |-> CASE k \in Pairs -> "asymmetric"
                            [] k \in Secrets -> "secret"
                            [] OTHER -> "unsupported"]
MCCertified == Pairs \X {1}
NoCertificates == {}
Symmetry == Permutations(Handles)
============================================================================
