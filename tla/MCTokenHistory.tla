-------------------------  MODULE MCTokenHistory ------------------------------
(* TokenHistory on small key rings. *)
EXTENDS TokenHistory, TLC

CONSTANTS Pairs, Secrets

MCKind == [k \in Keys |-> CASE k \in Pairs -> "asymmetric"
                            [] k \in Secrets -> "secret"
                            [] OTHER -> "unsupported"]
MCCertified == Pairs \X {1}
NoCertificates == {}
Symmetry == Permutations(Handles)
============================================================================
