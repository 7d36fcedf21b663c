--------------------------- MODULE MCCredentials ---------------------------
(* Credentials on a small instance.                                        *)
EXTENDS Credentials, TLC

\* Only the second sign-in consents to the file scope.
SecondFlow == {2}

\* The first process asks for offline_access, the next one does not.
FirstStart == {1}

\* The configured account is one of two; goroutines are interchangeable.
Symmetry == Permutations(Workers) \cup Permutations(Ids)
=============================================================================
