--------------------------- MODULE MCSessionStore ---------------------------
(* SessionStore on a small instance: the symmetry its runs may use.        *)
EXTENDS SessionStore, TLC

\* Threads, objects and conversation ids are interchangeable, and so are keys.
Symmetry ==
    Permutations(Threads) \cup Permutations(Objs) \cup Permutations(Keys)
        \cup Permutations(Convs)
=============================================================================
