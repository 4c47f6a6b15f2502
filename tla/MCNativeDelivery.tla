-------------------------- MODULE MCNativeDelivery --------------------------
EXTENDS NativeDelivery, TLC

\* No property tells clients, request keys or details apart.
Symmetry == Permutations(Clients) \cup Permutations(Keys) \cup Permutations(Details)
=============================================================================
