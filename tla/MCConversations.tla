--------------------------- MODULE MCConversations ---------------------------
(* Instances of Conversations for TLC. *)
EXTENDS Conversations, TLC

CONSTANTS w1, w2, w3, p1, p2

\* Two calls in one server, one in another.
TwoServers == (w1 :> p1) @@ (w2 :> p1) @@ (w3 :> p2)

CallsExchanged == (w1 :> w2) @@ (w2 :> w1)
Symmetry ==
    Permutations(Threads)
        \cup {f @@ CallsExchanged : f \in Permutations(Threads)}
=============================================================================
