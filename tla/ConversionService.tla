-------------------------- MODULE ConversionService --------------------------
(***************************************************************************)
(* What a shared Registry promises its callers: a call is answered from    *)
(* the catalog, as if it ran alone, and the catalog changes only while no  *)
(* call is in flight.  Caches, locks, interned units and walks are absent. *)
(***************************************************************************)
CONSTANTS Goroutine, Catalog, Request, Nothing, Answer(_, _)

VARIABLES catalog, asked, reply

vars == <<catalog, asked, reply>>

Init == /\ catalog \in Catalog
        /\ asked = [g \in Goroutine |-> Nothing]
        /\ reply = [g \in Goroutine |-> Nothing]

Ask(g) == /\ asked[g] = Nothing
          /\ \E q \in Request : asked' = [asked EXCEPT ![g] = q]
          /\ UNCHANGED <<catalog, reply>>

Reply(g) == /\ asked[g] # Nothing /\ reply[g] = Nothing
            /\ reply' = [reply EXCEPT ![g] = Answer(catalog, asked[g])]
            /\ UNCHANGED <<catalog, asked>>

Leave(g) == /\ reply[g] # Nothing
            /\ asked' = [asked EXCEPT ![g] = Nothing]
            /\ reply' = [reply EXCEPT ![g] = Nothing]
            /\ UNCHANGED catalog

\* Define and Load.
Change == /\ \A g \in Goroutine : asked[g] = Nothing
          /\ catalog' \in Catalog
          /\ UNCHANGED <<asked, reply>>

Next == Change \/ \E g \in Goroutine : Ask(g) \/ Reply(g) \/ Leave(g)

Spec == Init /\ [][Next]_vars
=============================================================================
