---------------------------- MODULE MCPageStore ----------------------------
(* Two keys and two tiles over each of the three caches.  There is room for *)
(* both keys where a full cache would wake tiles that evict each other, and *)
(* for one in the thumbnails cache.                                         *)
EXTENDS PageStore

CONSTANTS k1, k2, t1, t2, alice, bob

MCKinds      == {"thumbnails", "assets", "images"}
MCKeys       == {k1, k2}
MCTiles      == {t1, t2}
MCAccounts   == {alice, bob}
MCMaxEntries == [kd \in MCKinds |-> IF kd = "thumbnails" THEN 1 ELSE 2]
=============================================================================
