----------------------------- MODULE MCSession ------------------------------
(***************************************************************************)
(* Two accounts, and a preview, an original and a face crop of two photos. *)
(***************************************************************************)
EXTENDS MediaCaches

CONSTANTS k1, k2, k3, p1, p2

MCKinds == [k \in {k1, k2, k3} |-> IF k = k1 THEN "preview" ELSE IF k = k2 THEN "original" ELSE "crop"]
MCPhotos == [k \in {k1, k2, k3} |-> IF k = k1 THEN p2 ELSE p1]
MCNewest == <<p1, p2>>
=============================================================================
