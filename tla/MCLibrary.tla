----------------------------- MODULE MCLibrary -------------------------------
(* Small instances of the areas of Library: one mishap and a few taps each. *)
EXTENDS Library

CONSTANTS x, y, v1, v2, v3, p1, p2, p3

MCMaxJobs == [a \in {"vault", "web import", "mobile import", "web upload", "web gallery", "feed", "cloud grid"} |->
                IF a = "vault" THEN 2 ELSE IF a \in {"feed", "cloud grid"} THEN 4 ELSE 3]
MCMaxActs == [a \in DOMAIN MCMaxJobs |->
                CASE a = "vault" -> 5 [] a = "web import" -> 4 [] a = "mobile import" -> 5
                  [] a = "web upload" -> 6 [] a = "web gallery" -> 6 [] a \in {"feed", "cloud grid"} -> 3]

(* A phone with both photos; with a legacy lock; with both in the vault; with
   one photo in encrypted mode. *)
D0 == [media |-> {<<x, 0>>, <<y, 0>>}, saves |-> [p \in Photos |-> 0], legacy |-> {}, vault |-> [v \in VaultIds |-> NoEntry],
       mode |-> [a \in Assets |-> NoCopy], vkey |-> 0, mkey |-> 0, last |-> 0, lock |-> Nil, bio |-> TRUE]
Stored(a) == [NoEntry EXCEPT !.of = a, !.row = TRUE, !.file = "whole", !.key = 1]
MCVaultDisks ==
  { D0,
    [D0 EXCEPT !.legacy = {<<x, 0>>}, !.lock = [pin |-> 1, bio |-> FALSE]],
    [D0 EXCEPT !.media = {}, !.vkey = 1, !.lock = [pin |-> 1, bio |-> TRUE],
               !.vault[v1] = Stored(x), !.vault[v2] = Stored(y)],
    [D0 EXCEPT !.media = {<<y, 0>>}, !.mkey = 1, !.last = 1,
               !.mode[<<x, 0>>] = [NoCopy EXCEPT !.row = TRUE, !.file = "whole", !.key = 1, !.thumb = TRUE]] }

MCShots == <<p1, p2, p3>>
MCMatching == [f \in {"all", "videos"} |-> IF f = "all" THEN {p1, p2, p3} ELSE {p2}]
=============================================================================
