---------------------------- MODULE MCEncryptor -----------------------------
(* Instances of Encryptor for TLC. *)
EXTENDS Encryptor, TLC

(* Node 1 accepts, 3 dials, 2 does both and is deployed anew. *)
Deployed(first, second, third) == 1 :> first @@ 2 :> second @@ 3 :> third
Always(grade) == <<grade, grade>>

(* Node 2 gets a new key, while node 1 signs nothing; node 2 is left without *)
(* a certificate, while nobody can check what node 3 signs.                  *)
Interrupted == {
    Deployed(Always("unsigned"), Always("valid"), Always("valid")),
    Deployed(Always("valid"), <<"valid", "blank">>, Always("unverifiable"))}
=============================================================================
