-------------------------- MODULE MCSchemeRegister --------------------------
(***************************************************************************)
(* A small instance of SchemeRegister: two schemes and two institutions,   *)
(* one of which joins the second scheme while the other leaves it.         *)
(***************************************************************************)
EXTENDS SchemeRegister

MCSchemes == {"sct", "vop"}
MCAllSchemes == <<"sct", "vop">>
MCBics == {"b1", "b2", "b3"}

E1 == [sct |-> [b1 |-> "participant", b2 |-> "participant"],
       vop |-> [b1 |-> "participant"]]
E2 == [sct |-> [b1 |-> "participant", b2 |-> "participant"],
       vop |-> [b1 |-> "left", b2 |-> "participant"]]
MCEditions == <<E1, E2>>
=============================================================================
