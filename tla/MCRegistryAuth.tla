--------------------------- MODULE MCRegistryAuth ---------------------------
EXTENDS RegistryAuth

(* A host with tokens, one with basic credentials, and an ECR registry:    *)
(* they share no state but the mutex.                                      *)
Images == {<<"hub", "r">>, <<"own", "r">>, <<"ecr", "r">>}
Mixes  == {{i} : i \in Images}
AsksOf == [h \in Host |-> IF h = "hub" THEN "bearer" ELSE "basic"]
LoginOf == [h \in Host |-> CASE h = "hub" -> "none" [] h = "own" -> "static" [] OTHER -> "ecr"]

(* With a tick of fifteen seconds: a token of a minute, whose answer leaves *)
(* out expires_in, one of 75 seconds, and one too short for the margin.     *)
Granted == {[announced |-> 0, life |-> 4], [announced |-> 5, life |-> 5],
            [announced |-> 3, life |-> 3]}
=============================================================================
