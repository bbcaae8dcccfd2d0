---------------------------- MODULE MCIpcServer ----------------------------
(* Instances of IpcServer for TLC. *)
EXTENDS IpcServer, TLC

(* The largest frame, a smaller one, one a unit too long, the zero prefix, *)
(* and a body that ends the connection.                                    *)
Shapes == {<<2, "request">>, <<1, "response">>, <<3, "request">>,
           <<0, "request">>, <<1, "garbage">>}

(* One that is answered and one that is not. *)
FewShapes == {<<1, "request">>, <<1, "pingResponse">>}

Symmetry == Permutations(Conns)
=============================================================================
