---------------------------- MODULE MCJobRequest ----------------------------
(* JobRequest with short names over two letters that are prefixes of each *)
(* other, values one of which has an "=" in it, an opaque parameter of    *)
(* the other request, and files that are no part of a name.               *)
EXTENDS JobRequest

MCProjectNames == {<<1>>, <<1, 2>>}
MCGroupNames == {<<>>, <<2>>}
MCNames == {<<1>>, <<1, 2>>}
MCParamNames == MCNames \cup {<<Underscore, 1>>}
MCValues == {<< <<1>> >>, << <<2>>, <<1>> >>}
MCParamValues == {String(v) : v \in MCValues}
MCTars == {<<8>>, <<9>>}

=============================================================================
