--------------------------- MODULE MCSourceWrites ---------------------------
(* Small instances of SourceWrites. *)
EXTENDS SourceWrites, TLC

CONSTANTS a1, a3, g1

(* Three commands that meet: the application a1 copies a source set of two   *)
(* files, g1 generates a deck under the name that a1 has chosen for the root *)
(* and names the audit of a1 as its manifest, and a3, which writes beside    *)
(* the source, names that same deck as its audit.                            *)
Mixed == {a1, a3}
MixedBeside == {a3}
OneGenerator == {g1}
MixedFiles == {"deck", "mesh", "beside", "deck.audit"}
MixedOutputs == (a1 :> <<"deck", "mesh">>) @@ (a3 :> <<"beside">>) @@ (g1 :> <<"deck">>)
MixedSidecars == (a1 :> "deck.audit") @@ (a3 :> "deck") @@ (g1 :> "deck.audit")

(* The two applications by themselves, whose writes may fail. *)
NoGenerator == {}
FailingWrites == {"write"}
=============================================================================
