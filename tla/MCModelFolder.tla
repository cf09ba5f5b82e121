---------------------------- MODULE MCModelFolder ----------------------------
(* Small instances of ModelFolder: fixtures.json is no core file, the old    *)
(* weights have the size of the new ones, the old laya.json has not.         *)
EXTENDS ModelFolder

CONSTANTS s1, p1

ThreeFiles == <<"fixtures.json", "laya.json", "model.onnx">>
TwoCore    == {"laya.json", "model.onnx"}
NewExport  == [f \in Files |-> IF f = "model.onnx" THEN <<"new", "new">> ELSE <<"new">>]
OldExport  == [f \in Files |-> IF f = "fixtures.json" THEN <<"old">> ELSE <<"old", "old">>]
=============================================================================
