-------------------------- MODULE MCExportPipeline --------------------------
(* ExportPipeline with no, one and two exporters and four items: i2 is     *)
(* not a slice or a map, and i3 cannot be encoded as JSON.                 *)
EXTENDS ExportPipeline

CONSTANTS i1, i2, i3, i4

MCConfigurations ==
  {<<>>, <<"json">>, <<"csv", "jsonline">>, <<"pretty", "csv">>, <<"jsonline", "json">>}

(* Two exporters of which the first can fail.                              *)
MCJsonThenCsv == {<<"json", "csv">>}
=============================================================================
