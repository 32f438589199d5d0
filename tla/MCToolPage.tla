----------------------------- MODULE MCToolPage -----------------------------
(* A tool that runs in the browser only, one that may fall back to the     *)
(* API, and one that takes files.                                          *)
EXTENDS ToolPage

CONSTANTS json, xlsx, image, csvFormat, yamlFormat

MCKind == [t \in {json, xlsx, image} |-> IF t = json THEN "WasmOnly" ELSE "WasmPreferred"]

MCOutputFormats ==
  [t \in {json, xlsx, image} |-> IF t = xlsx THEN {csvFormat} ELSE {csvFormat, yamlFormat}]

MCDefaultFormat ==
  [t \in {json, xlsx, image, NoTool} |-> IF t = json THEN yamlFormat ELSE csvFormat]
=============================================================================
