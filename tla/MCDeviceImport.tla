--------------------------- MODULE MCDeviceImport ---------------------------
(* One operation that asks a device for the archive of one Run.             *)
EXTENDS DeviceImport

MCImport == [op |-> "i1", archive |-> "a1", content |-> ContentOf("a1")]
MCImports == {MCImport}
MCDeviceRequests == {[op |-> "i1", profile |-> "p1", policy |-> "pol1", import |-> MCImport]}
=============================================================================
