---------------------------- MODULE ProcessDrivers ----------------------------
(***************************************************************************)
(* The two drivers a managed process host can be given                     *)
(* (packages/execution/src/local-managed-process-host.ts picks the one of  *)
(* the platform).                                                          *)
(***************************************************************************)
EXTENDS LinuxDriver, WindowsDriver

(* Whatever the driver of the platform is, the host sees a tree that obeys   *)
(* one contract: it is reported once, as final only when it is empty, for    *)
(* the cause that ended it (posix-process-group-driver.ts,                   *)
(* windows-job-driver.ts).                                                   *)
DriversKeepContract == LinuxKeepsContract /\ WindowsKeepsContract
=============================================================================
