----------------------------- MODULE MCUpdater -----------------------------
(* The release that came with the installer, its qualification, an update   *)
(* away from it and a rollback to it, each of which may be asked for again.  *)
EXTENDS Updater

Update(op, action, release, n) == [op |-> op, action |-> action, release |-> release, run |-> n]
MCUpdates == {Update("u1", "QUALIFY", "A", 1), Update("u2", "APPLY", "B", 1),
              Update("u3", "ROLLBACK", "A", 0)}
=============================================================================
