------------------------------- MODULE MCTray -------------------------------
(* Instances of Tray for TLC. *)
EXTENDS Tray

Session(start, legacy, changes) ==
  [autostart |-> start, legacy |-> legacy, saves |-> changes]

\* A change of the settings, an autostart, or a legacy server.
OneThingEach == {Session(FALSE, FALSE, 1), Session(TRUE, FALSE, 0), Session(FALSE, TRUE, 0)}

OneSave == {Session(FALSE, FALSE, 1)}
=============================================================================
