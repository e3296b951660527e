---------------------------- MODULE MCWorkspace ----------------------------
(* Instances of Workspace: traces that open with a floorplan and a         *)
(* waterfall, with a floorplan, or with nothing.                           *)
EXTENDS Workspace

Both == {<<"play", "waterfall">>, <<"play">>, <<>>}
=============================================================================
