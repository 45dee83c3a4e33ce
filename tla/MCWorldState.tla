---------------------------- MODULE MCWorldState ----------------------------
(* WorldState with the players and flags of a small server, and Scene with  *)
(* two tanks.  Players are interchangeable, and flags, since no id is       *)
(* compared but for equality.  The two share no state, so that one moves    *)
(* only while the other stands at its beginning.                            *)
EXTENDS WorldState, Scene, TLC

CONSTANTS p1, p2, p3, f1, f2, f3, t1, t2

MCPlayers == {p1, p2, p3}
MCFlags == {f1, f2, f3}
MCTanks == {t1, t2}
MCGeometries == {<<"box">>, <<"teleporter", "box">>}

Symmetry == Permutations(MCPlayers) \cup Permutations(MCFlags)

MCInit == Init /\ SceneInit
WorldMoves == SceneInit /\ Next /\ UNCHANGED sceneVars
SceneMoves == Init /\ SceneNext /\ UNCHANGED vars
MCSpec == MCInit /\ [][WorldMoves \/ SceneMoves]_<<vars, sceneVars>>
=============================================================================
