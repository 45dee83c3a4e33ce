-------------------------------- MODULE Scene --------------------------------
(***************************************************************************)
(* client/game.ts between the reducer and the renderer: a packet that was  *)
(* applied, and a map, are pushed to the renderer in the same turn; the    *)
(* loop of frames draws when the browser calls it; the session may stop    *)
(* the renderer, and a map that was being decoded arrives all the same.    *)
(***************************************************************************)
EXTENDS PlayerRoster, Renderer

sceneVars == <<rosterVars, rendererVars>>

SceneInit == RosterInit /\ RendererInit

\* handleGatewayMessage, and handleWorldChunk with a decoded map.  The page has
\* built its renderer, and pushed the empty world to it, before its session.
Receive ==
  /\ mode \notin {"none", "fallback"}
  /\ RosterNext
  /\ SetWorldState(RosterSnapshot')

SceneNext == Receive \/ (RendererNext /\ UNCHANGED rosterVars)

SceneSpec == SceneInit /\ [][SceneNext]_sceneVars

-----------------------------------------------------------------------------
\* When no packet came since the last frame, what that frame drew is the scene of
\* the world as it is, and not one the cache kept of an earlier world.
PictureCurrent == fresh => picture = SceneObjects(RosterSnapshot)

\* A tank that is alive, says its last update, is drawn where the frame has room.
AliveTanksDrawn ==
  fresh /\ Len(picture) < MaxRenderObjects =>
    \A t \in DOMAIN tanks :
      "alive" \in tanks[t].status => <<"entity", t>> \in ToSet(picture)
=============================================================================
