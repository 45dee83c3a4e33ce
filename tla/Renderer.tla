------------------------------- MODULE Renderer -------------------------------
(***************************************************************************)
(* client/renderer.ts: the choice between WebGPU and WebGL2, the loop of   *)
(* animation frames, and the list of objects a frame draws, cached by the  *)
(* revision of the snapshot it was made from.  A snapshot is the record of *)
(* RosterSnapshot.  Positions, colours, meshes and the calls of the two    *)
(* graphics APIs are left out; a call that throws is one that may.         *)
(***************************************************************************)
EXTENDS Integers, Sequences, SequencesExt

CONSTANT MaxRenderObjects   \* limit of the objects of one frame

ASSUME RendererAssumption == MaxRenderObjects \in Nat

VARIABLES
  mode,        \* the backend: none yet, webgpu, webgl2, or unavailable
  claimed,     \* the canvas gave a WebGPU context, and gives no other any more
  lifecycle,   \* ready, error or stopped
  stopped,     \* draw and the callbacks return at once
  cleaned,     \* stop was called
  frames,      \* animation frames requested and not cancelled
  device,      \* present, or lost, which a callback will tell
  listening,   \* the observer and the listener are attached, GPU objects held
  pushed,      \* the snapshot of the last setWorldState
  cached,      \* revision and objects of the last scene that was built
  picture,     \* what the last frame drew
  fresh        \* history: a frame was drawn since the last setWorldState

rendererVars == <<mode, claimed, lifecycle, stopped, cleaned, frames, device,
                  listening, pushed, cached, picture, fresh>>

NoRevision == -1
DefaultSnapshot ==
  [revision |-> 0, tanks |-> << >>, entities |-> {}, geometry |-> << >>, water |-> FALSE]

RendererInit ==
  /\ mode = "none" /\ lifecycle = "ready" /\ device = "present"
  /\ claimed = FALSE /\ stopped = FALSE /\ cleaned = FALSE /\ listening = FALSE
  /\ frames = 0 /\ pushed = DefaultSnapshot
  /\ cached = [revision |-> NoRevision, objects |-> << >>]
  /\ picture = << >> /\ fresh = FALSE

-----------------------------------------------------------------------------
(* The scene.  An object is its layer and what it stands for.              *)

Parts(layer, names) == [i \in DOMAIN names |-> <<layer, names[i]>>]

\* An object of the map; a teleporter has a ring and a beam.
GeometryObjects(snapshot) ==
  FlattenSeq([i \in DOMAIN snapshot.geometry |->
    <<<<"world", i>>>> \o (IF snapshot.geometry[i] = "teleporter"
                              THEN Parts("teleporter", <<"ring", "beam">>) ELSE << >>)])

WaterObjects(snapshot) == IF snapshot.water THEN <<<<"water", "water">>>> ELSE << >>

IsAlive(tank) == tank.alive /\ "alive" \in tank.status

\* A tank is a body, a turret, a barrel and two tracks.
TankObjects(id, tank) == IF IsAlive(tank) THEN [i \in 1 .. 5 |-> <<"entity", id>>] ELSE << >>

EntityObjects(snapshot) ==
  (IF "shot" \in snapshot.entities THEN <<<<"entity", "shot">>, <<"effects", "shot">>>> ELSE << >>)
    \o (IF "flag" \in snapshot.entities THEN [i \in 1 .. 3 |-> <<"entity", "flag">>] ELSE << >>)

Layers == <<"world", "water", "teleporter", "entity", "effects">>

\* sceneObjects: sorted by layer, and what is over the limit is left out.
SceneObjects(snapshot) ==
  LET tank(i) == TankObjects(snapshot.tanks[i][1], snapshot.tanks[i][2])
      all == GeometryObjects(snapshot) \o WaterObjects(snapshot)
               \o FlattenSeq([i \in DOMAIN snapshot.tanks |-> tank(i)])
               \o EntityObjects(snapshot)
      sorted == FlattenSeq([l \in DOMAIN Layers |->
                              SelectSeq(all, LAMBDA object : object[1] = Layers[l])])
  IN SubSeq(sorted, 1, IF Len(sorted) < MaxRenderObjects THEN Len(sorted) ELSE MaxRenderObjects)

\* createSceneObjectCache: revision zero, of no packet yet, is never trusted.
CachedScene ==
  IF pushed.revision = 0 \/ pushed.revision # cached.revision
    THEN [revision |-> pushed.revision, objects |-> SceneObjects(pushed)]
    ELSE cached

-----------------------------------------------------------------------------
(* createRenderer.                                                         *)

Unused == UNCHANGED <<lifecycle, stopped, cleaned, device, pushed, cached, picture, fresh>>

\* makeWebGPURenderer succeeds: the first frame is requested.
MakeWebGPU ==
  /\ mode = "none" /\ ~claimed
  /\ mode' = "webgpu" /\ claimed' = TRUE /\ frames' = 1 /\ listening' = TRUE
  /\ Unused

\* It throws, before the canvas has given a context or after.
WebGPUFails(late) ==
  /\ mode = "none" /\ ~claimed
  /\ mode' = "fallback" /\ claimed' = late
  /\ UNCHANGED <<frames, listening>> /\ Unused

\* makeWebGLRenderer, when WebGPU was not asked for or threw: a canvas that has
\* a context of the other kind gives none.
MakeWebGL ==
  /\ mode \in {"none", "fallback"} /\ ~claimed
  /\ mode' = "webgl2" /\ frames' = 1 /\ listening' = TRUE
  /\ UNCHANGED claimed /\ Unused

\* It throws: the page gets a renderer that does nothing.
Unavailable ==
  /\ mode \in {"none", "fallback"}
  /\ mode' = "unavailable" /\ lifecycle' = "error"
  /\ UNCHANGED <<claimed, stopped, cleaned, frames, device, listening, pushed,
                 cached, picture, fresh>>

Running == mode \in {"webgpu", "webgl2"}

-----------------------------------------------------------------------------
(* The renderer.                                                           *)

\* setWorldState of either backend, whether stopped or not.
SetWorldState(snapshot) ==
  IF Running
    THEN /\ pushed' = snapshot /\ fresh' = FALSE
         /\ UNCHANGED <<mode, claimed, lifecycle, stopped, cleaned, frames, device,
                        listening, cached, picture>>
    ELSE UNCHANGED rendererVars

\* fail: the frame that is pending is cancelled.
Fail == lifecycle' = "error" /\ stopped' = TRUE /\ frames' = 0

\* draw, as the callback of a frame.
Draw ==
  /\ Running /\ frames > 0
  /\ IF stopped
       THEN frames' = frames - 1 /\ UNCHANGED <<cached, picture, fresh>>
       ELSE /\ cached' = CachedScene
            /\ picture' = CachedScene.objects /\ fresh' = TRUE
            /\ UNCHANGED frames \* the one that ran, and one requested
  /\ UNCHANGED <<mode, claimed, lifecycle, stopped, cleaned, device, listening, pushed>>

\* draw throws, on its way: no further frame is requested.
DrawFails ==
  /\ Running /\ frames > 0 /\ ~stopped
  /\ Fail
  /\ UNCHANGED <<mode, claimed, cleaned, device, listening, pushed, cached, picture, fresh>>

\* The browser takes the GPU away.
DeviceLost ==
  /\ Running /\ device = "present"
  /\ device' = "lost"
  /\ UNCHANGED <<mode, claimed, lifecycle, stopped, cleaned, frames, listening,
                 pushed, cached, picture, fresh>>

\* Mutated form of Heard: it is heard even when the renderer was stopped.
HeardAlways == device = "lost"

\* Who hears of it: the listener of WebGL2 is attached till stop; the promise of
\* WebGPU asks whether the renderer runs.
Heard == device = "lost" /\ IF mode = "webgl2" THEN listening ELSE ~stopped

\* onContextLost, and the callback of device.lost.
LossReported ==
  /\ Running /\ Heard /\ lifecycle # "error"
  /\ Fail
  /\ UNCHANGED <<mode, claimed, cleaned, device, listening, pushed, cached, picture, fresh>>

\* stop, of a session that ends.  Destroying the device of WebGPU loses it.
Stop ==
  /\ Running /\ ~cleaned
  /\ stopped' = TRUE /\ cleaned' = TRUE
  /\ lifecycle' = IF lifecycle = "error" THEN lifecycle ELSE "stopped"
  /\ frames' = 0 /\ listening' = FALSE
  /\ device' = IF mode = "webgpu" THEN "lost" ELSE device
  /\ UNCHANGED <<mode, claimed, pushed, cached, picture, fresh>>

RendererNext ==
  \/ MakeWebGPU \/ MakeWebGL \/ Unavailable
  \/ \E late \in BOOLEAN : WebGPUFails(late)
  \/ Draw \/ DrawFails \/ DeviceLost \/ LossReported \/ Stop

-----------------------------------------------------------------------------
\* A renderer that is ready has one frame to come, one that failed or was
\* stopped has none; and a device that is lost to stop, or after it, is not made
\* an error of the page.
LoopRuns ==
  /\ [](Running => frames = IF lifecycle = "ready" THEN 1 ELSE 0)
  /\ [][lifecycle = "stopped" => lifecycle' = "stopped"]_rendererVars
=============================================================================
