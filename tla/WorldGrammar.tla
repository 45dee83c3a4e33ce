---------------------------- MODULE WorldGrammar ----------------------------
(***************************************************************************)
(* The packed world database of BZFS as src/client/world.ts reads it.  The *)
(* stream has no tags: its only reading is the order of the managers, so   *)
(* the readers are written here as layouts, sequences of items, and        *)
(* WorldReader runs them over a stream.  A layout keeps what decides how   *)
(* many bytes are read and when the reader throws; the values of names,    *)
(* coordinates and indices that nothing else depends on are left out.      *)
(***************************************************************************)
EXTENDS Naturals, Sequences

\* n bytes whose value decides nothing; k floats that must be finite; a
\* string behind its length.
Bytes(n)  == [op |-> "bytes", n |-> n]
Floats(k) == [op |-> "floats", n |-> 4 * k]
Text      == [op |-> "text", n |-> 4]

\* A count of w bytes that is at most a limit, and as many bodies.
Many(w, limit, body)  == [op |-> "many", n |-> w, limit |-> limit, of |-> body]
List(limit, body)     == Many(4, limit, body)
ObstacleList(kind)       == [op |-> "obstacles", n |-> 4, limit |-> "obstacles", of |-> kind]

\* A choice made by n bytes read here (none: by a value read before); a
\* partial one throws on every other value.
OneOf(n, bodies)   == [op |-> "choice", n |-> n, of |-> bodies, total |-> FALSE]
Maybe(body)        == [op |-> "choice", n |-> 0, of |-> {body, "nothing"}, total |-> TRUE]
Call(body)         == [op |-> "choice", n |-> 0, of |-> {body}, total |-> TRUE]

\* Items with a meaning of their own.
Sequence    == [op |-> "sequence", n |-> 4]
MappedName  == [op |-> "mappedName", n |-> 4]
Texcoords   == [op |-> "texcoords", n |-> 4]
Face        == [op |-> "face", n |-> 1]
MeshState   == [op |-> "meshState", n |-> 1]

\* The managers, in the only order the stream has.
Database == <<List("entries", "color"), List("entries", "texture"),
              List("entries", "material"), List("entries", "driver"),
              List("entries", "transform"), Call("obstacles"),
              List("definitions", "group"), List("entries", "link"),
              Floats(1), Maybe("index"), List("weapons", "weapon"),
              List("zones", "zone")>>

\* Four channels of two bounds, three lists of waves and a sequence.
DynamicColor == <<Text, Call("channel"), Call("channel"), Call("channel"), Call("channel")>>
Channel == <<Floats(2), List("entries", "wave"), List("entries", "wave"),
             List("entries", "wave"), Sequence>>
TextureMatrix == <<Text, Bytes(1), Maybe("static"), Maybe("dynamic")>>
Material == <<Text, Bytes(5), Floats(18), Many(1, "textures", "materialTexture"),
              Many(1, "shaders", "string")>>
MaterialTexture == <<Text, Bytes(9)>>
PhysicsDriver == <<Text, Floats(10), Text>>
Transform == <<Text, List("transforms", "operation")>>
Operation == <<OneOf(1, {"vector", "spin", "index"})>>

\* The lists of obstacles of the world and of every group definition.
ObstacleLists == <<ObstacleList("wall"), ObstacleList("box"), ObstacleList("pyramid"),
                   ObstacleList("base"), ObstacleList("teleporter"), ObstacleList("mesh"),
                   ObstacleList("arc"), ObstacleList("cone"), ObstacleList("sphere"),
                   ObstacleList("tetra")>>
Wall == <<Floats(6), Bytes(1)>>
Box  == <<Floats(7), Bytes(1)>>
Base == <<Bytes(2), Floats(7), Bytes(1)>>
Teleporter == <<Text, Floats(8), Bytes(2)>>
Mesh == <<List("checks", "check"), List("vertices", "vertex"), List("normals", "normal"),
          Texcoords, List("faces", "face"), MeshState>>
Arc == Transform \o <<Floats(9), Bytes(8), Floats(4), Bytes(25)>>
Cone == Transform \o <<Floats(8), Bytes(8), Floats(2), Bytes(17)>>
Sphere == Transform \o <<Floats(7), Bytes(8), Floats(2), Bytes(9)>>
Tetra == <<Bytes(1)>> \o Transform \o <<Floats(12), Bytes(1),
           Maybe("normals"), Maybe("normals"), Maybe("normals"), Maybe("normals"), Bytes(1),
           Maybe("texcoords"), Maybe("texcoords"), Maybe("texcoords"), Maybe("texcoords"),
           Bytes(16)>>

Group == <<Text, Call("obstacles"), List("instances", "instance")>>
Instance == <<Text, MappedName>> \o Transform
            \o <<Bytes(1), Maybe("team"), Maybe("tint"), Maybe("index"), Maybe("index")>>

Link == <<Text, Text>>
Weapon == <<Bytes(2), Floats(5), Many(2, "delays", "number")>>
\* The three counts of a zone are read before the first member of any of them.
Zone == <<Floats(7), [op |-> "members", n |-> 6]>>

\* The records that are collected in a list, and those that are obstacles.
ObstacleKinds == {"wall", "box", "pyramid", "base", "teleporter", "mesh", "arc", "cone",
          "sphere", "tetra"}
RecordNames == ObstacleKinds \cup {"color", "channel", "wave", "texture", "material",
                       "materialTexture", "string", "driver", "transform", "operation",
                       "check", "vertex", "normal", "face", "group", "instance", "link",
                       "weapon", "number", "zone", "member"}

\* The layouts that hold lists of obstacles, themselves or in one they call.
OuterNames == {"database", "obstacles", "group"}

WorldLayout ==
  [database |-> Database, color |-> DynamicColor, channel |-> Channel,
   wave |-> <<Floats(3)>>, texture |-> TextureMatrix, static |-> <<Floats(7)>>,
   dynamic |-> <<Floats(9)>>, material |-> Material,
   materialTexture |-> MaterialTexture, string |-> <<Text>>,
   driver |-> PhysicsDriver, transform |-> Transform, operation |-> Operation,
   vector |-> <<Floats(3)>>, spin |-> <<Floats(4)>>, index |-> <<Bytes(4)>>,
   nothing |-> <<>>, obstacles |-> ObstacleLists, wall |-> Wall, box |-> Box,
   pyramid |-> Box, base |-> Base, teleporter |-> Teleporter, mesh |-> Mesh,
   check |-> <<Bytes(1), Floats(3)>>, vertex |-> <<Floats(3)>>,
   normal |-> <<Floats(3)>>, face |-> <<Face>>, arc |-> Arc, cone |-> Cone,
   sphere |-> Sphere, tetra |-> Tetra, normals |-> <<Floats(9)>>,
   texcoords |-> <<Floats(6)>>, group |-> Group, instance |-> Instance,
   team |-> <<Bytes(2)>>, tint |-> <<Floats(4)>>, link |-> Link,
   weapon |-> Weapon, number |-> <<Floats(1)>>, zone |-> Zone,
   member |-> <<Bytes(2)>>]
=============================================================================
