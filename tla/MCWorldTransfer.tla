--------------------------- MODULE MCWorldTransfer ---------------------------
(* Small instances of WorldTransfer and of WorldReader for TLC.  The reader *)
(* is what the transfer only knows to succeed or to fail: its stream is any *)
(* stream, so the two share no state, and one moves only while the other    *)
(* stands at its beginning.                                                 *)
EXTENDS WorldTransfer, WorldGrammar, WorldReader

DatabaseOf(bytes, recognized, compressed, uncompressed, inflated, wellFormed) ==
  [bytes |-> bytes, recognized |-> recognized, compressed |-> compressed,
   uncompressed |-> uncompressed, inflated |-> inflated, wellFormed |-> wellFormed]

MCDatabases == {
  DatabaseOf(5, TRUE, 3, 2, 2, TRUE),     \* decodes
  DatabaseOf(3, TRUE, 1, 1, 1, TRUE),     \* decodes, and is smaller
  DatabaseOf(5, TRUE, 3, 2, 1, TRUE),     \* inflates to another length
  DatabaseOf(4, TRUE, 2, 2, 2, FALSE),    \* is not a database
  DatabaseOf(3, FALSE, 1, 1, 1, TRUE),    \* is not an envelope
  DatabaseOf(4, TRUE, 2, 4, 4, TRUE),     \* is too large when inflated
  DatabaseOf(6, TRUE, 4, 2, 2, TRUE)}     \* is too large
\* Limits that a stream of less than two hundred bytes reaches.
MCLimit == [entries |-> 5, obstacles |-> 2, total |-> 2, transforms |-> 1, checks |-> 1,
            vertices |-> 2, normals |-> 1, texcoords |-> 2, faces |-> 1,
            faceVertices |-> 1, weapons |-> 1, delays |-> 1, zones |-> 1,
            members |-> 1, definitions |-> 1, instances |-> 1, textures |-> 1,
            shaders |-> 1, sequences |-> 1, mappings |-> 1, text |-> 14]
MCIndices == -1 .. 1
MCRewinds == {0, 8, 12, 16, 24}

MCInit == Init /\ ReaderInit
TransferMoves == pos = 0 /\ size = 181 /\ result = "reading" /\ Next /\ UNCHANGED readerVars
ReaderMoves == database = NoDatabase /\ Init /\ ReaderNext /\ UNCHANGED vars
MCSpec == MCInit /\ [][TransferMoves \/ ReaderMoves]_<<vars, readerVars>>
=============================================================================
