---------------------------- MODULE MCMongoSync ----------------------------
(* Two small collections for checking MongoSync with TLC. *)
EXTENDS MongoSync, TLC

CONSTANTS raw, rank

MCCollections == <<raw, rank>>
MCSize == raw :> 4 @@ rank :> 1
MCUnmappable == raw :> {1} @@ rank :> {}
MCPresent == raw :> {2} @@ rank :> {}
MCNone == raw :> {} @@ rank :> {}

LastUnmappable == raw :> {4} @@ rank :> {}
=============================================================================
