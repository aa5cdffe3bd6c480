----------------------------- MODULE MCEndpoint -----------------------------
(***************************************************************************)
(* An instance of the endpoint: requests for a stream, for storage and for *)
(* a tool, under the same request_id; one that reuses the client_id of the *)
(* first and the nonce of the second; and one that reuses the second one's *)
(* grant of the vault; one without the grant it needs; one that Validate   *)
(* refuses; and one without a body.  Storage and http require approval.    *)
(***************************************************************************)
EXTENDS Endpoint

Streaming == [id |-> 1, client |-> 1, body |-> 1, nonce |-> 0, epoch |-> 0]
Storage   == [id |-> 2, client |-> 2, body |-> 2, nonce |-> 2, epoch |-> 0]
Tool      == [id |-> 2, client |-> 4, body |-> 4, nonce |-> 0, epoch |-> 0]
Reused    == [id |-> 5, client |-> 1, body |-> 3, nonce |-> 2, epoch |-> 0]
Replayed  == [id |-> 3, client |-> 3, body |-> 2, nonce |-> 3, epoch |-> 0]
Ungranted == [id |-> 6, client |-> 5, body |-> 3, nonce |-> 0, epoch |-> 0]
Invalid   == [id |-> 7, client |-> 6, body |-> 5, nonce |-> 0, epoch |-> 0]
Empty     == [id |-> 8, client |-> 7, body |-> 6, nonce |-> 0, epoch |-> 0]

AllRequests == {Streaming, Storage, Tool, Reused, Replayed, Ungranted, Invalid, Empty}
Handlers    == <<"stream", "storage", "http", "mcp", "invalid", "empty">>
=============================================================================
