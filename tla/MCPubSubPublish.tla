--------------------------- MODULE MCPubSubPublish ---------------------------
(* A small instance of PubSubPublish for TLC. *)
EXTENDS PubSubPublish

URL(s, h, p) == [scheme |-> s, host |-> h, path |-> p]
PubSub(fn, u, ordered) ==
    [service |-> "pubsub", name |-> "pubsub", url |-> u, fn |-> fn, ordered |-> ordered]
Genai(project, location, apiKey, backend) ==
    [service |-> "genai", name |-> "topic", project |-> project,
     location |-> location, apiKey |-> apiKey, backend |-> backend]

MCProjects == {"", "p"}
MCLocations == {""}
MCOptions == {"o"}
MCHeaderKeys == {"h"}
MCHeaderValues == {[type |-> "int", text |-> "1"]}
MCRegistryKeys == {<<"topic">>, <<"topic", "/x">>, <<"pubsub">>}
MCRequests ==
    {PubSub("Send", URL("pubsub", "topic", ""), FALSE),
     PubSub("SendBatch", URL("pubsub", "topic", "/x"), TRUE),
     PubSub("SendBatch", URL("pubsub", "topic", ""), FALSE),
     PubSub("SendBatch", URL("pubsub", "", ""), FALSE),
     [service |-> "gs", name |-> "gs", url |-> URL("gs", "topic", "/x")],
     [service |-> "gs", name |-> "gs", url |-> URL("s3", "topic", "/x")],
     [service |-> "gs", name |-> "gs", url |-> NilURL],
     [service |-> "own", name |-> "pubsub", url |-> NilURL],
     Genai("q", "", "", ""), Genai("", "", "k", ""),
     [service |-> "secrets", name |-> "", url |-> NilURL, project |-> "p"]}
=============================================================================
