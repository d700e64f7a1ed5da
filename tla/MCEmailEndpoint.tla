--------------------------- MODULE MCEmailEndpoint ---------------------------
(* Three requests of one client, whose address a proxy or the connection    *)
(* shows, and one of an unknown client.                                     *)
EXTENDS EmailEndpoint

MCForwarded == [r \in Requests |-> IF r \in {1, 2} THEN <<"ada", "proxy">> ELSE <<>>]
MCRemote == [r \in Requests |-> CASE r = 1 -> "proxy" [] r = 4 -> "" [] OTHER -> "ada"]

File(ext, size) == [ext |-> ext, size |-> size]
MCFiles == [r \in Requests |->
               CASE r = 2 -> <<File("png", 1), File("pdf", 3)>>
                 [] r = 3 -> <<File("exe", 3), File("pdf", 3)>>
                 [] OTHER -> <<File("png", 1)>>]
=============================================================================
