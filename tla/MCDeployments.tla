--------------------------- MODULE MCDeployments ---------------------------
EXTENDS DeploymentsInvariant, TLC

CONSTANTS Old, New   \* versions, of which neither comes first

Sym == Permutations(Procs) \cup Permutations(Ids) \cup Permutations({Old, New})

Web == <<"web">>
WebDb == <<"web", "db">>
MCApps == {Web, WebDb}
Beijing == [app |-> "shop", region |-> "cn-beijing", uid |-> "7"]
Main    == [app |-> "main", region |-> NoRegion, uid |-> "main"]   \* ConfigAccount
MCScopes == Web :> {NoScope, Beijing, Main} @@ WebDb :> {NoScope}
MCCredentials == {Beijing, Main}
V1 == [version |-> Old, outs |-> {"db"}]
V2 == [version |-> New, outs |-> {"db"}]
V3 == [version |-> None, outs |-> {}]
MCTemplates == Web :> {V1, V2} @@ WebDb :> {V3}
=============================================================================
