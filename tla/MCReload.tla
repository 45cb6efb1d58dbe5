------------------------------- MODULE MCReload -------------------------------
(***************************************************************************)
(* Configurations that share sockets, one that cannot bind its last socket *)
(* because it is its own second one, and one with another database.        *)
(***************************************************************************)
EXTENDS Reload

MCSockets == [c \in {"plain", "signed", "twice", "moved"} |->
  CASE c = "plain"  -> <<"dns1", "api">>
    [] c = "signed" -> <<"dns2", "api">>
    [] c = "twice"  -> <<"dns1", "api2", "api2">>
    [] c = "moved"  -> <<"dns1", "api">>]
MCConfigs == DOMAIN MCSockets
MCDatabase == [c \in MCConfigs |-> IF c = "moved" THEN "other" ELSE "data"]
MCHasMmdb == [c \in MCConfigs |-> c # "plain"]
MCSigns == [c \in MCConfigs |-> c = "signed"]
=============================================================================
