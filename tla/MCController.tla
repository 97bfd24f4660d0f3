---------------------------- MODULE MCController ----------------------------
(* Values for Controller's constants: a certificate that ends while the    *)
(* controller runs and one without a common name, policies of two clients  *)
(* and two services with every kind of condition, one of them with a null  *)
(* for a bound, and the requests the decision is compared on.              *)
EXTENDS Controller, TLC

MCNotBefore == ("main" :> 0) @@ ("anonymous" :> 1)

MCNotAfter == ("main" :> 0) @@ ("anonymous" :> 1)

MCClientOf == ("main" :> "alice") @@ ("anonymous" :> NoClient)

MCLower == ("Linux" :> "linux") @@ ("LINUX" :> "linux") @@ ("macOS" :> "macos")

Str(x) == [k |-> "string", v |-> x]

Lst(x) == [k |-> "list", v |-> x]

Time(n) == [k |-> "time", v |-> n]

Null == [k |-> "null", v |-> None]

Cond(type, op, value) == [type |-> type, op |-> op, value |-> value]

Pol(client, service, expiry, conditions) ==
    [client |-> client, service |-> service, expiry |-> expiry, conditions |-> conditions]

MCPolicies ==
    [open   |-> Pol("alice", "db", 1, <<>>),
     web    |-> Pol("alice", "web", 0, <<Cond("device_os", "ne", Str("LINUX")),
                                         Cond("device_compliance", "eq", [k |-> "bool", v |-> FALSE])>>),
     device |-> Pol("bob", "db", 0, <<Cond("time_range", "between", Lst(<<Time(0), Time(2)>>)),
                                      Cond("device_os", "in", Lst(<<Time(1), Str("Linux")>>)),
                                      Cond("device_compliance", "eq", [k |-> "bool", v |-> TRUE]),
                                      Cond("geo_location", "in", Lst(<<Str("NZ")>>))>>),
     broken |-> Pol("alice", "db", 0, <<Cond("time_range", "between", Lst(<<Str("noon"), Null>>))>>),
     null   |-> Pol("alice", "db", 0, <<Cond("time_range", "between", Lst(<<Time(0), Null>>))>>)]

MCInitialPolicies == {<<"broken", "open">>, <<"device", "web", "null", "open">>}

Ask(client, service, device, ip) ==
    [client |-> client, service |-> service, device |-> device, ip |-> ip]

Device(os, ok) == [os |-> os, compliance |-> ok]

MCProbes ==
    <<Ask("alice", "db", None, FALSE), Ask("alice", "web", Device("macOS", FALSE), FALSE),
      Ask("bob", "web", Device("macOS", FALSE), TRUE),
      Ask("bob", "db", Device("LINUX", TRUE), TRUE), Ask("bob", "db", Device("LINUX", TRUE), FALSE),
      Ask("bob", "db", Device("macOS", TRUE), TRUE), Ask(NoClient, "db", Device("Linux", TRUE), TRUE)>>

Symmetry == Permutations(Requests) \cup Permutations(Tokens) \cup Permutations(Targets)
=============================================================================
