------------------------------ MODULE MCDaemon ------------------------------
(***************************************************************************)
(* Instances for TLC of Daemon, with TACACS+ and RADIUS/TLS or RADIUS/UDP  *)
(* beside it, every place where the start can fail and an address that two *)
(* listeners share; and of RadSec, where two certificates change hands     *)
(* between two clients whose endpoints have the same id.  A behaviour is   *)
(* one of the two scenes.                                                  *)
(***************************************************************************)
EXTENDS Daemon, RadSec, TLC

VARIABLE scene
mcvars == <<vars, rvars, scene>>

-----------------------------------------------------------------------------
MCKind == ("legacy" :> "tacacs") @@ ("radsec" :> "radsec") @@ ("dyn" :> "udp")
          @@ ("secure" :> "tacacs")
MCBind == ("legacy" :> [net |-> "tcp", host |-> "*", port |-> 49])
          @@ ("radsec" :> [net |-> "tcp", host |-> "a", port |-> 2083])
          @@ ("dyn" :> [net |-> "udp", host |-> "a", port |-> 49])
          @@ ("secure" :> [net |-> "tcp", host |-> "a", port |-> 49])
MCOrder == <<"legacy", "dyn", "radsec", "secure">>

Setup(build, fails, admin) ==
  [build |-> build, fails |-> fails, http |-> admin, obs |-> "up", adminOnly |-> Len(build) = 0]

MCSetups ==
  {Setup(<<"legacy", "radsec">>, f, "up") : f \in {"nothing", "load", "radsec", "obs", "http", "accept"}}
  \cup {Setup(<<"legacy", "dyn">>, "nothing", "up"),
        Setup(<<"legacy", "secure">>, "nothing", "off"),
        Setup(<<"radsec">>, "nothing", "off"),
        Setup(<<"dyn">>, "nothing", "up"),
        Setup(<<>>, "nothing", "up")}

-----------------------------------------------------------------------------
Both == {"access", "accounting"}
Client(id, san, priority, roles, secret, permit) ==
  [id |-> id, enabled |-> TRUE, priority |-> priority, mode |-> "cert", transports |-> {"tls"}, cidrs |-> {},
   sans |-> {san}, radius |-> [udp |-> {}, tls |-> roles], secret |-> secret, ma |-> permit, permit |-> permit]
MCDocuments ==
  {{Client("A", "x", 1, Both, "s", TRUE), Client("B", "y", 1, Both, "s", FALSE)},
   {Client("A", "y", 1, Both, "t", TRUE), Client("B", "x", 1, {"accounting"}, "s", FALSE)},
   {Client("A", "x", 1, {"access"}, "s", FALSE), Client("B", "x", 2, {"accounting"}, "none", FALSE)}}
MCCerts == {[name |-> "cx", issuer |-> "ca", sans |-> {"x"}], [name |-> "cy", issuer |-> "ca", sans |-> {"y"}]}
MCPackets ==
  {[role |-> "access", id |-> 1, signed |-> s] : s \in {"s", "no"}}
  \cup {[role |-> "accounting", id |-> 1, signed |-> "s"], [role |-> "none", id |-> 1, signed |-> "no"]}
MCTrusts ==
  {[ca |-> {"ca"}, crl |-> "off", revoked |-> {}], [ca |-> {"ca"}, crl |-> "valid", revoked |-> {"cx"}]}
MCAddr == [form |-> "v4", addr |-> 0]

-----------------------------------------------------------------------------
MCInit ==
  /\ scene \in {"daemon", "radsec"}
  /\ Init /\ (scene = "radsec" => setup = Setup(<<>>, "nothing", "up"))
  /\ RsInit /\ (scene = "daemon" => doc = CHOOSE d \in MCDocuments : TRUE)
            /\ (scene = "daemon" => trust = CHOOSE t \in MCTrusts : TRUE)
MCNext ==
  \/ scene = "daemon" /\ Next /\ UNCHANGED <<rvars, scene>>
  \/ scene = "radsec" /\ RsNext /\ UNCHANGED <<vars, scene>>
MCSpec == MCInit /\ [][MCNext]_mcvars /\ (scene = "daemon" => Fairness)

=============================================================================
