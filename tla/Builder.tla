------------------------------ MODULE Builder -------------------------------
(***************************************************************************)
(* SessionBuilder and its TLS context (src/src/session_builder.rs, tls.rs).*)
(* The builder keeps the driver's SessionConfig and, for what Python passed*)
(* as an object, a mirror of it that get_config() shows. One thread        *)
(* connects a LegacySession, which takes two locked reads of the builder;  *)
(* the others call its setters. Fields of one kind stand for all the       *)
(* settings of that kind.                                                  *)
(***************************************************************************)
EXTENDS Naturals, Sequences

CONSTANTS BuilderProfiles,  \* the execution profiles passed to the builder
          MaxCalls          \* setter calls

VARIABLES
  config,     \* PySessionBuilderConfig.config, the driver's SessionConfig
  mirror,     \* the fields Python reads that config does not hold
  isSet,      \* is_execution_profile_set
  tls,        \* a TlsContext of the application
  connecting, \* connect_legacy or connect: what it has read so far
  calls       \* setter calls made

builderVars == <<config, mirror, isSet, tls, connecting, calls>>

-----------------------------------------------------------------------------
(* TlsContext *)

NewTls == [ca |-> {}, cert |-> "none", key |-> "none", verify |-> "PEER"]

\* load_verify_locations replaces all three locations; it needs one.
LoadVerifyLocations(t, ca) == IF ca = {} THEN t ELSE [t EXCEPT !.ca = ca]

LoadCertChain(t, cert, key) == [t EXCEPT !.cert = cert, !.key = key]

SetVerifyMode(t, mode) == [t EXCEPT !.verify = IF mode = "CERT_REQUIRED" THEN "PEER" ELSE "NONE"]

\* From<SslVerifyMode>: only FAIL_IF_NO_PEER_CERT, which is never set, reads as required.
VerifyModeOf(verify) == IF verify = "PEER|FAIL_IF_NO_PEER_CERT" THEN "CERT_REQUIRED"
                        ELSE "CERT_NONE"

\* build_with_snapshot: the context, the key read from the certificate when there is
\* none, and the snapshot of it.
Build(t) ==
  [context |-> [ca |-> t.ca, cert |-> t.cert, verify |-> t.verify,
                key |-> IF t.key = "none" THEN t.cert ELSE t.key],
   snapshot |-> [ca |-> t.ca, cert |-> t.cert, key |-> t.key, verify |-> VerifyModeOf(t.verify)]]

-----------------------------------------------------------------------------
(* Contact points *)

\* ParsedAddress::extract. A tuple whose host is an IP address is resolved.
ParsedAddress(a) ==
  CASE a.form = "str" -> [resolved |-> FALSE, to |-> a.host]
    [] a.form = "pair" /\ a.isIp -> [resolved |-> TRUE, to |-> a.host]
    [] a.form = "pair" /\ ~a.isIp -> [resolved |-> FALSE, to |-> a.host]
    [] a.form = "ip" -> [resolved |-> TRUE, to |-> a.host]

Addresses == {[form |-> "str", host |-> "h", isIp |-> FALSE],
              [form |-> "pair", host |-> "10.0.0.1", isIp |-> TRUE],
              [form |-> "pair", host |-> "h", isIp |-> FALSE],
              [form |-> "ip", host |-> "10.0.0.1", isIp |-> TRUE],
              [form |-> "bad", host |-> "", isIp |-> FALSE]}

\* ParsedAddressList::extract: one address or a sequence; any bad item raises.
Valid(list) == \A i \in DOMAIN list : list[i].form # "bad"
ParsedAddressList(list) == [i \in DOMAIN list |-> ParsedAddress(list[i])]

-----------------------------------------------------------------------------

Plain == {"compression", "pool_size"}       \* settings config alone holds
Optional == {"keepalive_interval"}          \* the same, None disabling them
Objects == {"authenticator", "host_filter"} \* Python objects, kept in the mirror too

NotConnecting == [stage |-> "none", config |-> <<>>, factoryOf |-> "none", usesProfiles |-> FALSE]

\* PySessionBuilderConfig::new
BuilderInit ==
  /\ config = [compression |-> "none", pool_size |-> "none", keepalive_interval |-> "none",
               authenticator |-> "none", host_filter |-> "none", profile |-> "driver",
               nodes |-> <<>>, ports |-> "default", tls |-> <<>>,
               coalescing |-> FALSE, delay |-> "default"]
  /\ mirror = [authenticator |-> "none", host_filter |-> "none", profile |-> "driver",
               nodes |-> <<>>, ports |-> "default", tls |-> <<>>]
  /\ isSet = FALSE /\ tls = NewTls /\ connecting = NotConnecting /\ calls = 0

\* A call on the builder, made under its lock.
Call == calls < MaxCalls /\ calls' = calls + 1

SetField(f, v) ==
  /\ Call /\ config' = [config EXCEPT ![f] = v]
  /\ UNCHANGED <<mirror, isSet, tls, connecting>>

SetOptional(f, v) ==
  /\ Call /\ config' = [config EXCEPT ![f] = v]
  /\ UNCHANGED <<mirror, isSet, tls, connecting>>

SetObject(f, v) ==
  /\ Call /\ config' = [config EXCEPT ![f] = v] /\ mirror' = [mirror EXCEPT ![f] = v]
  /\ UNCHANGED <<isSet, tls, connecting>>

\* user() leaves the mirror of the authenticator as it was.
User ==
  /\ Call /\ config' = [config EXCEPT !.authenticator = "plain text"]
  /\ UNCHANGED <<mirror, isSet, tls, connecting>>

SetContactPoints(list) ==
  /\ Call
  /\ IF Valid(list)
       THEN /\ config' = [config EXCEPT !.nodes = @ \o ParsedAddressList(list)]
            /\ mirror' = [mirror EXCEPT !.nodes = @ \o ParsedAddressList(list)]
       ELSE UNCHANGED <<config, mirror>>
  /\ UNCHANGED <<isSet, tls, connecting>>

SetExecutionProfile(p) ==
  /\ Call
  /\ config' = [config EXCEPT !.profile = p] /\ mirror' = [mirror EXCEPT !.profile = p]
  /\ isSet' = TRUE
  /\ UNCHANGED <<tls, connecting>>

\* shard_aware_local_port_range sets the mirror before it checks the range.
SetPortRange(r) ==
  /\ Call
  /\ mirror' = [mirror EXCEPT !.ports = r]
  /\ config' = IF r = "invalid" THEN config ELSE [config EXCEPT !.ports = r]
  /\ UNCHANGED <<isSet, tls, connecting>>

SetWriteCoalescing(d) ==
  /\ Call
  /\ config' = IF d = "none" THEN [config EXCEPT !.coalescing = FALSE]
               ELSE [config EXCEPT !.coalescing = TRUE, !.delay = d]
  /\ UNCHANGED <<mirror, isSet, tls, connecting>>

\* tls_context: the context is built now; a failure leaves both as they were.
SetTlsContext(given, builds) ==
  /\ Call
  /\ IF given /\ ~builds THEN UNCHANGED <<config, mirror>>
     ELSE /\ config' = [config EXCEPT !.tls = IF given THEN <<Build(tls).context>> ELSE <<>>]
          /\ mirror' = [mirror EXCEPT !.tls = IF given THEN <<Build(tls).snapshot>> ELSE <<>>]
  /\ UNCHANGED <<isSet, tls, connecting>>

\* A call on the TlsContext.
ConfigureTls ==
  /\ Call
  /\ \/ \E ca \in SUBSET {"cafile"} : tls' = LoadVerifyLocations(tls, ca)
     \/ \E key \in {"none", "key"} : tls' = LoadCertChain(tls, "cert", key)
     \/ \E mode \in {"CERT_NONE", "CERT_REQUIRED"} : tls' = SetVerifyMode(tls, mode)
  /\ UNCHANGED <<config, mirror, isSet, connecting>>

\* connect_params: the config and the default profile's row factory, in one lock section.
ConnectParams(c) == [c EXCEPT !.config = config, !.factoryOf = mirror.profile]

\* is_execution_profile_set, in another.
UsesProfiles(c) == [c EXCEPT !.usesProfiles = isSet]

\* Mutant: the flag is read first.
ReadsSwapped(n, c) == IF n = 1 THEN UsesProfiles(c) ELSE ConnectParams(c)

\* What connect_legacy reads first, and then.
Reads(n, c) == IF n = 1 THEN ConnectParams(c) ELSE UsesProfiles(c)

ConnectLegacy ==
  /\ connecting.stage = "none"
  /\ connecting' = [Reads(1, connecting) EXCEPT !.stage = "reading"]
  /\ UNCHANGED <<config, mirror, isSet, tls, calls>>

ReadUsesProfiles ==
  /\ connecting.stage = "reading"
  /\ connecting' = [Reads(2, connecting) EXCEPT !.stage = "connecting"]
  /\ UNCHANGED <<config, mirror, isSet, tls, calls>>

\* connect: a Session has no defaults of its own, so it needs no flag.
Connect ==
  /\ connecting.stage = "none"
  /\ connecting' = [ConnectParams(connecting) EXCEPT !.stage = "connecting", !.usesProfiles = TRUE]
  /\ UNCHANGED <<config, mirror, isSet, tls, calls>>

\* The driver connects, and the session is made; or the connection fails.
Connected ==
  /\ connecting.stage = "connecting"
  /\ connecting' = [connecting EXCEPT !.stage = "connected"]
  /\ UNCHANGED <<config, mirror, isSet, tls, calls>>

ConnectFails ==
  /\ connecting.stage = "connecting" /\ connecting' = NotConnecting
  /\ UNCHANGED <<config, mirror, isSet, tls, calls>>

BuilderNext ==
  \/ \E f \in Plain : SetField(f, "value")
  \/ \E f \in Optional, v \in {"none", "value"} : SetOptional(f, v)
  \/ \E f \in Objects : SetObject(f, "object")
  \/ User \/ ConfigureTls
  \/ \E list \in UNION {[1..n -> Addresses] : n \in 1..2} : SetContactPoints(list)
  \/ \E p \in BuilderProfiles : SetExecutionProfile(p)
  \/ \E r \in {"range", "invalid"} : SetPortRange(r)
  \/ \E d \in {"none", "delay"} : SetWriteCoalescing(d)
  \/ \E given, builds \in BOOLEAN : SetTlsContext(given, builds)
  \/ ConnectLegacy \/ ReadUsesProfiles \/ Connect \/ Connected \/ ConnectFails

BuilderSpec == BuilderInit /\ [][BuilderNext]_builderVars

-----------------------------------------------------------------------------

\* A session has the row factory of the very profile the driver runs its requests with,
\* and a LegacySession built with an execution profile never takes session defaults,
\* though connect_legacy reads the builder twice and a profile may be set in between.
\* What get_config() shows of the profile, the contact points and the host filter is what
\* the driver is given, whichever setters failed; it shows a TLS context exactly when
\* there is one, of which the CA and the certificate are the driver's and the key too,
\* read from the certificate when none is shown. Nothing is said of the verify mode, the
\* authenticator and the port range, where the two may differ.
SessionAsBuilt ==
  /\ connecting.stage = "connected" =>
       /\ connecting.factoryOf = connecting.config.profile
       /\ ~connecting.usesProfiles => connecting.config.profile = "driver"
  /\ \A f \in {"profile", "nodes", "host_filter"} : mirror[f] = config[f]
  /\ Len(mirror.tls) = Len(config.tls)
  /\ \A i \in DOMAIN config.tls :
       /\ config.tls[i].ca = mirror.tls[i].ca /\ config.tls[i].cert = mirror.tls[i].cert
       /\ config.tls[i].key = IF mirror.tls[i].key = "none" THEN mirror.tls[i].cert
                              ELSE mirror.tls[i].key
=============================================================================
