---------------------------- MODULE ClientProofs ----------------------------
(***************************************************************************)
(* What an application does with a session, for every value of the         *)
(* constants: Builder, Settings and Policies. They share no state, and     *)
(* each has an inductive invariant of its own.                             *)
(***************************************************************************)
EXTENDS Builder, Settings, Policies, TLAPS

-----------------------------------------------------------------------------
(* SessionBuilder: the settings a session is built from. *)

ConfigFields == {"compression", "pool_size", "keepalive_interval", "authenticator",
                 "host_filter", "profile", "nodes", "ports", "tls", "coalescing", "delay"}
MirrorFields == {"authenticator", "host_filter", "profile", "nodes", "ports", "tls"}

\* The TLS context the driver is given and the snapshot of it were built together.
SameTls ==
  \/ config.tls = <<>> /\ mirror.tls = <<>>
  \/ \E t : config.tls = <<Build(t).context>> /\ mirror.tls = <<Build(t).snapshot>>

\* What the builder holds.
BuilderHolds ==
  /\ DOMAIN config = ConfigFields /\ DOMAIN mirror = MirrorFields
  /\ mirror.profile = config.profile /\ mirror.nodes = config.nodes
  /\ mirror.host_filter = config.host_filter
  /\ SameTls
  /\ isSet \in BOOLEAN /\ (isSet \/ config.profile = "driver")

\* What connect and connect_legacy read of it: the flag never goes down, so the one
\* that is still to be read will be up if a profile was set when the config was read.
ConnectHolds ==
  /\ DOMAIN connecting = {"stage", "config", "factoryOf", "usesProfiles"}
  /\ connecting.stage \in {"none", "reading", "connecting", "connected"}
  /\ connecting.stage # "none" => connecting.factoryOf = connecting.config.profile
  /\ connecting.stage = "reading" => isSet \/ connecting.config.profile = "driver"
  /\ connecting.stage \in {"connecting", "connected"} =>
       connecting.usesProfiles \/ connecting.config.profile = "driver"

BuilderInv == BuilderHolds /\ ConnectHolds

\* Setters do not touch what connect has read, and the flag only goes up.
LEMMA SetterKeeps ==
  ASSUME ConnectHolds, connecting' = connecting, isSet' = isSet \/ isSet' = TRUE
  PROVE  ConnectHolds'
BY Zenon DEF ConnectHolds

\* Every step keeps the config and its mirror in step.
LEMMA BuilderHoldsStep ==
  ASSUME BuilderHolds, [BuilderNext]_builderVars
  PROVE  BuilderHolds'
<1> USE DEF ConfigFields, MirrorFields
<1>1. ASSUME NEW f \in Plain, SetField(f, "value") PROVE BuilderHolds'
  BY <1>1 DEF SetField, BuilderHolds, SameTls, Plain
<1>2. ASSUME NEW f \in Optional, NEW v \in {"none", "value"}, SetOptional(f, v)
      PROVE  BuilderHolds'
  BY <1>2 DEF SetOptional, BuilderHolds, SameTls, Optional
<1>3. ASSUME NEW f \in Objects, SetObject(f, "object") PROVE BuilderHolds'
  BY <1>3 DEF SetObject, BuilderHolds, SameTls, Objects
<1>4. CASE User
  BY <1>4 DEF User, BuilderHolds, SameTls
<1>5. CASE ConfigureTls
  BY <1>5 DEF ConfigureTls, BuilderHolds, SameTls
<1>6. ASSUME NEW l \in UNION {[1..n -> Addresses] : n \in 1..2}, SetContactPoints(l)
      PROVE  BuilderHolds'
  <2>1. \/ UNCHANGED <<config, mirror, isSet>>
        \/ \E n : /\ config' = [config EXCEPT !.nodes = n] /\ mirror' = [mirror EXCEPT !.nodes = n]
                 /\ isSet' = isSet
    BY <1>6, Zenon DEF SetContactPoints, BuilderHolds
  <2> QED
    BY <2>1 DEF BuilderHolds, SameTls
<1>7. ASSUME NEW p \in BuilderProfiles, SetExecutionProfile(p) PROVE BuilderHolds'
  BY <1>7 DEF SetExecutionProfile, BuilderHolds, SameTls
<1>8. ASSUME NEW r \in {"range", "invalid"}, SetPortRange(r) PROVE BuilderHolds'
  BY <1>8 DEF SetPortRange, BuilderHolds, SameTls
<1>9. ASSUME NEW d \in {"none", "delay"}, SetWriteCoalescing(d) PROVE BuilderHolds'
  BY <1>9 DEF SetWriteCoalescing, BuilderHolds, SameTls
<1>10. ASSUME NEW g \in BOOLEAN, NEW builds \in BOOLEAN, SetTlsContext(g, builds)
       PROVE  BuilderHolds'
  <2>1. SameTls'
    BY <1>10 DEF SetTlsContext, BuilderHolds, SameTls
  <2> QED
    BY <1>10, <2>1 DEF SetTlsContext, BuilderHolds
<1>11. CASE UNCHANGED <<config, mirror, isSet>>
  BY <1>11 DEF BuilderHolds, SameTls
<1> QED
  BY <1>1, <1>2, <1>3, <1>4, <1>5, <1>6, <1>7, <1>8, <1>9, <1>10, <1>11, Zenon
  DEF BuilderNext, builderVars, ConnectLegacy, ReadUsesProfiles, Connect, Connected, ConnectFails

\* Every step keeps what was read for a session.
LEMMA ConnectHoldsStep ==
  ASSUME BuilderHolds, ConnectHolds, [BuilderNext]_builderVars
  PROVE  ConnectHolds'
<1>1. CASE ConnectLegacy
  BY <1>1 DEF ConnectLegacy, Reads, ConnectParams, ConnectHolds, BuilderHolds
<1>2. CASE ReadUsesProfiles
  <2>1. connecting' = [[connecting EXCEPT !.usesProfiles = isSet] EXCEPT !.stage = "connecting"]
    BY <1>2 DEF ReadUsesProfiles, Reads, UsesProfiles
  <2>2. /\ DOMAIN connecting' = DOMAIN connecting /\ connecting'.stage = "connecting"
        /\ connecting'.config = connecting.config
        /\ connecting'.factoryOf = connecting.factoryOf
        /\ connecting'.usesProfiles = isSet
    BY <2>1 DEF ConnectHolds
  <2>3. connecting.stage = "reading"
    BY <1>2, Zenon DEF ReadUsesProfiles
  <2> QED
    BY <2>2, <2>3, Zenon DEF ConnectHolds
<1>3. CASE Connect
  BY <1>3 DEF Connect, ConnectParams, ConnectHolds, BuilderHolds
<1>4. CASE Connected
  BY <1>4 DEF Connected, ConnectHolds
<1>5. CASE ConnectFails
  BY <1>5 DEF ConnectFails, NotConnecting, ConnectHolds
<1>6. CASE connecting' = connecting /\ (isSet' = isSet \/ isSet' = TRUE)
  BY <1>6, SetterKeeps, Zenon
<1> QED
  BY <1>1, <1>2, <1>3, <1>4, <1>5, <1>6
  DEF BuilderNext, builderVars, SetField, SetOptional, SetObject, User, ConfigureTls,
      SetContactPoints, SetExecutionProfile, SetPortRange, SetWriteCoalescing, SetTlsContext

\* A session has the row factory and the kind that the profile it runs with calls for, and
\* get_config() shows the profile, contact points, host filter and certificates the driver
\* is given: whichever setters ran, failed or run while connect is under way
\* (session_builder.rs, config.rs).
THEOREM BuilderSession == BuilderSpec => []SessionAsBuilt
<1>1. BuilderInit => BuilderInv
  <2> SUFFICES ASSUME BuilderInit PROVE BuilderInv
    OBVIOUS
  <2>1. BuilderHolds
    BY DEF BuilderInit, BuilderHolds, SameTls, ConfigFields, MirrorFields
  <2>2. ConnectHolds
    BY DEF BuilderInit, ConnectHolds, NotConnecting
  <2> QED
    BY <2>1, <2>2, Zenon DEF BuilderInv
<1>2. BuilderInv /\ [BuilderNext]_builderVars => BuilderInv'
  BY BuilderHoldsStep, ConnectHoldsStep, Zenon DEF BuilderInv
<1>3. BuilderInv => SessionAsBuilt
  <2> SUFFICES ASSUME BuilderInv PROVE SessionAsBuilt
    OBVIOUS
  <2> DEFINE TlsShown ==
               /\ Len(mirror.tls) = Len(config.tls)
               /\ \A i \in DOMAIN config.tls :
                    /\ config.tls[i].ca = mirror.tls[i].ca
                    /\ config.tls[i].cert = mirror.tls[i].cert
                    /\ config.tls[i].key = IF mirror.tls[i].key = "none" THEN mirror.tls[i].cert
                                           ELSE mirror.tls[i].key
  <2>1. TlsShown
    <3>1. CASE config.tls = <<>> /\ mirror.tls = <<>>
      BY <3>1
    <3>2. ASSUME NEW t, config.tls = <<Build(t).context>>, mirror.tls = <<Build(t).snapshot>>
          PROVE  TlsShown
      BY <3>2 DEF Build
    <3> QED
      BY <3>1, <3>2, Zenon DEF BuilderInv, BuilderHolds, SameTls
  <2> QED
    BY <2>1 DEF BuilderInv, BuilderHolds, ConnectHolds, SessionAsBuilt
<1> QED
  BY <1>1, <1>2, <1>3, PTL DEF BuilderSpec

-----------------------------------------------------------------------------
(* The settings a request runs with. *)

Named == {"unset"} \cup Profiles
Wishes ==
  [timeout : {"unset", "none", "statement"}, consistency : {"unset", "statement"},
   serial : {"unset", "none", "statement"}, page : {"driver", "statement"},
   profile : Named, policy : {"unset", "statement"}, factory : {"unset", "statement"}]
Defaults ==
  [timeout : {"unset", "none", "session"}, consistency : {"unset", "session"},
   serial : {"unset", "none", "session"}, factory : {"unset", "session"}]

SessionSettings ==
  [fetch : {"driver", "none", "session"}, mode : {"Uncommitted", "Profiles", "Legacy"},
   defaults : Defaults]

\* How StatementOptions holds what was set: None is Duration::MAX in the driver.
Held(t) == IF t = "none" THEN "max" ELSE t
OptionNames ==
  {"timeout", "consistency", "serial", "serialSet", "page", "pageSet", "profile", "policy", "factory"}

\* The options o hold what w sets, and the timeout t.
Hold(o, w, t) ==
  /\ DOMAIN o = OptionNames
  /\ o.timeout = Held(t) /\ o.consistency = w.consistency
  /\ o.serial = w.serial /\ (o.serialSet <=> w.serial # "unset")
  /\ o.page = w.page /\ (o.pageSet <=> w.page # "driver")
  /\ o.profile = w.profile /\ o.policy = w.policy /\ o.factory = w.factory

SettingsTypes ==
  /\ wish \in Wishes /\ Hold(options, wish, wish.timeout)
  /\ kind = "Batch" => wish.page = "driver"
  /\ explicit \in Named
  /\ settings \in SessionSettings
  /\ settings.mode # "Legacy" => settings.defaults = NoDefaults

\* What a request was called with, at any stage.
CalledWith(c) ==
  /\ c.wish \in Wishes /\ c.timeout \in {"unset", "none", "argument"} /\ c.profile \in Named
  /\ c.kind = "Batch" => c.wish.page = "driver"
  /\ c.asked = Or(c.wish.factory, Profile(c.wish.profile).factory)

\* It is extracted: the options are those set so far, under the timeout of the call.
IsCalled(c) == Hold(c.sent, c.wish, Or(c.timeout, c.wish.timeout))

\* It is configured, from the settings s of the session: they stand in where nothing is set.
IsConfigured(c, s) ==
  /\ s.defaults \in Defaults /\ ~(s.mode = "Legacy" /\ c.profile # "unset")
  /\ DOMAIN c.sent = OptionNames
  /\ c.sent.timeout = Held(Or(c.timeout, Or(c.wish.timeout, s.defaults.timeout)))
  /\ c.sent.consistency = Or(c.wish.consistency, s.defaults.consistency)
  /\ c.sent.serial = Or(c.wish.serial, s.defaults.serial)
  /\ c.sent.profile = Or(c.profile, c.wish.profile)
  /\ c.given = IF s.mode = "Legacy" THEN s.defaults.factory
               ELSE IF s.mode = "Session" THEN c.given
               ELSE Profile(c.profile).factory
  /\ s.mode # "Session" /\ c.kind # "Batch" =>
       /\ c.paged <=> c.wish.page # "driver" \/ s.fetch # "none"
       /\ c.sent.page = IF c.wish.page = "driver" /\ s.fetch = "session" THEN "session"
                        ELSE c.wish.page

IsSent(c) ==
  /\ c.effective = EffectiveTimeout(c.sent)
  /\ c.factory = ChooseRowFactory(c.given, c.asked)

CallNames ==
  {"stage", "timeout", "profile", "kind", "wish", "asked", "sent", "paged", "given", "session",
   "target", "effective", "factory"}

CallInv(c) ==
  /\ DOMAIN c = CallNames
  /\ c.stage \in {"none", "called", "configured", "sent"}
  /\ c.stage # "none" => CalledWith(c)
  /\ c.stage = "called" => IsCalled(c)
  /\ c.stage \in {"configured", "sent"} => IsConfigured(c, c.session)
  /\ c.stage = "configured" => c.sent.policy = c.wish.policy
  /\ c.stage = "sent" => IsSent(c) /\ c.sent.policy = Or(c.target, c.wish.policy)

SettingsInv == SettingsTypes /\ CallInv(call)

-----------------------------------------------------------------------------

\* No request is in flight.
LEMMA NoCallInv == CallInv(NoCall)
BY DEF CallInv, NoCall, CallNames

\* What profiles give: never the driver's mark for no timeout.
LEMMA ProfileTimeouts == \A p \in Named : Profile(p).timeout # "max"
BY ProfilesAssumption DEF Named, Profile, NewProfile, DriverProfile

\* A new session and a new statement.
LEMMA SettingsStart == SettingsInit => SettingsInv
<1> SUFFICES ASSUME SettingsInit PROVE SettingsInv
  OBVIOUS
<1>1. /\ NothingSet \in Wishes /\ NothingSet.page = "driver"
      /\ Hold(NewOptions, NothingSet, NothingSet.timeout)
  BY DEF NothingSet, NewOptions, Hold, Held, OptionNames, Wishes, Named
<1>2. NoDefaults \in Defaults
  BY DEF NoDefaults, Defaults
<1>3. PICK m \in {"Uncommitted", "Profiles"} : settings = NewSettings(m)
  BY DEF SettingsInit
<1>4. settings \in SessionSettings /\ settings.defaults = NoDefaults
  BY <1>2, <1>3 DEF NewSettings, SessionSettings
<1>5. options = NewOptions /\ wish = NothingSet /\ explicit \in Named /\ call = NoCall
  BY Zenon DEF SettingsInit, Named
<1> QED
  BY <1>1, <1>4, <1>5, NoCallInv, Zenon DEF SettingsInv, SettingsTypes

\* A setter of a statement does to its options what it does to what was set.
LEMMA SetOptionHolds ==
  ASSUME NEW w \in Wishes, NEW o, Hold(o, w, w.timeout),
         NEW f \in DOMAIN OptionValues, NEW v \in OptionValues[f], v # "bad"
  PROVE  /\ [w EXCEPT ![f] = v] \in Wishes
         /\ Hold(SetOption(o, f, v), [w EXCEPT ![f] = v], [w EXCEPT ![f] = v].timeout)
         /\ f # "page" => [w EXCEPT ![f] = v].page = w.page
<1>1. CASE f = "timeout"
  <2>1. v \in {"unset", "none", "statement"}
    BY <1>1 DEF OptionValues
  <2>2. [w EXCEPT !["timeout"] = v] \in Wishes /\ [w EXCEPT !["timeout"] = v].page = w.page
    BY <2>1 DEF Wishes
  <2>3. Hold(SetRequestTimeout(o, v), [w EXCEPT !["timeout"] = v], [w EXCEPT !["timeout"] = v].timeout)
    BY <2>1 DEF Wishes, Hold, Held, OptionNames, SetRequestTimeout
  <2> QED
    BY <1>1, <2>2, <2>3 DEF SetOption
<1>2. CASE f = "serial"
  <2>1. v \in {"unset", "none", "statement"}
    BY <1>2 DEF OptionValues
  <2>2. [w EXCEPT !["serial"] = v] \in Wishes /\ [w EXCEPT !["serial"] = v].page = w.page
    BY <2>1 DEF Wishes
  <2>3. Hold(SetSerialConsistency(o, v), [w EXCEPT !["serial"] = v], [w EXCEPT !["serial"] = v].timeout)
    BY <2>1 DEF Wishes, Hold, Held, OptionNames, SetSerialConsistency
  <2> QED
    BY <1>2, <2>2, <2>3 DEF SetOption
<1>3. CASE f = "page"
  <2>1. v \in {"statement"}
    BY <1>3 DEF OptionValues
  <2>2. [w EXCEPT !["page"] = v] \in Wishes
    BY <2>1 DEF Wishes
  <2>3. Hold(SetPageSize(o, v), [w EXCEPT !["page"] = v], [w EXCEPT !["page"] = v].timeout)
    BY <2>1 DEF Wishes, Hold, Held, OptionNames, SetPageSize
  <2> QED
    BY <1>3, <2>2, <2>3 DEF SetOption
<1>4. CASE f = "consistency"
  <2>1. v \in {"unset", "statement"}
    BY <1>4 DEF OptionValues
  <2>2. [w EXCEPT !["consistency"] = v] \in Wishes /\ [w EXCEPT !["consistency"] = v].page = w.page
    BY <2>1 DEF Wishes
  <2>3. Hold(SetPlain(o, "consistency", v), [w EXCEPT !["consistency"] = v], [w EXCEPT !["consistency"] = v].timeout)
    BY <2>1 DEF Wishes, Hold, Held, OptionNames, SetPlain
  <2> QED
    BY <1>4, <2>2, <2>3 DEF SetOption
<1>5. CASE f = "profile"
  <2>1. v \in Named
    BY <1>5 DEF OptionValues, Named
  <2>2. [w EXCEPT !["profile"] = v] \in Wishes /\ [w EXCEPT !["profile"] = v].page = w.page
    BY <2>1 DEF Wishes
  <2>3. Hold(SetPlain(o, "profile", v), [w EXCEPT !["profile"] = v], [w EXCEPT !["profile"] = v].timeout)
    BY <2>1 DEF Wishes, Hold, Held, OptionNames, SetPlain
  <2> QED
    BY <1>5, <2>2, <2>3 DEF SetOption
<1>6. CASE f = "policy"
  <2>1. v \in {"unset", "statement"}
    BY <1>6 DEF OptionValues
  <2>2. [w EXCEPT !["policy"] = v] \in Wishes /\ [w EXCEPT !["policy"] = v].page = w.page
    BY <2>1 DEF Wishes
  <2>3. Hold(SetPlain(o, "policy", v), [w EXCEPT !["policy"] = v], [w EXCEPT !["policy"] = v].timeout)
    BY <2>1 DEF Wishes, Hold, Held, OptionNames, SetPlain
  <2> QED
    BY <1>6, <2>2, <2>3 DEF SetOption
<1>7. CASE f = "factory"
  <2>1. v \in {"unset", "statement"}
    BY <1>7 DEF OptionValues
  <2>2. [w EXCEPT !["factory"] = v] \in Wishes /\ [w EXCEPT !["factory"] = v].page = w.page
    BY <2>1 DEF Wishes
  <2>3. Hold(SetPlain(o, "factory", v), [w EXCEPT !["factory"] = v], [w EXCEPT !["factory"] = v].timeout)
    BY <2>1 DEF Wishes, Hold, Held, OptionNames, SetPlain
  <2> QED
    BY <1>7, <2>2, <2>3 DEF SetOption
<1> QED
  <2>1. f \in {"timeout", "consistency", "serial", "page", "profile", "policy", "factory"}
    BY DEF OptionValues
  <2> QED
    BY <1>1, <1>2, <1>3, <1>4, <1>5, <1>6, <1>7, <2>1, Zenon

\* A setter of the statement keeps its options in step with what was set.
LEMMA SetOnStatementStep ==
  ASSUME SettingsTypes, NEW f \in DOMAIN OptionValues, NEW v \in OptionValues[f], SetOnStatement(f, v)
  PROVE  SettingsTypes'
<1>1. /\ kind = "Batch" => f # "page"
      /\ v = "bad" => options' = options /\ wish' = wish
      /\ v # "bad" => options' = SetOption(options, f, v) /\ wish' = [wish EXCEPT ![f] = v]
      /\ kind' = kind /\ settings' = settings /\ explicit' = explicit
  BY Zenon DEF SetOnStatement
<1>2. wish \in Wishes /\ Hold(options, wish, wish.timeout) /\ (kind = "Batch" => wish.page = "driver")
  BY Zenon DEF SettingsTypes
<1>3. wish' \in Wishes /\ Hold(options', wish', wish'.timeout) /\ (kind = "Batch" => wish'.page = "driver")
  <2>1. CASE v = "bad"
    BY <1>1, <1>2, <2>1, Zenon
  <2>2. CASE v # "bad"
    <3>1. /\ [wish EXCEPT ![f] = v] \in Wishes
          /\ Hold(SetOption(options, f, v), [wish EXCEPT ![f] = v], [wish EXCEPT ![f] = v].timeout)
          /\ f # "page" => [wish EXCEPT ![f] = v].page = wish.page
      BY <1>2, <2>2, SetOptionHolds, Zenon
    <3> QED
      BY <1>1, <1>2, <2>2, <3>1, Zenon
  <2> QED
    BY <2>1, <2>2, Zenon
<1> QED
  BY <1>1, <1>3, Zenon DEF SettingsTypes

\* A setter of a session default commits the session to legacy mode, or raises.
LEMMA SetDefaultStep ==
  ASSUME SettingsTypes, NEW f \in DOMAIN DefaultValues, NEW v \in DefaultValues[f], SetDefault(f, v)
  PROVE  SettingsTypes'
<1>1. /\ \/ settings' = settings
         \/ settings' = [settings EXCEPT !.mode = "Legacy", !.defaults[f] = v]
      /\ kind' = kind /\ options' = options /\ wish' = wish /\ explicit' = explicit
  BY Zenon DEF SetDefault
<1>2. settings \in SessionSettings /\ (settings.mode # "Legacy" => settings.defaults = NoDefaults)
  BY Zenon DEF SettingsTypes
<1>3. ASSUME NEW d \in Defaults
      PROVE  [d EXCEPT ![f] = v] \in Defaults
  <2>1. CASE f = "timeout"
    BY <2>1 DEF Defaults, DefaultValues
  <2>2. CASE f = "consistency"
    BY <2>2 DEF Defaults, DefaultValues
  <2>3. CASE f = "serial"
    BY <2>3 DEF Defaults, DefaultValues
  <2>4. CASE f = "factory"
    BY <2>4 DEF Defaults, DefaultValues
  <2> QED
    BY <2>1, <2>2, <2>3, <2>4 DEF DefaultValues
<1>4. settings.defaults \in Defaults
  BY <1>2 DEF SessionSettings
<1>5. [settings.defaults EXCEPT ![f] = v] \in Defaults
  BY <1>3, <1>4, Zenon
<1>6. /\ [settings EXCEPT !.mode = "Legacy", !.defaults[f] = v] \in SessionSettings
      /\ [settings EXCEPT !.mode = "Legacy", !.defaults[f] = v].mode = "Legacy"
  BY <1>2, <1>5 DEF SessionSettings
<1>7. settings' \in SessionSettings /\ (settings'.mode # "Legacy" => settings'.defaults = NoDefaults)
  BY <1>1, <1>2, <1>6, Zenon
<1> QED
  BY <1>1, <1>7, Zenon DEF SettingsTypes

\* The setter of the session's fetch size.
LEMMA SetFetchSizeStep ==
  ASSUME SettingsTypes, NEW v \in {"none", "session", "bad"}, SetFetchSize(v)
  PROVE  SettingsTypes'
<1>1. /\ settings' = IF v = "bad" THEN settings ELSE [settings EXCEPT !.fetch = v]
      /\ kind' = kind /\ options' = options /\ wish' = wish /\ explicit' = explicit
  BY Zenon DEF SetFetchSize
<1>2. settings \in SessionSettings /\ (settings.mode # "Legacy" => settings.defaults = NoDefaults)
  BY Zenon DEF SettingsTypes
<1>3. settings' \in SessionSettings /\ (settings'.mode # "Legacy" => settings'.defaults = NoDefaults)
  BY <1>1, <1>2 DEF SessionSettings
<1> QED
  BY <1>1, <1>3, Zenon DEF SettingsTypes

\* A request as it is extracted.
LEMMA ExtractedIs ==
  ASSUME NEW t, NEW p, NEW o, NEW c, c = Extracted(t, p, o)
  PROVE  /\ DOMAIN c = CallNames /\ c.stage = "called" /\ c.timeout = t /\ c.profile = p
         /\ c.kind = kind /\ c.wish = wish /\ c.asked = StatementFactory(options) /\ c.sent = o
         /\ c.session = NewSettings("Session")
BY DEF Extracted, NoCall, CallNames

\* The row factory of a statement is its own, or that of its profile.
LEMMA FactoryOfStatement ==
  ASSUME SettingsTypes
  PROVE  StatementFactory(options) = Or(wish.factory, Profile(wish.profile).factory)
<1>1. options.factory = wish.factory /\ options.profile = wish.profile
  BY Zenon DEF SettingsTypes, Hold
<1>2. Profile("unset").factory = "unset"
  BY DEF Profile, DriverProfile
<1> QED
  BY <1>1, <1>2 DEF StatementFactory, Or

\* LegacySession.execute_async puts the timeout argument on the copy of the statement.
LEMMA CallLegacyStep ==
  ASSUME SettingsTypes, NEW t \in {"unset", "none", "argument"}, NEW p \in Named, CallLegacy(t, p)
  PROVE  CallInv(call')
<1> DEFINE o == IF t = "unset" THEN options ELSE SetRequestTimeout(options, t)
           c == Extracted(t, p, o)
<1>1. call' = c
  BY Zenon DEF CallLegacy
<1>2. /\ DOMAIN c = CallNames /\ c.stage = "called" /\ c.timeout = t /\ c.profile = p
      /\ c.kind = kind /\ c.wish = wish /\ c.asked = StatementFactory(options) /\ c.sent = o
  BY ExtractedIs
<1>3. wish \in Wishes /\ Hold(options, wish, wish.timeout) /\ (kind = "Batch" => wish.page = "driver")
  BY Zenon DEF SettingsTypes
<1>4. Hold(o, wish, Or(t, wish.timeout))
  <2>1. CASE t = "unset"
    BY <1>3, <2>1, Zenon DEF Or
  <2>2. CASE t # "unset"
    BY <1>3, <2>2 DEF Or, Hold, Held, OptionNames, SetRequestTimeout
  <2> QED
    BY <2>1, <2>2, Zenon
<1> HIDE DEF c, o
<1>5. CalledWith(c)
  BY <1>2, <1>3, FactoryOfStatement, Zenon DEF CalledWith
<1>6. IsCalled(c)
  BY <1>2, <1>4, Zenon DEF IsCalled
<1>7. "called" \notin {"none", "configured", "sent"}
  OBVIOUS
<1> QED
  BY <1>1, <1>2, <1>5, <1>6, <1>7, Zenon DEF CallInv

\* The session defaults stand in for what the options leave unset.
LEMMA DefaultsApplied ==
  ASSUME NEW w \in Wishes, NEW t \in {"unset", "none", "statement", "argument"},
         NEW o, Hold(o, w, t), NEW d \in Defaults, NEW x, x = ApplyDefaults(o, d)
  PROVE  /\ x.timeout = Held(Or(t, d.timeout))
         /\ x.consistency = Or(w.consistency, d.consistency)
         /\ x.serial = Or(w.serial, d.serial)
         /\ x.profile = o.profile /\ x.policy = o.policy /\ x.page = o.page /\ (x.pageSet <=> o.pageSet)
         /\ DOMAIN x = OptionNames
<1> DEFINE x1 == ApplyDefault(o, "timeout", d.timeout)
           x2 == ApplyDefault(x1, "consistency", d.consistency)
           x3 == ApplyDefault(x2, "serial", d.serial)
<1>1. /\ x1.timeout = Held(Or(t, d.timeout)) /\ x1.consistency = o.consistency /\ x1.serial = o.serial
      /\ (x1.serialSet <=> o.serialSet)
      /\ x1.profile = o.profile /\ x1.policy = o.policy /\ x1.page = o.page /\ (x1.pageSet <=> o.pageSet)
      /\ DOMAIN x1 = OptionNames
  BY DEF Hold, Held, Or, ApplyDefault, Reading, SetOption, SetRequestTimeout, OptionNames
<1> HIDE DEF x1
<1>2. /\ x2.timeout = x1.timeout /\ x2.consistency = Or(w.consistency, d.consistency) /\ x2.serial = o.serial
      /\ (x2.serialSet <=> o.serialSet)
      /\ x2.profile = o.profile /\ x2.policy = o.policy /\ x2.page = o.page /\ (x2.pageSet <=> o.pageSet)
      /\ DOMAIN x2 = OptionNames
  BY <1>1 DEF Hold, Or, ApplyDefault, Reading, SetOption, SetPlain, OptionNames
<1> HIDE DEF x2
<1>3. /\ x3.timeout = x1.timeout /\ x3.consistency = Or(w.consistency, d.consistency)
      /\ x3.serial = Or(w.serial, d.serial)
      /\ x3.profile = o.profile /\ x3.policy = o.policy /\ x3.page = o.page /\ (x3.pageSet <=> o.pageSet)
      /\ DOMAIN x3 = OptionNames
  BY <1>2 DEF Hold, Or, ApplyDefault, Reading, SetOption, SetSerialConsistency, OptionNames
<1>4. ApplyDefaults(o, d) = x3
  BY Zenon DEF ApplyDefaults, x1, x2
<1> HIDE DEF x3
<1> QED
  BY <1>1, <1>3, <1>4, Zenon

\* The page size of the session stands in for that of the statement.
LEMMA Sized ==
  ASSUME NEW w \in Wishes, NEW s, NEW batch \in BOOLEAN, NEW o, NEW x, x = FetchSize(s, o, batch),
         DOMAIN o = OptionNames, o.page = w.page, o.pageSet <=> w.page # "driver"
  PROVE  /\ DOMAIN x = OptionNames
         /\ x.timeout = o.timeout /\ x.consistency = o.consistency /\ x.serial = o.serial
         /\ x.profile = o.profile /\ x.policy = o.policy
         /\ ~batch => x.page = IF w.page = "driver" /\ s.fetch = "session" THEN "session" ELSE w.page
BY DEF FetchSize, OptionNames

\* configure_request lets the session's settings stand in where the request has none.
LEMMA ConfigureStep ==
  ASSUME SettingsTypes, CallInv(call), Configure
  PROVE  CallInv(call')
<1> DEFINE batch == call.kind = "Batch"
           w == call.wish
           t == Or(call.timeout, w.timeout)
           s == settings
           base == IF s.mode = "Legacy" THEN ApplyDefaults(call.sent, s.defaults)
                   ELSE IF call.profile = "unset" THEN call.sent
                   ELSE [call.sent EXCEPT !.profile = call.profile]
           x == FetchSize(s, base, batch)
           c == [call EXCEPT !.stage = "configured", !.session = s, !.sent = x,
                             !.paged = Paged(s, call.sent, batch),
                             !.given = FactoryAsked(s, call.profile)]
<1>1. call.stage = "called" /\ CalledWith(call) /\ IsCalled(call) /\ DOMAIN call = CallNames
  <2>1. "called" # "none"
    OBVIOUS
  <2> QED
    BY <2>1, Zenon DEF CallInv, Configure
<1>2. CASE s.mode = "Legacy" /\ call.profile # "unset"
  BY <1>2, NoCallInv, Zenon DEF Configure
<1>3. CASE ~(s.mode = "Legacy" /\ call.profile # "unset")
  <2>1. call' = c
    BY <1>3, Zenon DEF Configure, Configured
  <2>2. /\ w \in Wishes /\ call.profile \in Named /\ Hold(call.sent, w, t)
        /\ call.timeout \in {"unset", "none", "argument"}
    BY <1>1, Zenon DEF CalledWith, IsCalled
  <2>3. t \in {"unset", "none", "statement", "argument"} /\ w.timeout \in {"unset", "none", "statement"}
    BY <2>2 DEF Or, Wishes
  <2>4. s \in SessionSettings /\ (s.mode # "Legacy" => s.defaults = NoDefaults)
    BY Zenon DEF SettingsTypes
  <2>5. s.defaults \in Defaults /\ s.mode # "Session"
    BY <2>4 DEF SessionSettings
  <2> HIDE DEF t, s, w, x, batch
  <2>6. /\ base.timeout = Held(Or(call.timeout, Or(w.timeout, s.defaults.timeout)))
        /\ base.consistency = Or(w.consistency, s.defaults.consistency)
        /\ base.serial = Or(w.serial, s.defaults.serial)
        /\ base.profile = Or(call.profile, w.profile)
        /\ base.policy = w.policy /\ base.page = w.page /\ (base.pageSet <=> w.page # "driver")
        /\ DOMAIN base = OptionNames
    <3>1. CASE s.mode = "Legacy"
      <4>1. base = ApplyDefaults(call.sent, s.defaults) /\ call.profile = "unset"
        BY <1>3, <3>1, Zenon
      <4> HIDE DEF base
      <4>2. /\ base.timeout = Held(Or(t, s.defaults.timeout))
            /\ base.consistency = Or(w.consistency, s.defaults.consistency)
            /\ base.serial = Or(w.serial, s.defaults.serial)
            /\ base.profile = call.sent.profile /\ base.policy = call.sent.policy
            /\ base.page = call.sent.page /\ (base.pageSet <=> call.sent.pageSet)
            /\ DOMAIN base = OptionNames
        BY <2>2, <2>3, <2>5, <4>1, DefaultsApplied
      <4>3. Or(t, s.defaults.timeout) = Or(call.timeout, Or(w.timeout, s.defaults.timeout))
        BY <2>2, <2>3 DEF Or, t
      <4>4. /\ call.sent.profile = w.profile /\ call.sent.policy = w.policy /\ call.sent.page = w.page
            /\ (call.sent.pageSet <=> w.page # "driver")
        BY <2>2, Zenon DEF Hold
      <4>5. Or(call.profile, w.profile) = w.profile
        BY <4>1, Zenon DEF Or
      <4> QED
        BY <4>2, <4>3, <4>4, <4>5, Zenon
    <3>2. CASE s.mode # "Legacy"
      <4>1. base = IF call.profile = "unset" THEN call.sent ELSE [call.sent EXCEPT !.profile = call.profile]
        BY <3>2, Zenon
      <4> HIDE DEF base
      <4>2. /\ s.defaults.timeout = "unset" /\ s.defaults.consistency = "unset" /\ s.defaults.serial = "unset"
        BY <2>4, <3>2 DEF NoDefaults
      <4>3. /\ base.timeout = call.sent.timeout /\ base.consistency = call.sent.consistency
            /\ base.serial = call.sent.serial /\ base.policy = call.sent.policy /\ base.page = call.sent.page
            /\ (base.pageSet <=> call.sent.pageSet) /\ DOMAIN base = OptionNames
            /\ base.profile = Or(call.profile, w.profile)
        BY <2>2, <4>1 DEF Hold, OptionNames, Or
      <4>4. Or(call.timeout, Or(w.timeout, "unset")) = t /\ Or(w.consistency, "unset") = w.consistency
            /\ Or(w.serial, "unset") = w.serial
        BY DEF Or, t
      <4> QED
        BY <2>2, <4>2, <4>3, <4>4, Zenon DEF Hold
    <3> QED
      BY <3>1, <3>2, Zenon
  <2> HIDE DEF base
  <2>7. /\ DOMAIN x = OptionNames
        /\ x.timeout = base.timeout /\ x.consistency = base.consistency /\ x.serial = base.serial
        /\ x.profile = base.profile /\ x.policy = base.policy
        /\ ~batch => x.page = IF w.page = "driver" /\ s.fetch = "session" THEN "session" ELSE w.page
    <3>1. x = FetchSize(s, base, batch) /\ batch \in BOOLEAN
      BY Zenon DEF x, batch
    <3> QED
      BY <2>2, <2>6, <3>1, Sized
  <2>8. ~batch => (Paged(s, call.sent, batch) <=> w.page # "driver" \/ s.fetch # "none")
    <3>1. call.sent.pageSet <=> w.page # "driver"
      BY <2>2, Zenon DEF Hold
    <3> QED
      BY <3>1, Zenon DEF Paged
  <2>9. /\ DOMAIN c = CallNames /\ c.stage = "configured" /\ c.session = s /\ c.sent = x
        /\ c.timeout = call.timeout /\ c.profile = call.profile /\ c.kind = call.kind /\ c.wish = w
        /\ c.asked = call.asked /\ c.given = FactoryAsked(s, call.profile)
        /\ (c.paged <=> Paged(s, call.sent, batch))
    BY <1>1 DEF CallNames, w
  <2>10. FactoryAsked(s, call.profile) = IF s.mode = "Legacy" THEN s.defaults.factory
                                         ELSE Profile(call.profile).factory
    <3>1. Profile("unset").factory = "unset"
      BY DEF Profile, DriverProfile
    <3> QED
      BY <3>1 DEF FactoryAsked
  <2> HIDE DEF c
  <2>11. CalledWith(c)
    BY <1>1, <2>9, Zenon DEF CalledWith, w
  <2>12. IsConfigured(c, c.session)
    <3>1. ~batch <=> c.kind # "Batch"
      BY <2>9, Zenon DEF batch
    <3>2. s.mode # "Session" /\ c.kind # "Batch" =>
            /\ c.paged <=> c.wish.page # "driver" \/ s.fetch # "none"
            /\ c.sent.page = IF c.wish.page = "driver" /\ s.fetch = "session" THEN "session"
                             ELSE c.wish.page
      BY <2>7, <2>8, <2>9, <3>1, Zenon
    <3>3. c.given = IF s.mode = "Legacy" THEN s.defaults.factory
                    ELSE IF s.mode = "Session" THEN c.given
                    ELSE Profile(c.profile).factory
      BY <2>9, <2>10, Zenon
    <3>4. /\ DOMAIN c.sent = OptionNames
          /\ c.sent.timeout = Held(Or(c.timeout, Or(c.wish.timeout, s.defaults.timeout)))
          /\ c.sent.consistency = Or(c.wish.consistency, s.defaults.consistency)
          /\ c.sent.serial = Or(c.wish.serial, s.defaults.serial)
          /\ c.sent.profile = Or(c.profile, c.wish.profile)
      BY <2>6, <2>7, <2>9, Zenon
    <3>5. s.defaults \in Defaults /\ ~(s.mode = "Legacy" /\ c.profile # "unset")
      BY <1>3, <2>5, <2>9, Zenon DEF s
    <3>6. IsConfigured(c, s)
      BY <3>2, <3>3, <3>4, <3>5, Zenon DEF IsConfigured
    <3> QED
      BY <2>9, <3>6, Zenon
  <2>13. c.sent.policy = c.wish.policy
    BY <2>6, <2>7, <2>9, Zenon
  <2>14. "configured" \notin {"none", "called", "sent"}
    OBVIOUS
  <2> QED
    BY <2>1, <2>9, <2>11, <2>12, <2>13, <2>14, Zenon DEF CallInv
<1> QED
  BY <1>2, <1>3, Zenon

\* A configured request is sent, or refused.
LEMMA SentStep ==
  ASSUME NEW c, DOMAIN c = CallNames, CalledWith(c), IsConfigured(c, c.session), c.sent.policy = c.wish.policy,
         NEW target \in {"unset", "argument"}, NEW paging \in BOOLEAN, NEW binds \in BOOLEAN
  PROVE  CallInv(Sent(c, target, paging, binds))
<1> DEFINE o == SetTarget(c.sent, target)
           x == [c EXCEPT !.stage = "sent", !.sent = o, !.target = target,
                          !.effective = EffectiveTimeout(c.sent),
                          !.factory = ChooseRowFactory(c.given, c.asked)]
<1>1. Sent(c, target, paging, binds) \in {NoCall, x}
  BY Zenon DEF Sent
<1>2. /\ o.timeout = c.sent.timeout /\ o.consistency = c.sent.consistency /\ o.serial = c.sent.serial
      /\ o.profile = c.sent.profile /\ o.page = c.sent.page /\ o.policy = Or(target, c.wish.policy)
      /\ DOMAIN o = OptionNames
  <2>1. DOMAIN c.sent = OptionNames
    BY Zenon DEF IsConfigured
  <2> QED
    BY <2>1 DEF SetTarget, Or, OptionNames
<1>3. EffectiveTimeout(o) = EffectiveTimeout(c.sent)
  BY <1>2, Zenon DEF EffectiveTimeout
<1> HIDE DEF o
<1>4. /\ DOMAIN x = CallNames /\ x.stage = "sent" /\ x.sent = o /\ x.target = target
      /\ x.effective = EffectiveTimeout(c.sent) /\ x.factory = ChooseRowFactory(c.given, c.asked)
      /\ x.timeout = c.timeout /\ x.profile = c.profile /\ x.kind = c.kind /\ x.wish = c.wish
      /\ x.asked = c.asked /\ x.given = c.given /\ x.session = c.session /\ (x.paged <=> c.paged)
  BY DEF CallNames
<1> HIDE DEF x
<1>5. CalledWith(x)
  BY <1>4, Zenon DEF CalledWith
<1>6. IsConfigured(x, c.session)
  <2> DEFINE s == c.session
  <2>1. s.mode # "Session" /\ x.kind # "Batch" =>
          /\ x.paged <=> x.wish.page # "driver" \/ s.fetch # "none"
          /\ x.sent.page = IF x.wish.page = "driver" /\ s.fetch = "session" THEN "session"
                           ELSE x.wish.page
    BY <1>2, <1>4, Zenon DEF IsConfigured
  <2>2. /\ x.given = IF s.mode = "Legacy" THEN s.defaults.factory
                     ELSE IF s.mode = "Session" THEN x.given
                     ELSE Profile(x.profile).factory
        /\ s.defaults \in Defaults /\ ~(s.mode = "Legacy" /\ x.profile # "unset")
    BY <1>4, Zenon DEF IsConfigured
  <2>3. /\ x.sent.timeout = Held(Or(x.timeout, Or(x.wish.timeout, s.defaults.timeout)))
        /\ x.sent.consistency = Or(x.wish.consistency, s.defaults.consistency)
        /\ x.sent.serial = Or(x.wish.serial, s.defaults.serial)
        /\ x.sent.profile = Or(x.profile, x.wish.profile)
    BY <1>2, <1>4, Zenon DEF IsConfigured
  <2> QED
    BY <1>2, <1>4, <2>1, <2>2, <2>3, Zenon DEF IsConfigured
<1>7. IsSent(x) /\ x.sent.policy = Or(x.target, x.wish.policy)
  BY <1>2, <1>3, <1>4, Zenon DEF IsSent
<1>8. "sent" \notin {"none", "called", "configured"}
  OBVIOUS
<1>9. CallInv(x)
  BY <1>4, <1>5, <1>6, <1>7, <1>8, Zenon DEF CallInv
<1> QED
  BY <1>1, <1>9, NoCallInv, Zenon

\* The rest of execute_async.
LEMMA SendStep ==
  ASSUME CallInv(call), NEW target \in {"unset", "argument"}, NEW paging \in BOOLEAN,
         NEW binds \in BOOLEAN, Send(target, paging, binds)
  PROVE  CallInv(call')
<1>1. call.stage = "configured" /\ call' = Sent(call, target, paging, binds)
  BY Zenon DEF Send
<1>2. "configured" # "none"
  OBVIOUS
<1>3. /\ DOMAIN call = CallNames /\ CalledWith(call) /\ IsConfigured(call, call.session)
      /\ call.sent.policy = call.wish.policy
  BY <1>1, <1>2, Zenon DEF CallInv
<1> QED
  BY <1>1, <1>3, SentStep, Zenon

\* Session.execute and Session.batch read no session settings.
LEMMA CallSessionStep ==
  ASSUME SettingsTypes, NEW factory \in {"unset", "argument"}, NEW paged \in BOOLEAN,
         NEW target \in {"unset", "argument"}, NEW paging \in BOOLEAN,
         NEW binds \in BOOLEAN, CallSession(factory, paged, target, paging, binds)
  PROVE  CallInv(call')
<1> DEFINE e == Extracted("unset", "unset", options)
           c == [e EXCEPT !.paged = paged, !.given = factory]
<1>1. call' = Sent(c, target, paging, binds)
  BY Zenon DEF CallSession
<1>2. /\ DOMAIN e = CallNames /\ e.timeout = "unset" /\ e.profile = "unset"
      /\ e.kind = kind /\ e.wish = wish /\ e.asked = StatementFactory(options) /\ e.sent = options
      /\ e.session = NewSettings("Session")
  BY ExtractedIs
<1> HIDE DEF e
<1>3. /\ DOMAIN c = CallNames /\ c.timeout = "unset" /\ c.profile = "unset"
      /\ c.kind = kind /\ c.wish = wish /\ c.asked = StatementFactory(options) /\ c.sent = options
      /\ c.session = NewSettings("Session")
  BY <1>2 DEF CallNames
<1> HIDE DEF c
<1>4. /\ wish \in Wishes /\ Hold(options, wish, wish.timeout) /\ (kind = "Batch" => wish.page = "driver")
      /\ "unset" \in Named
  BY Zenon DEF SettingsTypes, Named
<1>5. CalledWith(c)
  BY <1>3, <1>4, FactoryOfStatement, Zenon DEF CalledWith
<1>6. /\ c.session.mode = "Session" /\ c.session.defaults \in Defaults
      /\ c.session.defaults.timeout = "unset" /\ c.session.defaults.consistency = "unset"
      /\ c.session.defaults.serial = "unset" /\ "Session" # "Legacy"
  BY <1>3 DEF NewSettings, NoDefaults, Defaults
<1>7. \A a : Or("unset", a) = a /\ Or(a, "unset") = a
  BY Zenon DEF Or
<1>8. IsConfigured(c, c.session)
  <2>1. /\ DOMAIN c.sent = OptionNames /\ c.sent.timeout = Held(c.wish.timeout)
        /\ c.sent.consistency = c.wish.consistency /\ c.sent.serial = c.wish.serial
        /\ c.sent.profile = c.wish.profile
    BY <1>3, <1>4, Zenon DEF Hold
  <2>2. /\ Or(c.timeout, Or(c.wish.timeout, c.session.defaults.timeout)) = c.wish.timeout
        /\ Or(c.wish.consistency, c.session.defaults.consistency) = c.wish.consistency
        /\ Or(c.wish.serial, c.session.defaults.serial) = c.wish.serial
        /\ Or(c.profile, c.wish.profile) = c.wish.profile
    BY <1>3, <1>6, <1>7, Zenon
  <2> QED
    BY <1>6, <2>1, <2>2, Zenon DEF IsConfigured
<1>9. c.sent.policy = c.wish.policy
  BY <1>3, <1>4, Zenon DEF Hold
<1> QED
  BY <1>1, <1>3, <1>5, <1>8, <1>9, SentStep, Zenon

\* What a request runs with depends on the session's default profile, which never changes.
LEMMA CallKept ==
  ASSUME explicit' = explicit, CallInv(call')
  PROVE  CallInv(call)'
<1>1. EffectiveTimeout(call.sent)' = EffectiveTimeout(call'.sent)
  BY DEF EffectiveTimeout
<1>2. ChooseRowFactory(call.given, call.asked)' = ChooseRowFactory(call'.given, call'.asked)
  BY DEF ChooseRowFactory
<1> QED
  BY <1>1, <1>2, Zenon DEF CallInv, IsSent

\* Every step keeps the invariant.
LEMMA SettingsStep == SettingsInv /\ [SettingsNext]_settingsVars => SettingsInv'
<1> SUFFICES ASSUME SettingsInv, [SettingsNext]_settingsVars PROVE SettingsInv'
  OBVIOUS
<1>0. SettingsTypes /\ CallInv(call)
  BY Zenon DEF SettingsInv
<1>1. ASSUME SettingsTypes', call' = call, explicit' = explicit PROVE SettingsInv'
  <2>1. CallInv(call')
    BY <1>0, <1>1, Zenon
  <2> QED
    BY <1>1, <2>1, CallKept, Zenon DEF SettingsInv
<1>2. ASSUME options' = options, wish' = wish, settings' = settings, explicit' = explicit,
             kind' = kind \/ (kind' = "PreparedStatement" /\ kind # "Batch"), CallInv(call')
      PROVE  SettingsInv'
  <2>1. kind' = "Batch" => kind = "Batch"
    BY <1>2
  <2>2. SettingsTypes'
    BY <1>0, <1>2, <2>1, Zenon DEF SettingsTypes
  <2> QED
    BY <1>2, <2>2, CallKept, Zenon DEF SettingsInv
<1>3. ASSUME NEW f \in DOMAIN OptionValues, NEW v \in OptionValues[f], SetOnStatement(f, v) PROVE SettingsInv'
  <2>1. call' = call /\ explicit' = explicit
    BY <1>3, Zenon DEF SetOnStatement
  <2> QED
    BY <1>0, <1>1, <1>3, <2>1, SetOnStatementStep, Zenon
<1>4. ASSUME NEW f \in DOMAIN DefaultValues, NEW v \in DefaultValues[f], SetDefault(f, v) PROVE SettingsInv'
  <2>1. call' = call /\ explicit' = explicit
    BY <1>4, Zenon DEF SetDefault
  <2> QED
    BY <1>0, <1>1, <1>4, <2>1, SetDefaultStep, Zenon
<1>5. ASSUME NEW v \in {"none", "session", "bad"}, SetFetchSize(v) PROVE SettingsInv'
  <2>1. call' = call /\ explicit' = explicit
    BY <1>5, Zenon DEF SetFetchSize
  <2> QED
    BY <1>0, <1>1, <1>5, <2>1, SetFetchSizeStep, Zenon
<1>6. CASE Prepare
  <2>1. /\ options' = options /\ wish' = wish /\ settings' = settings /\ explicit' = explicit /\ call' = call
        /\ kind \in {"str", "Statement"} /\ kind' = "PreparedStatement"
    BY <1>6, Zenon DEF Prepare
  <2>2. kind # "Batch"
    BY <2>1
  <2>3. CallInv(call')
    BY <1>0, <2>1, Zenon
  <2> QED
    BY <1>2, <2>1, <2>2, <2>3, Zenon
<1>7. CASE Shutdown
  <2>1. /\ options' = options /\ wish' = wish /\ settings' = settings /\ explicit' = explicit /\ call' = call
        /\ kind' = kind
    BY <1>7, Zenon DEF Shutdown
  <2>2. CallInv(call')
    BY <1>0, <2>1, Zenon
  <2> QED
    BY <1>2, <2>1, <2>2, Zenon
<1>8. CASE Configure
  <2>1. /\ options' = options /\ wish' = wish /\ settings' = settings /\ explicit' = explicit /\ kind' = kind
    BY <1>8, Zenon DEF Configure
  <2>2. CallInv(call')
    BY <1>0, <1>8, ConfigureStep, Zenon
  <2> QED
    BY <1>2, <2>1, <2>2, Zenon
<1>9. CASE Done
  <2>1. /\ options' = options /\ wish' = wish /\ settings' = settings /\ explicit' = explicit /\ kind' = kind
        /\ call' = NoCall
    BY <1>9, Zenon DEF Done
  <2>2. CallInv(call')
    BY <2>1, NoCallInv, Zenon
  <2> QED
    BY <1>2, <2>1, <2>2, Zenon
<1>10. ASSUME NEW t \in {"unset", "none", "argument"}, NEW p \in {"unset"} \cup Profiles, CallLegacy(t, p)
       PROVE  SettingsInv'
  <2>1. /\ options' = options /\ wish' = wish /\ settings' = settings /\ explicit' = explicit /\ kind' = kind
    BY <1>10, Zenon DEF CallLegacy
  <2>2. CallInv(call')
    BY <1>0, <1>10, CallLegacyStep, Zenon DEF Named
  <2> QED
    BY <1>2, <2>1, <2>2, Zenon
<1>11. ASSUME NEW target \in {"unset", "argument"}, NEW paging \in BOOLEAN, NEW binds \in BOOLEAN,
              Send(target, paging, binds)
       PROVE  SettingsInv'
  <2>1. /\ options' = options /\ wish' = wish /\ settings' = settings /\ explicit' = explicit /\ kind' = kind
    BY <1>11, Zenon DEF Send
  <2>2. CallInv(call')
    BY <1>0, <1>11, SendStep, Zenon
  <2> QED
    BY <1>2, <2>1, <2>2, Zenon
<1>12. ASSUME NEW target \in {"unset", "argument"}, NEW paging \in BOOLEAN, NEW binds \in BOOLEAN,
              NEW factory \in {"unset", "argument"}, NEW paged \in BOOLEAN,
              CallSession(factory, paged, target, paging, binds)
       PROVE  SettingsInv'
  <2>1. /\ options' = options /\ wish' = wish /\ settings' = settings /\ explicit' = explicit /\ kind' = kind
    BY <1>12, Zenon DEF CallSession
  <2>2. CallInv(call')
    BY <1>0, <1>12, CallSessionStep, Zenon
  <2> QED
    BY <1>2, <2>1, <2>2, Zenon
<1>13. CASE UNCHANGED settingsVars
  <2>1. /\ options' = options /\ wish' = wish /\ settings' = settings /\ explicit' = explicit /\ call' = call
        /\ kind' = kind
    BY <1>13, Zenon DEF settingsVars
  <2>2. CallInv(call')
    BY <1>0, <2>1, Zenon
  <2> QED
    BY <1>2, <2>1, <2>2, Zenon
<1> QED
  BY <1>3, <1>4, <1>5, <1>6, <1>7, <1>8, <1>9, <1>10, <1>11, <1>12, <1>13,
     Zenon DEF SettingsNext

\* The invariant gives the order of precedence.
LEMMA SettingsInvGives == SettingsInv => RequestSettings
<1> SUFFICES ASSUME SettingsInv PROVE RequestSettings
  OBVIOUS
<1>0. SettingsTypes /\ CallInv(call)
  BY Zenon DEF SettingsInv
<1>1. Reading(options) = wish
  <2>1. wish \in Wishes /\ Hold(options, wish, wish.timeout)
    BY <1>0, Zenon DEF SettingsTypes
  <2> QED
    BY <2>1 DEF Wishes, Hold, Held, Reading
<1>2. ASSUME NEW a, NEW b, NEW d PROVE Or(Or(a, b), d) = Or(a, Or(b, d))
  BY DEF Or
<1>3. \A a : Or("unset", a) = a
  BY Zenon DEF Or
<1>4. ASSUME call.stage = "sent"
      PROVE  LET w == call.wish
                 s == call.session
                 profile == Profile(Or(call.profile, Or(w.profile, explicit)))
                 own(f) == Or(w[f], Or(s.defaults[f], profile[f]))
             IN /\ call.effective = Or(call.timeout, own("timeout"))
                /\ \A f \in {"consistency", "serial"} : SentAs(call.sent, f) = own(f)
                /\ call.sent.policy = Or(call.target, w.policy)
                /\ ContestedFactory(call) \/
                     call.factory = Or(IF s.mode = "Legacy" THEN s.defaults.factory
                                       ELSE IF s.mode = "Session" THEN call.given
                                       ELSE Profile(call.profile).factory,
                                       Or(w.factory, Or(Profile(w.profile).factory,
                                                        Or(Profile(explicit).factory, "namedtuple"))))
                /\ s.mode # "Session" /\ call.kind # "Batch" =>
                     /\ call.paged <=> w.page # "driver" \/ s.fetch # "none"
                     /\ call.sent.page = IF w.page = "driver" /\ s.fetch = "session" THEN "session"
                                         ELSE w.page
                /\ ~(s.mode = "Legacy" /\ call.profile # "unset")
                /\ LeavesToSession(call) =>
                     /\ call.effective = DefaultReading(s, "timeout")
                     /\ \A f \in {"consistency", "serial"} : SentAs(call.sent, f) = DefaultReading(s, f)
  <2> DEFINE w == call.wish
             s == call.session
             profile == Profile(Or(call.profile, Or(w.profile, explicit)))
             own(f) == Or(w[f], Or(s.defaults[f], profile[f]))
  <2>1. "sent" \notin {"none", "called", "configured"}
    OBVIOUS
  <2>2. /\ CalledWith(call) /\ IsConfigured(call, s) /\ IsSent(call)
        /\ call.sent.policy = Or(call.target, w.policy)
    BY <1>0, <1>4, <2>1, Zenon DEF CallInv
  <2>3. /\ call.sent.timeout = Held(Or(call.timeout, Or(w.timeout, s.defaults.timeout)))
        /\ call.sent.consistency = Or(w.consistency, s.defaults.consistency)
        /\ call.sent.serial = Or(w.serial, s.defaults.serial)
        /\ call.sent.profile = Or(call.profile, w.profile)
        /\ s.defaults \in Defaults
    BY <2>2, Zenon DEF IsConfigured
  <2>4. w \in Wishes /\ call.timeout \in {"unset", "none", "argument"} /\ call.profile \in Named
    BY <2>2, Zenon DEF CalledWith
  <2>5. explicit \in Named
    BY <1>0, Zenon DEF SettingsTypes
  <2> HIDE DEF w, s
  <2>6. Or(call.sent.profile, explicit) = Or(call.profile, Or(w.profile, explicit))
    BY <1>2, <2>3
  <2>7. profile.timeout # "max"
    <3>1. w.profile \in Named
      BY <2>4 DEF Wishes
    <3>2. Or(call.profile, Or(w.profile, explicit)) \in Named
      BY <2>4, <2>5, <3>1, Zenon DEF Or
    <3> QED
      BY <3>2, ProfileTimeouts, Zenon
  <2>8. call.effective = Or(call.timeout, own("timeout"))
    <3> DEFINE t == Or(call.timeout, Or(w.timeout, s.defaults.timeout))
    <3>1. t \in {"unset", "none", "argument", "statement", "session"}
      BY <2>3, <2>4 DEF Or, Wishes, Defaults
    <3>2. Or(call.timeout, own("timeout")) = Or(t, profile.timeout)
      BY <1>2
    <3> HIDE DEF t
    <3>3. call.effective = LET z == IF Held(t) # "unset" THEN Held(t) ELSE profile.timeout
                           IN IF z = "max" THEN "none" ELSE z
      <4>1. call.effective = EffectiveTimeout(call.sent)
        BY <2>2, Zenon DEF IsSent
      <4>2. Profile(IF call.sent.profile # "unset" THEN call.sent.profile ELSE explicit) = profile
        BY <2>6, Zenon DEF Or
      <4> HIDE DEF profile
      <4> QED
        BY <2>3, <4>1, <4>2, Zenon DEF EffectiveTimeout, t
    <3> HIDE DEF profile
    <3> QED
      BY <2>7, <3>1, <3>2, <3>3 DEF Held, Or
  <2>9. \A f \in {"consistency", "serial"} : SentAs(call.sent, f) = own(f)
    <3>1. \A f \in {"consistency", "serial"} : call.sent[f] = Or(w[f], s.defaults[f])
      BY <2>3
    <3>2. \A f : SentAs(call.sent, f) = Or(call.sent[f], profile[f])
      BY <2>6, Zenon DEF SentAs
    <3> HIDE DEF profile
    <3> QED
      BY <1>2, <3>1, <3>2
  <2>10. call.factory = Or(IF s.mode = "Legacy" THEN s.defaults.factory
                           ELSE IF s.mode = "Session" THEN call.given
                           ELSE Profile(call.profile).factory,
                           Or(w.factory, Or(Profile(w.profile).factory,
                                            Or(Profile(explicit).factory, "namedtuple"))))
    <3>1. call.factory = ChooseRowFactory(call.given, call.asked)
      BY <2>2, Zenon DEF IsSent
    <3>2. ChooseRowFactory(call.given, call.asked)
            = Or(call.given, Or(call.asked, Or(Profile(explicit).factory, "namedtuple")))
      BY DEF ChooseRowFactory, Or
    <3>3. call.asked = Or(w.factory, Profile(w.profile).factory)
      BY <2>2, Zenon DEF CalledWith, w
    <3>4. call.given = IF s.mode = "Legacy" THEN s.defaults.factory
                       ELSE IF s.mode = "Session" THEN call.given
                       ELSE Profile(call.profile).factory
      BY <2>2, Zenon DEF IsConfigured
    <3>5. Or(call.asked, Or(Profile(explicit).factory, "namedtuple"))
            = Or(w.factory, Or(Profile(w.profile).factory, Or(Profile(explicit).factory, "namedtuple")))
      BY <1>2, <3>3
    <3> QED
      BY <3>1, <3>2, <3>4, <3>5, Zenon
  <2>11. /\ s.mode # "Session" /\ call.kind # "Batch" =>
              /\ call.paged <=> w.page # "driver" \/ s.fetch # "none"
              /\ call.sent.page = IF w.page = "driver" /\ s.fetch = "session" THEN "session"
                                  ELSE w.page
         /\ ~(s.mode = "Legacy" /\ call.profile # "unset")
    BY <2>2, Zenon DEF IsConfigured, w
  <2>12. ASSUME LeavesToSession(call)
         PROVE  /\ call.effective = DefaultReading(s, "timeout")
                /\ \A f \in {"consistency", "serial"} : SentAs(call.sent, f) = DefaultReading(s, f)
    <3>1. /\ call.timeout = "unset" /\ call.profile = "unset" /\ w.timeout = "unset" /\ w.profile = "unset"
          /\ w.consistency = "unset" /\ w.serial = "unset"
      BY <2>12 DEF LeavesToSession, w
    <3>2. profile = Profile(explicit)
      BY <1>3, <3>1, Zenon
    <3> HIDE DEF profile
    <3>3. \A f \in {"timeout", "consistency", "serial"} : own(f) = DefaultReading(s, f)
      BY <1>3, <3>1, <3>2 DEF DefaultReading
    <3> HIDE DEF own
    <3>4. call.effective = DefaultReading(s, "timeout")
      BY <1>3, <2>8, <3>1, <3>3, Zenon
    <3> QED
      BY <2>9, <3>3, <3>4, Zenon
  <2> QED
    BY <2>2, <2>8, <2>9, <2>10, <2>11, <2>12, Zenon DEF w, s
<1> QED
  BY <1>1, <1>4, Zenon DEF RequestSettings

\* Every request runs with the first setting given for it - call, statement, session default,
\* profiles - for any profiles, and whatever another thread sets between its steps
\* (statement.rs, legacy/session.rs, core/session.rs).
THEOREM SettingsHold == SettingsSpec => []RequestSettings
<1>1. SettingsInit => SettingsInv
  BY SettingsStart
<1>2. SettingsInv /\ [SettingsNext]_settingsVars => SettingsInv'
  BY SettingsStep
<1>3. SettingsInv => RequestSettings
  BY SettingsInvGives
<1> QED
  BY <1>1, <1>2, <1>3, PTL DEF SettingsSpec

-----------------------------------------------------------------------------
(* Retry sessions: the calls on one, in the order they were made. *)

Calls == [by : Requests \cup {"application"}, answer : PyDecisions \cup {"builtin", "other", "raises"},
          did : PyDecisions \cup {"reset"}]

\* Call i of l asked for a decision on request r.
Asks(l, r, i) == l[i].by = r /\ l[i].did # "reset"

\* What the calls l on the session of request r say of it, when it is at a.
RequestObeys(l, r, a) ==
  /\ \A i \in DOMAIN l : Asks(l, r, i) =>
       /\ (\E j \in DOMAIN l : i < j /\ Asks(l, r, j)) \/ a \in {"sent", "failed"} =>
            l[i].did \in Retry
       /\ l[i].answer \in PyDecisions => l[i].did = l[i].answer
       /\ l[i].answer \in {"other", "raises"} => a = "error"
  /\ a = "error" => \E i \in DOMAIN l : Asks(l, r, i) /\ l[i].did = "DontRetry"

ResetIn(l, i, j) == \E k \in DOMAIN l : i < k /\ k < j /\ l[k].did = "reset"

\* What the calls l on a built-in session s are: it has used its retry up exactly when
\* there was one since the last reset; never, if it is a fallthrough one.
SessionObeys(l, s, used, class) ==
  /\ class = "Fallthrough" => \A i \in DOMAIN l : l[i].did \notin Retry
  /\ \A i, j \in DOMAIN l :
       i < j /\ l[i].did \in Retry /\ l[j].did \in Retry => ResetIn(l, i, j)
  /\ class # "Fallthrough" => \A j \in DOMAIN l : l[j].did = "DontRetry" =>
       \E i \in DOMAIN l : i < j /\ l[i].did \in Retry /\ ~ResetIn(l, i, j)
  /\ s \in used => \E i \in DOMAIN l : /\ l[i].did \in Retry
                                  /\ \A k \in DOMAIN l : i < k => l[k].did # "reset"
  /\ s \notin used => \A i \in DOMAIN l : l[i].did \in Retry =>
                 \E k \in DOMAIN l : i < k /\ l[k].did = "reset"

\* m is l and one more call.
OneMore(l, m, e) ==
  /\ Len(l) \in Nat /\ DOMAIN l = 1..Len(l) /\ DOMAIN m = 1..(Len(l) + 1)
  /\ \A i \in DOMAIN l : m[i] = l[i]
  /\ m[Len(l) + 1] = e

\* A call that is made is the last.
LEMMA CallAdded ==
  ASSUME NEW l \in Seq(Calls), NEW e \in Calls
  PROVE  OneMore(l, Append(l, e), e) /\ Append(l, e) \in Seq(Calls)
BY DEF OneMore

\* A call that is no decision on request r changes nothing for it.
LEMMA OtherCall ==
  ASSUME NEW l, NEW m, NEW e, NEW r, NEW a, OneMore(l, m, e), RequestObeys(l, r, a),
         e.by # r \/ e.did = "reset"
  PROVE  RequestObeys(m, r, a)
<1>1. \A i \in DOMAIN m : Asks(m, r, i) => i \in DOMAIN l /\ Asks(l, r, i) /\ m[i] = l[i]
  BY DEF OneMore, Asks
<1>2. \A i \in DOMAIN l : i \in DOMAIN m /\ m[i] = l[i] /\ (Asks(l, r, i) => Asks(m, r, i))
  BY DEF OneMore, Asks
<1> QED
  BY <1>1, <1>2, Zenon DEF RequestObeys

\* The decision on a request whose attempt failed is the last word on it.
LEMMA OwnCall ==
  ASSUME NEW l, NEW m, NEW e, NEW r, NEW a, OneMore(l, m, e), RequestObeys(l, r, "failed"),
         e.by = r, e.did # "reset",
         e.answer \in PyDecisions => e.did = e.answer,
         e.answer \in {"other", "raises"} => e.did = "DontRetry",
         a \in {"sent", "failed"} => e.did \in Retry,
         a = "error" <=> e.did = "DontRetry"
  PROVE  RequestObeys(m, r, a)
<1> DEFINE n == Len(l) + 1
<1>0. "failed" \in {"sent", "failed"} /\ "failed" # "error"
  OBVIOUS
<1>1. /\ n \in DOMAIN m /\ m[n] = e /\ Asks(m, r, n)
      /\ \A i \in DOMAIN m : i = n \/ (i \in DOMAIN l /\ m[i] = l[i] /\ i < n)
      /\ \A i \in DOMAIN m : ~(n < i)
  BY DEF OneMore, Asks
<1>2. \A i \in DOMAIN l : Asks(l, r, i) =>
        /\ l[i].did \in Retry /\ (l[i].answer \in PyDecisions => l[i].did = l[i].answer)
        /\ l[i].answer \notin {"other", "raises"}
  BY <1>0, Zenon DEF RequestObeys
<1> HIDE DEF n
<1>3. \A i \in DOMAIN l : m[i] = l[i] /\ Asks(m, r, i) => Asks(l, r, i)
  BY Zenon DEF Asks
<1>4. ASSUME NEW i \in DOMAIN m, Asks(m, r, i)
      PROVE  /\ (\E j \in DOMAIN m : i < j /\ Asks(m, r, j)) \/ a \in {"sent", "failed"} =>
                  m[i].did \in Retry
             /\ m[i].answer \in PyDecisions => m[i].did = m[i].answer
             /\ m[i].answer \in {"other", "raises"} => a = "error"
  <2>1. CASE i = n
    BY <1>1, <2>1, Zenon
  <2>2. CASE i \in DOMAIN l /\ m[i] = l[i]
    BY <1>2, <1>3, <1>4, <2>2, Zenon
  <2> QED
    BY <1>1, <2>1, <2>2, Zenon
<1> QED
  BY <1>1, <1>4, Zenon DEF RequestObeys

\* What was so of the calls before stays so, whatever the new one did.
LEMMA EarlierCalls ==
  ASSUME NEW l, NEW m, NEW e, OneMore(l, m, e)
  PROVE  /\ \A i \in DOMAIN l : i \in DOMAIN m /\ m[i] = l[i] /\ i < Len(l) + 1
         /\ \A i \in DOMAIN m : i \in DOMAIN l \/ (i = Len(l) + 1 /\ m[i] = e)
         /\ Len(l) + 1 \in DOMAIN m /\ m[Len(l) + 1] = e
         /\ \A i, j \in DOMAIN l : ResetIn(m, i, j) <=> ResetIn(l, i, j)
<1>1. /\ \A i \in DOMAIN l : i \in DOMAIN m /\ m[i] = l[i] /\ i < Len(l) + 1
      /\ \A i \in DOMAIN m : i \in DOMAIN l \/ (i = Len(l) + 1 /\ m[i] = e)
      /\ Len(l) + 1 \in DOMAIN m /\ m[Len(l) + 1] = e
      /\ \A k \in DOMAIN m, j \in DOMAIN l : k < j => k \in DOMAIN l
  BY DEF OneMore
<1>2. \A i, j \in DOMAIN l : ResetIn(m, i, j) <=> ResetIn(l, i, j)
  BY <1>1, Zenon DEF ResetIn
<1> QED
  BY <1>1, <1>2, Zenon

\* A built-in session refuses when it has retried, or never retries.
LEMMA SessionRefuses ==
  ASSUME NEW l, NEW m, NEW e, NEW s, NEW used, NEW usedNow, NEW class,
         OneMore(l, m, e), SessionObeys(l, s, used, class), e.did = "DontRetry",
         class = "Fallthrough" \/ s \in used, s \in usedNow <=> s \in used
  PROVE  SessionObeys(m, s, usedNow, class)
<1> DEFINE n == Len(l) + 1
<1>1. e.did \notin Retry /\ e.did # "reset"
  BY DEF Retry
<1>2. /\ \A i \in DOMAIN l : i \in DOMAIN m /\ m[i] = l[i] /\ i < n
      /\ \A i \in DOMAIN m : i \in DOMAIN l \/ (i = n /\ m[i] = e)
      /\ n \in DOMAIN m /\ m[n] = e
      /\ \A i, j \in DOMAIN l : ResetIn(m, i, j) <=> ResetIn(l, i, j)
  BY EarlierCalls, Zenon
<1> HIDE DEF n
<1>3. class = "Fallthrough" => \A i \in DOMAIN m : m[i].did \notin Retry
  BY <1>1, <1>2, Zenon DEF SessionObeys
<1>4. \A i, j \in DOMAIN m : i < j /\ m[i].did \in Retry /\ m[j].did \in Retry => ResetIn(m, i, j)
  BY <1>1, <1>2, Zenon DEF SessionObeys
<1>5. s \in used => \E i \in DOMAIN m : /\ m[i].did \in Retry /\ i < n
                                        /\ \A k \in DOMAIN m : i < k => m[k].did # "reset"
  <2>1. s \in used => \E i \in DOMAIN l : /\ l[i].did \in Retry
                                          /\ \A k \in DOMAIN l : i < k => l[k].did # "reset"
    BY Zenon DEF SessionObeys
  <2> QED
    BY <1>1, <1>2, <2>1, Zenon
<1>6. s \notin used => \A i \in DOMAIN m : m[i].did \in Retry => \E k \in DOMAIN m : i < k /\ m[k].did = "reset"
  BY <1>1, <1>2, Zenon DEF SessionObeys
<1>7. ASSUME class # "Fallthrough", NEW j \in DOMAIN m, m[j].did = "DontRetry"
      PROVE  \E i \in DOMAIN m : i < j /\ m[i].did \in Retry /\ ~ResetIn(m, i, j)
  <2>1. CASE j \in DOMAIN l
    BY <1>2, <1>7, <2>1, Zenon DEF SessionObeys
  <2>2. CASE j = n
    BY <1>5, <1>7, <2>2, Zenon DEF ResetIn
  <2> QED
    BY <1>2, <2>1, <2>2, Zenon
<1> QED
  BY <1>3, <1>4, <1>5, <1>6, <1>7, Zenon DEF SessionObeys

\* A built-in session that has its retry uses it up.
LEMMA SessionRetries ==
  ASSUME NEW l, NEW m, NEW e, NEW s, NEW used, NEW usedNow, NEW class,
         OneMore(l, m, e), SessionObeys(l, s, used, class), e.did \in Retry,
         class # "Fallthrough", s \notin used, s \in usedNow
  PROVE  SessionObeys(m, s, usedNow, class)
<1> DEFINE n == Len(l) + 1
<1>1. e.did # "DontRetry" /\ e.did # "reset"
  BY DEF Retry
<1>2. /\ \A i \in DOMAIN l : i \in DOMAIN m /\ m[i] = l[i] /\ i < n
      /\ \A i \in DOMAIN m : i \in DOMAIN l \/ (i = n /\ m[i] = e)
      /\ n \in DOMAIN m /\ m[n] = e
      /\ \A i, j \in DOMAIN l : ResetIn(m, i, j) <=> ResetIn(l, i, j)
  BY EarlierCalls, Zenon
<1>3. ~(n < n) /\ \A i \in DOMAIN m : ~(n < i)
  BY DEF OneMore
<1> HIDE DEF n
<1>4. ASSUME NEW i \in DOMAIN m, NEW j \in DOMAIN m, i < j, m[i].did \in Retry, m[j].did \in Retry
      PROVE  ResetIn(m, i, j)
  <2>1. i \in DOMAIN l /\ l[i].did \in Retry
    BY <1>2, <1>3, <1>4, Zenon
  <2>2. CASE j \in DOMAIN l
    BY <1>2, <1>4, <2>1, <2>2, Zenon DEF SessionObeys
  <2>3. CASE j = n
    <3>1. \E k \in DOMAIN l : i < k /\ l[k].did = "reset"
      BY <2>1, Zenon DEF SessionObeys
    <3> QED
      BY <1>2, <2>3, <3>1, Zenon DEF ResetIn
  <2> QED
    BY <1>2, <2>2, <2>3, Zenon
<1>5. \A j \in DOMAIN m : m[j].did = "DontRetry" =>
        \E i \in DOMAIN m : i < j /\ m[i].did \in Retry /\ ~ResetIn(m, i, j)
  BY <1>1, <1>2, Zenon DEF SessionObeys
<1> QED
  BY <1>2, <1>3, <1>4, <1>5, Zenon DEF SessionObeys

\* A built-in session has its retry after a reset.
LEMMA SessionReset ==
  ASSUME NEW l, NEW m, NEW e, NEW s, NEW used, NEW usedNow, NEW class,
         OneMore(l, m, e), SessionObeys(l, s, used, class), e.did = "reset", s \notin usedNow
  PROVE  SessionObeys(m, s, usedNow, class)
<1> DEFINE n == Len(l) + 1
<1>1. e.did \notin Retry /\ e.did # "DontRetry"
  BY DEF Retry
<1>2. /\ \A i \in DOMAIN l : i \in DOMAIN m /\ m[i] = l[i] /\ i < n
      /\ \A i \in DOMAIN m : i \in DOMAIN l \/ (i = n /\ m[i] = e)
      /\ n \in DOMAIN m /\ m[n] = e
      /\ \A i, j \in DOMAIN l : ResetIn(m, i, j) <=> ResetIn(l, i, j)
  BY EarlierCalls, Zenon
<1> HIDE DEF n
<1>3. class = "Fallthrough" => \A i \in DOMAIN m : m[i].did \notin Retry
  BY <1>1, <1>2, Zenon DEF SessionObeys
<1>4. \A i, j \in DOMAIN m : i < j /\ m[i].did \in Retry /\ m[j].did \in Retry => ResetIn(m, i, j)
  BY <1>1, <1>2, Zenon DEF SessionObeys
<1>5. class # "Fallthrough" => \A j \in DOMAIN m : m[j].did = "DontRetry" =>
        \E i \in DOMAIN m : i < j /\ m[i].did \in Retry /\ ~ResetIn(m, i, j)
  BY <1>1, <1>2, Zenon DEF SessionObeys
<1>6. \A i \in DOMAIN m : m[i].did \in Retry => \E k \in DOMAIN m : i < k /\ m[k].did = "reset"
  BY <1>1, <1>2, Zenon
<1> QED
  BY <1>3, <1>4, <1>5, <1>6, Zenon DEF SessionObeys

-----------------------------------------------------------------------------
(* Retry sessions: requests that ask them, alone or together. *)

Stages == {"new", "sent", "failed", "done", "error"}

PolicyTypes ==
  /\ policy \in SessionKinds /\ objects \in [PyObjects -> SessionKinds]
  /\ attempt \in [Requests -> Stages]
  /\ DOMAIN retrySession = Requests /\ DOMAIN handed = Requests
  /\ log \in [Sessions -> Seq(Calls)]

Started(r) == attempt[r] # "new"

\* A request that was started has the session of the object it was handed.
SessionsGiven ==
  \A r \in Requests : Started(r) =>
    \/ handed[r] = "raises" /\ retrySession[r] = Own(r)
    \/ handed[r] \in PyObjects /\ retrySession[r] = Shared(handed[r])

\* Request r asks session s, or the application does, which has its object.
AsksSession(by, s) ==
  \/ by = "application" /\ \E o \in PyObjects : s = Shared(o)
  \/ by \in Requests /\ Started(by) /\ retrySession[by] = s

\* Nobody else calls a session.
Callers == \A s \in Sessions : \A i \in DOMAIN log[s] : AsksSession(log[s][i].by, s)

RequestsObey ==
  \A r \in Requests : Started(r) => RequestObeys(log[retrySession[r]], r, attempt[r])

SessionsObey ==
  \A s \in Sessions : KindOf(s) # "Python" =>
    SessionObeys(log[s], s, retried, KindOf(s))

PolicyInv == PolicyTypes /\ SessionsGiven /\ Callers /\ RequestsObey /\ SessionsObey

\* Sessions are told apart by whom they are for, and a started request has one.
LEMMA SessionsApart ==
  /\ \A r \in Requests : Own(r) \in Sessions
  /\ \A o \in PyObjects : Shared(o) \in Sessions
  /\ \A q, r : Own(q) = Own(r) => q = r
  /\ \A o, p : Shared(o) = Shared(p) => o = p
  /\ \A r, o : Own(r) # Shared(o)
BY DEF Own, Shared, Sessions

LEMMA HasSession ==
  ASSUME SessionsGiven, NEW r \in Requests, Started(r)
  PROVE  retrySession[r] \in Sessions
<1>1. \/ retrySession[r] = Own(r)
      \/ handed[r] \in PyObjects /\ retrySession[r] = Shared(handed[r])
  BY DEF SessionsGiven
<1>2. CASE retrySession[r] = Own(r)
  <2>1. Own(r) \in Sessions
    BY SessionsApart
  <2> QED
    BY <1>2, <2>1
<1>3. CASE handed[r] \in PyObjects /\ retrySession[r] = Shared(handed[r])
  <2>1. Shared(handed[r]) \in Sessions
    BY <1>3, SessionsApart
  <2> QED
    BY <1>3, <2>1
<1> QED
  BY <1>1, <1>2, <1>3

\* Every session is of a class.
LEMMA KindOfSession ==
  ASSUME PolicyTypes, NEW s \in Sessions
  PROVE  KindOf(s) \in SessionKinds
<1>1. CASE \E r \in Requests : s = Own(r)
  BY <1>1 DEF Own, KindOf, PolicyTypes, SessionKinds
<1>2. CASE \E o \in PyObjects : s = Shared(o)
  BY <1>2 DEF Shared, KindOf, PolicyTypes
<1> QED
  BY <1>1, <1>2, Zenon DEF Sessions

\* What a session may decide: a Python one what it answers, a built-in one to retry once.
LEMMA Decisions ==
  ASSUME PolicyTypes, NEW s \in Sessions, NEW answer \in Answers(s)
  PROVE  /\ Decision(s, answer) \in PyDecisions
         /\ answer \in PyDecisions => Decision(s, answer) = answer
         /\ answer \in {"other", "raises"} => Decision(s, answer) = "DontRetry"
         /\ KindOf(s) = "Fallthrough" => Decision(s, answer) = "DontRetry"
         /\ KindOf(s) \in {"Default", "Downgrading"} =>
              IF s \in retried THEN Decision(s, answer) = "DontRetry"
              ELSE Decision(s, answer) \in Retry
<1> DEFINE k == KindOf(s)
<1>1. k \in {"Default", "Downgrading", "Fallthrough", "Python"}
  BY KindOfSession, Zenon DEF SessionKinds
<1>2. /\ answer \in IF k = "Python" THEN PyDecisions \cup {"other", "raises"} ELSE {"builtin"}
      /\ Decision(s, answer) = IF k = "Python" THEN DecisionOf(answer) ELSE BuiltinDecision(k, s)
  BY Zenon DEF Answers, Decision
<1> HIDE DEF k
<1>3. CASE k = "Python"
  BY <1>2, <1>3 DEF DecisionOf, PyDecisions, k
<1>4. CASE k # "Python"
  <2>1. answer = "builtin" /\ Decision(s, answer) = BuiltinDecision(k, s)
    BY <1>2, <1>4, Zenon
  <2>2. CASE k = "Fallthrough"
    BY <2>1, <2>2 DEF BuiltinDecision, PyDecisions, k
  <2>3. CASE k \in {"Default", "Downgrading"}
    BY <2>1, <2>3 DEF BuiltinDecision, PyDecisions, Retry, k
  <2> QED
    BY <1>1, <1>4, <2>2, <2>3, Zenon
<1> QED
  BY <1>3, <1>4, Zenon

\* A step in which request or application e.by calls session s.
Called(s, e) ==
  /\ s \in Sessions /\ e \in Calls /\ AsksSession(e.by, s)
  /\ log' = [log EXCEPT ![s] = Append(@, e)]
  /\ UNCHANGED <<policy, objects, retrySession, handed>>
  /\ attempt' \in [Requests -> Stages] /\ \A q \in Requests : Started(q)' <=> Started(q)

\* The call is the last on its session, and the others have no new one.
LEMMA CalledLast ==
  ASSUME PolicyTypes, NEW s, NEW e, Called(s, e)
  PROVE  /\ OneMore(log[s], log'[s], e) /\ log' \in [Sessions -> Seq(Calls)]
         /\ \A t \in Sessions : t # s => log'[t] = log[t]
         /\ \A t : KindOf(t)' = KindOf(t)
<1>1. s \in Sessions /\ e \in Calls /\ log \in [Sessions -> Seq(Calls)] /\ log[s] \in Seq(Calls)
  BY DEF PolicyTypes, Called
<1>2. Append(log[s], e) \in Seq(Calls) /\ OneMore(log[s], Append(log[s], e), e)
  BY <1>1, CallAdded, Zenon
<1>3. log' = [log EXCEPT ![s] = Append(log[s], e)]
  BY Zenon DEF Called
<1>4. log'[s] = Append(log[s], e) /\ \A t \in Sessions : t # s => log'[t] = log[t]
  BY <1>1, <1>3
<1>5. log' \in [Sessions -> Seq(Calls)]
  BY <1>1, <1>2, <1>3
<1>6. \A t : KindOf(t)' = KindOf(t)
  BY DEF Called, KindOf
<1> QED
  BY <1>2, <1>4, <1>5, <1>6, Zenon

\* A call is by one who may make it.
LEMMA CalledByOne ==
  ASSUME PolicyTypes, SessionsGiven, Callers, NEW s, NEW e, Called(s, e)
  PROVE  PolicyTypes' /\ SessionsGiven' /\ Callers'
<1>1. /\ OneMore(log[s], log'[s], e) /\ log' \in [Sessions -> Seq(Calls)]
      /\ \A t \in Sessions : t # s => log'[t] = log[t]
  BY CalledLast
<1>2. PolicyTypes'
  BY <1>1, Zenon DEF PolicyTypes, Called
<1>3. SessionsGiven'
  BY Zenon DEF SessionsGiven, Called
<1>4. \A b, t : AsksSession(b, t) => AsksSession(b, t)'
  BY Zenon DEF AsksSession, Called
<1>5. \A i \in DOMAIN log'[s] : log'[s][i] = e \/ (i \in DOMAIN log[s] /\ log'[s][i] = log[s][i])
  BY <1>1 DEF OneMore
<1>6. AsksSession(e.by, s)' /\ s \in Sessions
  BY <1>4, Zenon DEF Called
<1>7. ASSUME NEW t \in Sessions, NEW i \in DOMAIN log'[t] PROVE AsksSession(log[t][i].by, t)'
  <2>1. CASE t = s
    BY <1>4, <1>5, <1>6, <1>7, <2>1, Zenon DEF Callers
  <2>2. CASE t # s
    <3>1. log'[t] = log[t]
      BY <1>1, <2>2, Zenon
    <3> QED
      BY <1>4, <1>7, <3>1, Zenon DEF Callers
  <2> QED
    BY <2>1, <2>2, Zenon
<1>8. Callers'
  BY <1>7, Zenon DEF Callers
<1> QED
  BY <1>2, <1>3, <1>8, Zenon

\* Other requests are left as they were by it.
LEMMA OthersUndisturbed ==
  ASSUME PolicyInv, NEW s, NEW e, Called(s, e), NEW r \in Requests, Started(r),
         e.by # r \/ e.did = "reset", attempt'[r] = attempt[r]
  PROVE  RequestObeys(log[retrySession[r]], r, attempt[r])'
<1>1. /\ OneMore(log[s], log'[s], e) /\ \A t \in Sessions : t # s => log'[t] = log[t]
      /\ retrySession' = retrySession
  BY CalledLast, Zenon DEF PolicyInv, Called
<1>2. RequestObeys(log[retrySession[r]], r, attempt[r]) /\ retrySession[r] \in Sessions
  BY HasSession, Zenon DEF PolicyInv, RequestsObey
<1>3. RequestObeys(log'[retrySession[r]], r, attempt[r])
  <2>1. CASE retrySession[r] = s
    BY <1>1, <1>2, <2>1, OtherCall
  <2>2. CASE retrySession[r] # s
    BY <1>1, <1>2, <2>2, Zenon
  <2> QED
    BY <2>1, <2>2, Zenon
<1> QED
  BY <1>1, <1>3, Zenon

\* A session that is asked retries when it may, and has its retry no more.
LEMMA AskedObeys ==
  ASSUME PolicyInv, NEW by, NEW s, NEW answer, NEW e, Called(s, e), Asked(by, s, answer),
         e.did = Decision(s, answer)
  PROVE  SessionsObey'
<1>1. /\ OneMore(log[s], log'[s], e) /\ \A t \in Sessions : t # s => log'[t] = log[t]
      /\ \A t : KindOf(t)' = KindOf(t)
  BY CalledLast DEF PolicyInv
<1>2. s \in Sessions /\ answer \in Answers(s) /\ PolicyTypes
  BY Zenon DEF Called, Asked, PolicyInv
<1>3. /\ KindOf(s) \in {"Default", "Downgrading"} => retried' = retried \cup {s}
      /\ KindOf(s) \notin {"Default", "Downgrading"} => retried' = retried
  BY Zenon DEF Asked
<1>4. KindOf(s) \in {"Default", "Downgrading", "Fallthrough", "Python"}
  BY <1>2, KindOfSession, Zenon DEF SessionKinds
<1>5. /\ KindOf(s) = "Fallthrough" => e.did = "DontRetry"
      /\ KindOf(s) \in {"Default", "Downgrading"} =>
           IF s \in retried THEN e.did = "DontRetry" ELSE e.did \in Retry
  BY <1>2, Decisions, Zenon
<1>6. ASSUME KindOf(s) # "Python" PROVE SessionObeys(log'[s], s, retried', KindOf(s))
  <2>1. SessionObeys(log[s], s, retried, KindOf(s))
    BY <1>2, <1>6, Zenon DEF PolicyInv, SessionsObey
  <2>2. CASE KindOf(s) = "Fallthrough" \/ s \in retried
    <3>1. (s \in retried' <=> s \in retried) /\ e.did = "DontRetry"
      BY <1>3, <1>4, <1>5, <1>6, <2>2
    <3> QED
      BY <1>1, <2>1, <2>2, <3>1, SessionRefuses, Zenon
  <2>3. CASE KindOf(s) # "Fallthrough" /\ s \notin retried
    <3>1. s \in retried' /\ e.did \in Retry
      BY <1>3, <1>4, <1>5, <1>6, <2>3
    <3> QED
      BY <1>1, <2>1, <2>3, <3>1, SessionRetries, Zenon
  <2> QED
    BY <2>2, <2>3, Zenon
<1>7. ASSUME NEW t \in Sessions, t # s, KindOf(t) # "Python"
      PROVE  SessionObeys(log'[t], t, retried', KindOf(t))
  <2>1. (t \in retried' <=> t \in retried) /\ log'[t] = log[t]
    BY <1>1, <1>3, <1>7
  <2>2. SessionObeys(log[t], t, retried, KindOf(t))
    BY <1>7, Zenon DEF PolicyInv, SessionsObey
  <2> QED
    BY <2>1, <2>2, Zenon DEF SessionObeys
<1> QED
  BY <1>1, <1>6, <1>7, Zenon DEF SessionsObey

\* A session that is reset has its retry again.
LEMMA ResetObeys ==
  ASSUME PolicyInv, NEW by, NEW s, NEW e, Called(s, e), Reset(by, s), e.did = "reset"
  PROVE  SessionsObey'
<1>1. /\ OneMore(log[s], log'[s], e) /\ \A t \in Sessions : t # s => log'[t] = log[t]
      /\ \A t : KindOf(t)' = KindOf(t)
  BY CalledLast DEF PolicyInv
<1>2. s \in Sessions /\ retried' = retried \ {s}
  BY Zenon DEF Called, Reset
<1>3. ASSUME KindOf(s) # "Python" PROVE SessionObeys(log'[s], s, retried', KindOf(s))
  <2>1. SessionObeys(log[s], s, retried, KindOf(s)) /\ s \notin retried'
    BY <1>2, <1>3, Zenon DEF PolicyInv, SessionsObey
  <2> QED
    BY <1>1, <2>1, SessionReset, Zenon
<1>4. ASSUME NEW t \in Sessions, t # s, KindOf(t) # "Python"
      PROVE  SessionObeys(log'[t], t, retried', KindOf(t))
  <2>1. (t \in retried' <=> t \in retried) /\ log'[t] = log[t]
    BY <1>1, <1>2, <1>4
  <2>2. SessionObeys(log[t], t, retried, KindOf(t))
    BY <1>4, Zenon DEF PolicyInv, SessionsObey
  <2> QED
    BY <2>1, <2>2, Zenon DEF SessionObeys
<1> QED
  BY <1>1, <1>3, <1>4, Zenon DEF SessionsObey

\* A request that starts has not been decided on.
LEMMA StartKeeps ==
  ASSUME PolicyInv, NEW r \in Requests, NEW o \in PyObjects \cup {"raises"}, StartRequest(r, o)
  PROVE  PolicyInv'
<1>1. /\ attempt[r] = "new" /\ (policy # "Python" => o = "raises")
      /\ retrySession' = [retrySession EXCEPT ![r] = SessionFor(r, o)]
      /\ handed' = [handed EXCEPT ![r] = o] /\ attempt' = [attempt EXCEPT ![r] = "sent"]
      /\ policy' = policy /\ objects' = objects /\ retried' = retried /\ log' = log
  BY Zenon DEF StartRequest
<1>2. /\ attempt \in [Requests -> Stages] /\ DOMAIN retrySession = Requests
      /\ DOMAIN handed = Requests
  BY Zenon DEF PolicyInv, PolicyTypes
<1>3. /\ retrySession'[r] = SessionFor(r, o) /\ handed'[r] = o /\ attempt'[r] = "sent"
      /\ \A q \in Requests : q # r => /\ retrySession'[q] = retrySession[q]
                                      /\ handed'[q] = handed[q] /\ attempt'[q] = attempt[q]
      /\ DOMAIN retrySession' = Requests /\ DOMAIN handed' = Requests
      /\ attempt' \in [Requests -> Stages]
  BY <1>1, <1>2 DEF Stages
<1>4. PolicyTypes'
  BY <1>1, <1>3, Zenon DEF PolicyInv, PolicyTypes
<1>5. \/ o = "raises" /\ retrySession'[r] = Own(r)
      \/ o \in PyObjects /\ retrySession'[r] = Shared(o)
  BY <1>1, <1>3, Zenon DEF SessionFor
<1>6. SessionsGiven'
  BY <1>3, <1>5, Zenon DEF PolicyInv, SessionsGiven, Started
<1>7. ~Started(r) /\ \A q \in Requests : q # r => (Started(q)' <=> Started(q))
  BY <1>1, <1>3, Zenon DEF Started
<1>8. \A b, t : AsksSession(b, t) => AsksSession(b, t)' /\ b # r
  <2>1. r # "application"
    BY RequestsAssumption, Zenon
  <2> QED
    BY <1>3, <1>7, <2>1, Zenon DEF AsksSession
<1>9. Callers'
  BY <1>1, <1>8, Zenon DEF PolicyInv, Callers
<1>10. ASSUME NEW q \in Requests, Started(q)'
       PROVE  RequestObeys(log[retrySession[q]], q, attempt[q])'
  <2>1. CASE q = r
    <3>1. retrySession'[r] \in Sessions
      BY <1>5, SessionsApart, Zenon
    <3>2. \A i \in DOMAIN log[retrySession'[r]] : ~Asks(log[retrySession'[r]], r, i)
      BY <1>8, <3>1, Zenon DEF PolicyInv, Callers, Asks
    <3>3. "sent" # "error"
      OBVIOUS
    <3>4. RequestObeys(log[retrySession'[r]], r, "sent")
      BY <3>2, <3>3, Zenon DEF RequestObeys
    <3> QED
      BY <1>1, <1>3, <2>1, <3>4, Zenon
  <2>2. CASE q # r
    BY <1>1, <1>3, <1>7, <1>10, <2>2, Zenon DEF PolicyInv, RequestsObey
  <2> QED
    BY <2>1, <2>2, Zenon
<1>11. RequestsObey'
  BY <1>10, Zenon DEF RequestsObey
<1>12. \A t : KindOf(t)' = KindOf(t)
  BY <1>1, Zenon DEF KindOf
<1>13. SessionsObey'
  BY <1>1, <1>12, Zenon DEF PolicyInv, SessionsObey
<1> QED
  BY <1>4, <1>6, <1>9, <1>11, <1>13, Zenon DEF PolicyInv

\* An attempt that ends decides nothing.
LEMMA EndKeeps ==
  ASSUME PolicyInv, NEW r \in Requests, NEW ok \in BOOLEAN, AttemptEnds(r, ok)
  PROVE  PolicyInv'
<1>1. /\ attempt[r] = "sent" /\ attempt' = [attempt EXCEPT ![r] = IF ok THEN "done" ELSE "failed"]
      /\ policy' = policy /\ objects' = objects /\ retried' = retried /\ log' = log
      /\ retrySession' = retrySession /\ handed' = handed
  BY Zenon DEF AttemptEnds
<1>2. attempt \in [Requests -> Stages]
  BY Zenon DEF PolicyInv, PolicyTypes
<1>3. /\ attempt'[r] \in {"done", "failed"} /\ attempt' \in [Requests -> Stages]
      /\ \A q \in Requests : q # r => attempt'[q] = attempt[q]
  BY <1>1, <1>2 DEF Stages
<1>4. \A q \in Requests : Started(q)' <=> Started(q)
  <2>1. "sent" # "new" /\ "new" \notin {"done", "failed"}
    OBVIOUS
  <2> QED
    BY <1>1, <1>3, <2>1, Zenon DEF Started
<1>5. PolicyTypes' /\ SessionsGiven'
  BY <1>1, <1>3, <1>4, Zenon DEF PolicyInv, PolicyTypes, SessionsGiven
<1>6. \A b, t : AsksSession(b, t) => AsksSession(b, t)'
  BY <1>1, <1>4, Zenon DEF AsksSession
<1>7. Callers'
  BY <1>1, <1>6, Zenon DEF PolicyInv, Callers
<1>8. ASSUME NEW q \in Requests, Started(q)'
      PROVE  RequestObeys(log[retrySession[q]], q, attempt[q])'
  <2>1. RequestObeys(log[retrySession[q]], q, attempt[q])
    BY <1>4, <1>8, Zenon DEF PolicyInv, RequestsObey
  <2>2. CASE q = r
    <3>1. "sent" \in {"sent", "failed"} /\ "sent" # "error" /\ "error" \notin {"done", "failed"}
      OBVIOUS
    <3>2. RequestObeys(log[retrySession[r]], r, attempt'[r])
      BY <1>1, <1>3, <2>1, <2>2, <3>1, Zenon DEF RequestObeys
    <3> QED
      BY <1>1, <2>2, <3>2, Zenon
  <2>3. CASE q # r
    BY <1>1, <1>3, <2>1, <2>3, Zenon
  <2> QED
    BY <2>2, <2>3, Zenon
<1>9. RequestsObey'
  BY <1>8, Zenon DEF RequestsObey
<1>10. \A t : KindOf(t)' = KindOf(t)
  BY <1>1, Zenon DEF KindOf
<1>11. SessionsObey'
  BY <1>1, <1>10, Zenon DEF PolicyInv, SessionsObey
<1> QED
  BY <1>5, <1>7, <1>9, <1>11, Zenon DEF PolicyInv

\* The driver's question to the session of a request decides on that request.
LEMMA DecideKeeps ==
  ASSUME PolicyInv, NEW r \in Requests, NEW answer, Decide(r, answer)
  PROVE  PolicyInv'
<1> DEFINE s == retrySession[r]
           d == Decision(s, answer)
           e == Event(r, answer, d)
           next == CASE d \in {"RetrySameTarget", "RetryNextTarget"} -> "sent"
                     [] d = "DontRetry" -> "error"
                     [] d = "IgnoreWriteError" -> "done"
<1>1. /\ attempt[r] = "failed" /\ Asked(r, s, answer)
      /\ attempt' = [attempt EXCEPT ![r] = next]
      /\ UNCHANGED <<policy, objects, retrySession, handed>>
  BY Zenon DEF Decide
<1>2. Started(r) /\ attempt \in [Requests -> Stages]
  <2>1. "failed" # "new"
    OBVIOUS
  <2> QED
    BY <1>1, <2>1, Zenon DEF Started, PolicyInv, PolicyTypes
<1>3. s \in Sessions
  BY <1>2, HasSession, Zenon DEF PolicyInv
<1>4. answer \in Answers(s) /\ log' = [log EXCEPT ![s] = Append(@, e)]
  BY <1>1, Zenon DEF Asked
<1>5. /\ d \in PyDecisions /\ (answer \in PyDecisions => d = answer)
      /\ answer \in {"other", "raises"} => d = "DontRetry"
  BY <1>3, <1>4, Decisions, Zenon DEF PolicyInv
<1>6. answer \in PyDecisions \cup {"builtin", "other", "raises"}
  BY <1>4 DEF Answers
<1> HIDE DEF s, d
<1>7. e \in Calls /\ e.by = r /\ e.answer = answer /\ e.did = d /\ e.did # "reset"
  BY <1>5, <1>6 DEF Calls, Event, PyDecisions
<1>8. /\ next \in {"sent", "error", "done"} /\ (next = "sent" => d \in Retry)
      /\ next = "error" <=> d = "DontRetry"
  BY <1>5 DEF PyDecisions, Retry
<1> HIDE DEF e, next
<1>9. /\ attempt'[r] = next /\ attempt' \in [Requests -> Stages]
      /\ \A q \in Requests : q # r => attempt'[q] = attempt[q]
  BY <1>1, <1>2, <1>8 DEF Stages
<1>10. \A q \in Requests : Started(q)' <=> Started(q)
  BY <1>2, <1>8, <1>9 DEF Started
<1>11. Called(s, e)
  BY <1>1, <1>2, <1>3, <1>4, <1>7, <1>9, <1>10, Zenon DEF Called, AsksSession, s
<1>12. PolicyTypes' /\ SessionsGiven' /\ Callers'
  BY <1>11, CalledByOne DEF PolicyInv
<1>13. SessionsObey'
  BY <1>1, <1>7, <1>11, AskedObeys, Zenon DEF d
<1>14. ASSUME NEW q \in Requests, Started(q)'
       PROVE  RequestObeys(log[retrySession[q]], q, attempt[q])'
  <2>1. CASE q = r
    <3>1. OneMore(log[s], log'[s], e)
      BY <1>11, CalledLast DEF PolicyInv
    <3>2. RequestObeys(log[s], r, "failed")
      BY <1>1, <1>2, Zenon DEF PolicyInv, RequestsObey, s
    <3>3. next \in {"sent", "failed"} => e.did \in Retry
      BY <1>7, <1>8
    <3>4. RequestObeys(log'[s], r, next)
      BY <1>5, <1>7, <1>8, <3>1, <3>2, <3>3, OwnCall
    <3>5. retrySession'[r] = s
      BY <1>1, Zenon DEF s
    <3> QED
      BY <1>9, <2>1, <3>4, <3>5, Zenon
  <2>2. CASE q # r
    BY <1>7, <1>9, <1>10, <1>11, <1>14, <2>2, OthersUndisturbed, Zenon
  <2> QED
    BY <2>1, <2>2, Zenon
<1>15. RequestsObey'
  BY <1>14, Zenon DEF RequestsObey
<1> QED
  BY <1>12, <1>13, <1>15, Zenon DEF PolicyInv

\* A reset, and a question of the application, decide on no request.
LEMMA CallKeeps ==
  ASSUME PolicyInv, NEW s, NEW e, Called(s, e), e.by = "application" \/ e.did = "reset",
         SessionsObey', attempt' = attempt
  PROVE  PolicyInv'
<1>1. PolicyTypes' /\ SessionsGiven' /\ Callers'
  BY CalledByOne DEF PolicyInv
<1>2. ASSUME NEW q \in Requests, Started(q)'
      PROVE  RequestObeys(log[retrySession[q]], q, attempt[q])'
  <2>1. Started(q) /\ attempt'[q] = attempt[q] /\ (e.by # q \/ e.did = "reset")
    BY <1>2, RequestsAssumption, Zenon DEF Called
  <2> QED
    BY <2>1, OthersUndisturbed, Zenon
<1>3. RequestsObey'
  BY <1>2, Zenon DEF RequestsObey
<1> QED
  BY <1>1, <1>3, Zenon DEF PolicyInv

LEMMA ResetKeeps ==
  ASSUME PolicyInv, NEW by, NEW s \in Sessions, AsksSession(by, s), Reset(by, s),
         UNCHANGED <<policy, objects, retrySession, attempt, handed>>
  PROVE  PolicyInv'
<1> DEFINE e == Event(by, "builtin", "reset")
<1>1. by \in Requests \cup {"application"} /\ log' = [log EXCEPT ![s] = Append(@, e)]
  BY Zenon DEF AsksSession, Reset
<1>2. e \in Calls /\ e.by = by /\ e.did = "reset"
  BY <1>1 DEF Event, Calls
<1> HIDE DEF e
<1>3. attempt' \in [Requests -> Stages] /\ \A q \in Requests : Started(q)' <=> Started(q)
  BY Zenon DEF PolicyInv, PolicyTypes, Started
<1>4. Called(s, e)
  BY <1>1, <1>2, <1>3, Zenon DEF Called
<1>5. SessionsObey'
  BY <1>2, <1>4, ResetObeys, Zenon
<1> QED
  BY <1>2, <1>4, <1>5, CallKeeps, Zenon

LEMMA AskObjectKeeps ==
  ASSUME PolicyInv, NEW o \in PyObjects, AskObject(o)
  PROVE  PolicyInv'
<1> DEFINE s == Shared(o)
           d == Decision(s, "builtin")
           e == Event("application", "builtin", d)
<1>1. /\ Asked("application", s, "builtin") /\ attempt' = attempt
      /\ UNCHANGED <<policy, objects, retrySession, handed>>
  BY Zenon DEF AskObject
<1>2. s \in Sessions /\ AsksSession("application", s)
  BY SessionsApart, Zenon DEF AsksSession
<1>3. "builtin" \in Answers(s) /\ log' = [log EXCEPT ![s] = Append(@, e)]
  BY <1>1, Zenon DEF Asked
<1>4. d \in PyDecisions
  BY <1>2, <1>3, Decisions, Zenon DEF PolicyInv
<1> HIDE DEF s, d
<1>5. e \in Calls /\ e.by = "application" /\ e.did = d
  BY <1>4 DEF Event, Calls
<1> HIDE DEF e
<1>6. attempt' \in [Requests -> Stages] /\ \A q \in Requests : Started(q)' <=> Started(q)
  BY <1>1, Zenon DEF PolicyInv, PolicyTypes, Started
<1>7. Called(s, e)
  BY <1>1, <1>2, <1>3, <1>5, <1>6, Zenon DEF Called
<1>8. SessionsObey'
  BY <1>1, <1>5, <1>7, AskedObeys, Zenon DEF d
<1> QED
  BY <1>1, <1>5, <1>7, <1>8, CallKeeps, Zenon

\* Every step keeps the invariant.
LEMMA PolicyStep == PolicyInv /\ [PolicyNext]_policyVars => PolicyInv'
<1> SUFFICES ASSUME PolicyInv, [PolicyNext]_policyVars PROVE PolicyInv'
  OBVIOUS
<1>1. ASSUME NEW r \in Requests, NEW o \in PyObjects \cup {"raises"}, StartRequest(r, o)
      PROVE  PolicyInv'
  BY <1>1, StartKeeps, Zenon
<1>2. ASSUME NEW r \in Requests, NEW ok \in BOOLEAN, AttemptEnds(r, ok) PROVE PolicyInv'
  BY <1>2, EndKeeps, Zenon
<1>3. ASSUME NEW r \in Requests, NEW answer, Decide(r, answer) PROVE PolicyInv'
  BY <1>3, DecideKeeps, Zenon
<1>4. ASSUME NEW r \in Requests, ResetSession(r) PROVE PolicyInv'
  <2>1. "sent" # "new"
    OBVIOUS
  <2>2. Started(r) /\ retrySession[r] \in Sessions
    BY <1>4, <2>1, HasSession, Zenon DEF ResetSession, Started, PolicyInv
  <2>3. AsksSession(r, retrySession[r])
    BY <2>2, Zenon DEF AsksSession
  <2> QED
    BY <1>4, <2>2, <2>3, ResetKeeps, Zenon DEF ResetSession
<1>5. ASSUME NEW o \in PyObjects, AskObject(o) PROVE PolicyInv'
  BY <1>5, AskObjectKeeps, Zenon
<1>6. ASSUME NEW o \in PyObjects, ResetObject(o) PROVE PolicyInv'
  <2>1. Shared(o) \in Sessions /\ AsksSession("application", Shared(o))
    BY SessionsApart, Zenon DEF AsksSession
  <2> QED
    BY <1>6, <2>1, ResetKeeps, Zenon DEF ResetObject
<1>7. CASE UNCHANGED policyVars
  <2>1. \A q, t : (Started(q)' <=> Started(q)) /\ (AsksSession(q, t)' <=> AsksSession(q, t))
    BY <1>7, Zenon DEF policyVars, AsksSession, Started
  <2>2. \A t : KindOf(t)' = KindOf(t)
    BY <1>7, Zenon DEF policyVars, KindOf
  <2>3. PolicyTypes' /\ SessionsGiven' /\ Callers' /\ RequestsObey'
    BY <1>7, <2>1, Zenon DEF policyVars, PolicyInv, PolicyTypes, SessionsGiven, Callers, RequestsObey
  <2>4. SessionsObey'
    BY <1>7, <2>2, Zenon DEF policyVars, PolicyInv, SessionsObey
  <2> QED
    BY <2>3, <2>4, Zenon DEF PolicyInv
<1> QED
  BY <1>1, <1>2, <1>3, <1>4, <1>5, <1>6, <1>7, Zenon DEF PolicyNext

\* The invariant says who asks a session, and what becomes of the request.
LEMMA InvGivesRequests ==
  ASSUME PolicyInv, NEW r \in Requests, attempt[r] # "new"
  PROVE  LET s == retrySession[r]
             event == log[s] IN
         /\ \A i \in DecidedFor(s, r) :
              /\ (\E j \in DecidedFor(s, r) : i < j) \/ attempt[r] \in {"sent", "failed"} =>
                   event[i].did \in Retry
              /\ event[i].answer \in PyDecisions => event[i].did = event[i].answer
              /\ event[i].answer \in {"other", "raises"} => attempt[r] = "error"
         /\ attempt[r] = "error" => \E i \in DecidedFor(s, r) : event[i].did = "DontRetry"
         /\ \A i \in DOMAIN event :
              \/ event[i].by = r
              \/ event[i].by = "application" /\ handed[r] \in PyObjects
              \/ Together(event[i].by, r)
<1> DEFINE s == retrySession[r]
           event == log[s]
<1>1. Started(r)
  BY Zenon DEF Started
<1>2. s \in Sessions /\ RequestObeys(event, r, attempt[r])
  BY <1>1, HasSession, Zenon DEF PolicyInv, RequestsObey
<1>3. ASSUME NEW i \in DOMAIN event
      PROVE  \/ event[i].by = r
             \/ event[i].by = "application" /\ handed[r] \in PyObjects
             \/ Together(event[i].by, r)
  <2>1. AsksSession(event[i].by, s)
    BY <1>2, <1>3, Zenon DEF PolicyInv, Callers
  <2>2. /\ handed[r] \notin PyObjects => s = Own(r)
        /\ handed[r] \in PyObjects /\ s # Own(r) => s = Shared(handed[r])
    BY <1>1, Zenon DEF PolicyInv, SessionsGiven
  <2>3. CASE event[i].by = "application" /\ \E o \in PyObjects : s = Shared(o)
    BY <2>2, <2>3, SessionsApart, Zenon
  <2>4. ASSUME NEW q \in Requests, event[i].by = q, Started(q), retrySession[q] = s
        PROVE  q = r \/ Together(q, r)
    <3>1. \/ handed[q] = "raises" /\ s = Own(q)
          \/ handed[q] \in PyObjects /\ s = Shared(handed[q])
      BY <2>4, Zenon DEF PolicyInv, SessionsGiven
    <3>2. \/ handed[r] = "raises" /\ s = Own(r)
          \/ handed[r] \in PyObjects /\ s = Shared(handed[r])
      BY <1>1, Zenon DEF PolicyInv, SessionsGiven
    <3> HIDE DEF s
    <3> QED
      BY <3>1, <3>2, SessionsApart, Zenon DEF Together
  <2> QED
    BY <2>1, <2>3, <2>4, Zenon DEF AsksSession
<1>4. \A i : i \in DecidedFor(s, r) <=> i \in DOMAIN event /\ Asks(event, r, i)
  BY Zenon DEF DecidedFor, Asks
<1> QED
  BY <1>2, <1>3, <1>4, Zenon DEF RequestObeys

\* A retry session is obeyed, whoever shares it: for any requests and session objects, and
\* any order in which the driver and the application ask and reset them
\* (policies/retry/policies.rs).
THEOREM PolicyDecisions == PolicySpec => []PoliciesObeyed
<1>1. PolicyInit => PolicyInv
  <2> SUFFICES ASSUME PolicyInit PROVE PolicyInv
    OBVIOUS
  <2>1. PolicyTypes
    <3>1. policy \in SessionKinds
      BY DEF PolicyInit, RetryPolicyOf, PolicyObjects, SessionKinds
    <3> QED
      BY <3>1 DEF PolicyInit, PolicyTypes, Stages
  <2>2. \A r \in Requests : ~Started(r)
    BY DEF PolicyInit, Started
  <2>3. \A s \in Sessions : DOMAIN log[s] = {} /\ s \notin retried
    BY DEF PolicyInit
  <2> QED
    BY <2>1, <2>2, <2>3, Zenon DEF PolicyInv, SessionsGiven, Callers, RequestsObey, SessionsObey, SessionObeys
<1>2. PolicyInv /\ [PolicyNext]_policyVars => PolicyInv'
  BY PolicyStep
<1>3. PolicyInv => PoliciesObeyed
  <2> SUFFICES ASSUME PolicyInv PROVE PoliciesObeyed
    OBVIOUS
  <2>1. ASSUME NEW s \in Sessions, KindOf(s) # "Python"
        PROVE  /\ KindOf(s) = "Fallthrough" => \A i \in DOMAIN log[s] : ~RetriedAt(s, i)
               /\ \A i, j \in DOMAIN log[s] :
                    i < j /\ RetriedAt(s, i) /\ RetriedAt(s, j) => ResetBetween(s, i, j)
               /\ \A j \in DOMAIN log[s] :
                    KindOf(s) # "Fallthrough" /\ log[s][j].did = "DontRetry" =>
                      \E i \in DOMAIN log[s] : i < j /\ RetriedAt(s, i) /\ ~ResetBetween(s, i, j)
    <3>1. SessionObeys(log[s], s, retried, KindOf(s))
      BY <2>1, Zenon DEF PolicyInv, SessionsObey
    <3> QED
      BY <3>1, Zenon DEF SessionObeys, ResetIn, ResetBetween, RetriedAt
  <2> QED
    BY <2>1, InvGivesRequests, Zenon DEF PoliciesObeyed
<1> QED
  BY <1>1, <1>2, <1>3, PTL DEF PolicySpec
=============================================================================
