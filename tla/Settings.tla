------------------------------ MODULE Settings ------------------------------
(***************************************************************************)
(* What a request runs with. A statement carries options of its own        *)
(* (src/src/statement.rs, batch.rs), an ExecutionProfile bundles some      *)
(* (execution_profile.rs), a LegacySession has defaults and a fetch size   *)
(* (legacy/session.rs), and SessionCore (core/session.rs) puts them        *)
(* together. One thread sends requests with a statement; another sets      *)
(* options, session defaults and the shutdown flag between its steps.      *)
(* "unset" is the absence of a setting, "none" the setting that there is   *)
(* none; "max" is Duration::MAX, which stands for no timeout in the driver.*)
(***************************************************************************)
EXTENDS Naturals

CONSTANTS Profiles,      \* execution profiles the application built
          ProfileArgs,   \* the arguments each was built with
          MaxSets        \* setter calls, over all objects

ASSUME ProfilesAssumption ==
  /\ "unset" \notin Profiles
  /\ ProfileArgs \in [Profiles -> [timeout : STRING \ {"max"}, consistency : STRING,
                                  serial : STRING, factory : STRING]]

VARIABLES
  kind,      \* the class of the query: a string, Statement, PreparedStatement, Batch
  options,   \* its StatementOptions
  wish,      \* history: what the application set on it
  settings,  \* SessionSettings: fetch_size and ConfigMode
  shutdown,  \* PyLegacySession.is_shutdown
  explicit,  \* the session was built with a profile, its default
  call,      \* the request being sent
  sets       \* setter calls made

settingsVars == <<kind, options, wish, settings, shutdown, explicit, call, sets>>

-----------------------------------------------------------------------------
(* Execution profiles *)

\* PyExecutionProfile::new: a timeout of None leaves the driver's default.
NewProfile(a) == [a EXCEPT !.timeout = IF a.timeout = "none" THEN "driver" ELSE a.timeout]

\* The driver's own profile, the default of a session built without one.
DriverProfile == [timeout |-> "driver", consistency |-> "driver", serial |-> "driver",
                  factory |-> "unset"]

Profile(p) == IF p = "unset" THEN DriverProfile ELSE NewProfile(ProfileArgs[p])

-----------------------------------------------------------------------------
(* StatementOptions *)

NewOptions == [timeout |-> "unset", consistency |-> "unset", serial |-> "unset",
               serialSet |-> FALSE, page |-> "driver", pageSet |-> FALSE,
               profile |-> "unset", policy |-> "unset", factory |-> "unset"]

NothingSet == [timeout |-> "unset", consistency |-> "unset", serial |-> "unset",
               page |-> "driver", profile |-> "unset", policy |-> "unset", factory |-> "unset"]

\* The values the setter of each option may be given; "bad" raises.
OptionValues ==
  [timeout |-> {"unset", "none", "statement", "bad"}, consistency |-> {"unset", "statement"},
   serial |-> {"unset", "none", "statement"}, page |-> {"statement", "bad"},
   profile |-> {"unset"} \cup Profiles, policy |-> {"unset", "statement"},
   factory |-> {"unset", "statement"}]

SetRequestTimeout(o, v) == [o EXCEPT !.timeout = IF v = "none" THEN "max" ELSE v]

SetSerialConsistency(o, v) == [o EXCEPT !.serial = v, !.serialSet = v # "unset"]

SetPageSize(o, v) == [o EXCEPT !.page = v, !.pageSet = TRUE]

\* The setters that only store what they are given.
SetPlain(o, f, v) == [o EXCEPT ![f] = v]

SetOption(o, f, v) ==
  CASE f = "timeout" -> SetRequestTimeout(o, v)
    [] f = "serial" -> SetSerialConsistency(o, v)
    [] f = "page" -> SetPageSize(o, v)
    [] OTHER -> SetPlain(o, f, v)

\* What the getters of the options return: the flag tells a serial consistency of
\* None from an unset one.
Reading(o) ==
  [timeout |-> IF o.timeout = "max" THEN "none" ELSE o.timeout,
   consistency |-> o.consistency,
   serial |-> IF o.serialSet THEN o.serial ELSE "unset",
   page |-> o.page, profile |-> o.profile, policy |-> o.policy, factory |-> o.factory]

\* PyStatementSettings::row_factory: its own, else its profile's.
StatementFactory(o) ==
  IF o.factory # "unset" THEN o.factory
  ELSE IF o.profile = "unset" THEN "unset" ELSE Profile(o.profile).factory

-----------------------------------------------------------------------------
(* SessionSettings *)

NoDefaults == [timeout |-> "unset", consistency |-> "unset", serial |-> "unset",
               factory |-> "unset"]

DefaultValues == [timeout |-> {"unset", "none", "session"},
                  consistency |-> {"unset", "session"},
                  serial |-> {"unset", "none", "session"},
                  factory |-> {"unset", "session"}]

\* apply_defaults, one setting: only if the query does not set it.
ApplyDefault(o, f, d) ==
  IF d = "unset" \/ Reading(o)[f] # "unset" THEN o
  ELSE SetOption(o, f, d)

ApplyDefaults(o, d) ==
  ApplyDefault(ApplyDefault(ApplyDefault(o, "timeout", d.timeout),
                            "consistency", d.consistency), "serial", d.serial)

\* apply_default_page_size
FetchSize(s, o, batch) ==
  IF s.fetch = "session" /\ ~batch /\ ~o.pageSet THEN [o EXCEPT !.page = "session"]
  ELSE o

\* Whether the request is paged.
Paged(s, o, batch) == s.fetch # "none" \/ (o.pageSet /\ ~batch)

\* configure_request: the query as it is sent, and the row factory it asks for.
Configured(s, o, profile, batch) ==
  FetchSize(s, IF s.mode = "Legacy" THEN ApplyDefaults(o, s.defaults)
               ELSE IF profile = "unset" THEN o ELSE [o EXCEPT !.profile = profile],
            batch)

FactoryAsked(s, profile) ==
  IF s.mode = "Legacy" THEN s.defaults.factory
  ELSE IF profile = "unset" THEN "unset" ELSE Profile(profile).factory

-----------------------------------------------------------------------------

NewSettings(mode) == [fetch |-> "driver", mode |-> mode, defaults |-> NoDefaults]

NoCall == [stage |-> "none", timeout |-> "unset", profile |-> "unset", kind |-> "str",
           wish |-> NothingSet, asked |-> "unset", sent |-> NewOptions, paged |-> FALSE,
           given |-> "unset", session |-> NewSettings("Session"), target |-> "unset",
           effective |-> "unset", factory |-> "unset"]

SettingsInit ==
  /\ kind \in {"str", "Statement", "Batch"}
  /\ options = NewOptions /\ wish = NothingSet
  /\ explicit \in {"unset"} \cup Profiles
  /\ \E mode \in IF explicit = "unset" THEN {"Uncommitted", "Profiles"} ELSE {"Profiles"} :
       settings = NewSettings(mode)
  /\ shutdown = FALSE /\ call = NoCall /\ sets = 0

\* A setter of the statement. A batch has no page size; a bad value changes nothing.
SetOnStatement(f, v) ==
  /\ sets < MaxSets /\ kind # "str" /\ v \in OptionValues[f] /\ (kind = "Batch" => f # "page")
  /\ sets' = sets + 1
  /\ IF v = "bad" THEN UNCHANGED <<options, wish>>
     ELSE options' = SetOption(options, f, v) /\ wish' = [wish EXCEPT ![f] = v]
  /\ UNCHANGED <<kind, settings, shutdown, explicit, call>>

\* prepare, of either session: the prepared statement has the options the statement
\* had when it was extracted; setting them on the statement later does not matter.
Prepare ==
  /\ kind \in {"str", "Statement"}
  /\ kind' = "PreparedStatement"
  /\ UNCHANGED <<options, wish, settings, shutdown, explicit, call, sets>>

\* A session default. The first one commits the session to legacy mode; a session
\* that uses profiles refuses it.
SetDefault(f, v) ==
  /\ sets < MaxSets /\ v \in DefaultValues[f]
  /\ sets' = sets + 1
  /\ IF settings.mode = "Profiles" THEN UNCHANGED settings
     ELSE settings' = [settings EXCEPT !.mode = "Legacy", !.defaults[f] = v]
  /\ UNCHANGED <<kind, options, wish, shutdown, explicit, call>>

\* default_fetch_size: None, a positive number, or an error.
SetFetchSize(v) ==
  /\ sets < MaxSets /\ v \in {"none", "session", "bad"}
  /\ sets' = sets + 1
  /\ settings' = IF v = "bad" THEN settings ELSE [settings EXCEPT !.fetch = v]
  /\ UNCHANGED <<kind, options, wish, shutdown, explicit, call>>

\* shutdown, and __exit__.
Shutdown ==
  /\ ~shutdown /\ shutdown' = TRUE
  /\ UNCHANGED <<kind, options, wish, settings, explicit, call, sets>>

\* The query is extracted, with its options.
Extracted(timeout, profile, o) ==
  [NoCall EXCEPT !.stage = "called", !.timeout = timeout, !.profile = profile, !.kind = kind,
                 !.wish = wish, !.asked = StatementFactory(options), !.sent = o]

\* effective_timeout: the request's own, else its profile's, else the default's.
EffectiveTimeout(o) ==
  LET t == IF o.timeout # "unset" THEN o.timeout
           ELSE Profile(IF o.profile # "unset" THEN o.profile ELSE explicit).timeout
  IN IF t = "max" THEN "none" ELSE t

\* choose_row_factory
ChooseRowFactory(given, statement) ==
  CASE given # "unset" -> given
    [] given = "unset" /\ statement # "unset" -> statement
    [] OTHER -> IF Profile(explicit).factory # "unset" THEN Profile(explicit).factory
                ELSE "namedtuple"

\* A target is put on the copy: StatementKind::set_target, BatchState::set_target.
SetTarget(o, target) == IF target = "unset" THEN o ELSE [o EXCEPT !.policy = target]

\* SessionCore::execute and batch, and the checks before them. A batch takes no paging
\* state, nor does an unpaged request, and a prepared statement's values may not bind.
Sent(c, target, paging, binds) ==
  IF \/ paging /\ (c.kind = "Batch" \/ ~c.paged)
     \/ c.kind = "PreparedStatement" /\ ~binds
    THEN NoCall
    ELSE [c EXCEPT !.stage = "sent", !.sent = SetTarget(c.sent, target), !.target = target,
                   !.effective = EffectiveTimeout(c.sent),
                   !.factory = ChooseRowFactory(c.given, c.asked)]

\* Mutant: the timeout argument does not reach the request before the defaults do.
CallLegacyLateTimeout(timeout, profile) ==
  /\ call.stage = "none" /\ ~shutdown
  /\ call' = Extracted(timeout, profile, options)
  /\ UNCHANGED <<kind, options, wish, settings, shutdown, explicit, sets>>

\* LegacySession.execute_async: the session is checked, the query extracted, and the
\* timeout argument put on the copy.
CallLegacy(timeout, profile) ==
  /\ call.stage = "none" /\ ~shutdown
  /\ call' = Extracted(timeout, profile, IF timeout = "unset" THEN options
                                         ELSE SetRequestTimeout(options, timeout))
  /\ UNCHANGED <<kind, options, wish, settings, shutdown, explicit, sets>>

\* The settings are read under their lock; a profile is refused in legacy mode.
Configure ==
  /\ call.stage = "called"
  /\ IF settings.mode = "Legacy" /\ call.profile # "unset"
       THEN call' = NoCall
       ELSE LET batch == call.kind = "Batch" IN
            call' = [call EXCEPT !.stage = "configured", !.session = settings,
                                 !.sent = Configured(settings, call.sent, call.profile, batch),
                                 !.paged = Paged(settings, call.sent, batch),
                                 !.given = FactoryAsked(settings, call.profile)]
  /\ UNCHANGED <<kind, options, wish, settings, shutdown, explicit, sets>>

\* The rest of execute_async; nothing it reads is shared.
Send(target, paging, binds) ==
  /\ call.stage = "configured"
  /\ call' = Sent(call, target, paging, binds)
  /\ UNCHANGED <<kind, options, wish, settings, shutdown, explicit, sets>>

\* Session.execute and Session.batch: no session settings, no timeout or profile, but a
\* row factory and whether to page.
CallSession(factory, paged, target, paging, binds) ==
  /\ call.stage = "none"
  /\ LET c == [Extracted("unset", "unset", options) EXCEPT !.paged = paged, !.given = factory]
     IN call' = Sent(c, target, paging, binds)
  /\ UNCHANGED <<kind, options, wish, settings, shutdown, explicit, sets>>

\* The request completes.
Done ==
  /\ call.stage = "sent" /\ call' = NoCall
  /\ UNCHANGED <<kind, options, wish, settings, shutdown, explicit, sets>>

SettingsNext ==
  \/ \E f \in DOMAIN OptionValues : \E v \in OptionValues[f] : SetOnStatement(f, v)
  \/ \E f \in DOMAIN DefaultValues : \E v \in DefaultValues[f] : SetDefault(f, v)
  \/ \E v \in {"none", "session", "bad"} : SetFetchSize(v)
  \/ Prepare \/ Shutdown \/ Configure \/ Done
  \/ \E timeout \in {"unset", "none", "argument"}, profile \in {"unset"} \cup Profiles :
       CallLegacy(timeout, profile)
  \/ \E target \in {"unset", "argument"}, paging, binds \in BOOLEAN :
       \/ Send(target, paging, binds)
       \/ \E factory \in {"unset", "argument"}, paged \in BOOLEAN :
            CallSession(factory, paged, target, paging, binds)

SettingsSpec == SettingsInit /\ [][SettingsNext]_settingsVars

-----------------------------------------------------------------------------

\* A setting, or what stands in for one that is not set.
Or(a, b) == IF a # "unset" THEN a ELSE b

\* What the getters of the session defaults return: the default, else the default
\* profile's setting.
DefaultReading(s, f) == Or(s.defaults[f], Profile(explicit)[f])

\* What the driver sends for a setting: the request's own, else its profile's, else
\* that of the session's default profile.
SentAs(o, f) == Or(o[f], Profile(Or(o.profile, explicit))[f])

\* A request on a LegacySession that sets nothing of its own.
LeavesToSession(r) ==
  /\ r.session.mode # "Session" /\ r.timeout = "unset" /\ r.profile = "unset"
  /\ \A f \in {"timeout", "consistency", "serial", "profile"} : r.wish[f] = "unset"

\* In legacy mode, both the session and the statement, or its profile, have a row factory.
ContestedFactory(r) ==
  /\ r.session.mode = "Legacy" /\ r.session.defaults.factory # "unset"
  /\ Or(r.wish.factory, Profile(r.wish.profile).factory) # "unset"

\* Every request runs with the first setting given for it, in the order: the argument
\* of the call, what the application set on the statement before the call, the session
\* default (in legacy mode only), the execution profile of the call, of the statement,
\* of the session. None is a setting; the page size and the paging follow the
\* statement's own before the session's; the row factory follows the call's before the
\* statement's, and in legacy mode the session's when the statement has none (see
\* StatementFactoryFirst). A request that names a profile never runs with
\* session defaults, and one that leaves all to the session runs with what the getters
\* of the session's defaults say. It holds whatever another thread sets meanwhile; and
\* the getters of a statement return what was set on it, None and UNSET told apart.
RequestSettings ==
  /\ Reading(options) = wish
  /\ call.stage = "sent" =>
    LET w == call.wish
        s == call.session
        profile == Profile(Or(call.profile, Or(w.profile, explicit)))
        own(f) == Or(w[f], Or(s.defaults[f], profile[f]))
    IN /\ call.effective = Or(call.timeout, own("timeout"))
       /\ \A f \in {"consistency", "serial"} : SentAs(call.sent, f) = own(f)
       /\ call.sent.policy = Or(call.target, w.policy)
       /\ ContestedFactory(call) \/
            call.factory = Or(IF s.mode = "Legacy" THEN s.defaults.factory
                              ELSE IF s.mode = "Session" THEN call.given
                              ELSE Profile(call.profile).factory,
                              Or(w.factory, Or(Profile(w.profile).factory,
                                               Or(Profile(explicit).factory, "namedtuple"))))
       /\ s.mode # "Session" /\ call.kind # "Batch" =>
            /\ call.paged <=> w.page # "driver" \/ s.fetch # "none"
            /\ call.sent.page = IF w.page = "driver" /\ s.fetch = "session" THEN "session"
                                ELSE w.page
       /\ ~(s.mode = "Legacy" /\ call.profile # "unset")
       /\ LeavesToSession(call) =>
            /\ call.effective = DefaultReading(s, "timeout")
            /\ \A f \in {"consistency", "serial"} : SentAs(call.sent, f) = DefaultReading(s, f)

\* legacy.pyi:111 and legacy/session.rs:384 call the row_factory of a LegacySession the
\* "Row factory of requests that do not set one": a statement's own comes first.
StatementFactoryFirst ==
  call.stage = "sent" /\ call.session.mode = "Legacy" /\ call.wish.factory # "unset" =>
    call.factory = call.wish.factory
=============================================================================
