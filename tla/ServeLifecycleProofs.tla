------------------------ MODULE ServeLifecycleProofs ------------------------
(***************************************************************************)
(* Proofs about ServeLifecycle: the configuration keeps its precedence and *)
(* its types from the sources to the server, whatever they set, and an     *)
(* exit code 0 is honest for any number of requests.                       *)
(***************************************************************************)
EXTENDS ServeLifecycle, TLAPS

----------------------------------------------------------------------------
\* The defaults are of their classes.
LEMMA DefaultsTyped == \A f \in Field : Defaults[f] \in Class[f]
<1> TAKE f \in Field
<1>1. CASE f \in Numbers
  BY <1>1 DEF Defaults, Class, Field, Numbers, Durations, Counts, Required, Optional, Checked
<1>2. CASE f \in Required
  BY <1>2 DEF Defaults, Class, Field, Numbers, Durations, Counts, Required, Optional, Checked
<1>3. CASE f \in Optional
  BY <1>3 DEF Defaults, Class, Field, Numbers, Durations, Counts, Required, Optional, Checked
<1>4. CASE f \in Checked
  BY <1>4 DEF Defaults, Class, Field, Numbers, Durations, Counts, Required, Optional, Checked
<1>5. CASE f = "probes.imds_base_url"
  BY <1>5 DEF Defaults, Class, Field, Numbers, Durations, Counts, Required, Optional, Checked
<1>6. CASE f = "auth.enabled"
  BY <1>6 DEF Defaults, Class, Field, Numbers, Durations, Counts, Required, Optional, Checked
<1> QED
  BY <1>1, <1>2, <1>3, <1>4, <1>5, <1>6 DEF Field

\* No class has a malformed value.
LEMMA NoClassMalformed == \A f \in Field : "malformed" \notin Class[f]
<1> TAKE f \in Field
<1>1. CASE f \in Numbers
  BY <1>1 DEF Class, Field, Numbers, Durations, Counts, Required, Optional, Checked
<1>2. CASE f \in Required \cup Optional \cup Checked
  BY <1>2 DEF Class, Field, Numbers, Durations, Counts, Required, Optional, Checked
<1>3. CASE f \in {"probes.imds_base_url", "auth.enabled"}
  BY <1>3 DEF Class, Field, Numbers, Durations, Counts, Required, Optional, Checked
<1> QED
  BY <1>1, <1>2, <1>3 DEF Field

\* Overlaying a source keeps the fields, and their classes if it has them.
LEMMA OverlayTyped ==
    ASSUME NEW c, NEW s, DOMAIN c = Field, \A f \in Field : c[f] \in Class[f],
           \A f \in DOMAIN s : s[f] \in Class[f]
    PROVE  /\ DOMAIN Overlay(c, s) = Field
           /\ \A f \in Field : Overlay(c, s)[f] \in Class[f]
BY DEF Overlay

\* What Load returns of sources it can read is a typed configuration.
LEMMA LoadedTyped ==
    ASSUME NEW file \in Files, NEW env \in Environments, NEW flags \in Flags,
           Parses(file), Parses(env)
    PROVE  /\ DOMAIN Loaded(file, env, flags) = Field
           /\ \A f \in Field : Loaded(file, env, flags)[f] \in Class[f]
<1> DEFINE c1 == Overlay(Defaults, file)
           c2 == Overlay(c1, env)
           c3 == Overlay(c2, flags)
<1>1. /\ \A f \in DOMAIN file : file[f] \in Class[f]
      /\ \A f \in DOMAIN env : env[f] \in Class[f]
      /\ \A f \in DOMAIN flags : flags[f] \in Class[f]
  BY SourcesAssumption DEF Parses
<1>2. DOMAIN Defaults = Field
  BY DEF Defaults
<1>3. DOMAIN c1 = Field /\ \A f \in Field : c1[f] \in Class[f]
  <2> HIDE DEF c1
  <2> QED BY <1>1, <1>2, DefaultsTyped, OverlayTyped DEF c1
<1>4. DOMAIN c2 = Field /\ \A f \in Field : c2[f] \in Class[f]
  <2> HIDE DEF c1, c2
  <2> QED BY <1>1, <1>3, OverlayTyped DEF c2
<1>5. DOMAIN c3 = Field /\ \A f \in Field : c3[f] \in Class[f]
  <2> HIDE DEF c1, c2, c3
  <2> QED BY <1>1, <1>4, OverlayTyped DEF c3
<1> QED
  BY <1>5 DEF Loaded

----------------------------------------------------------------------------
\* What overlaying does to a field.
LEMMA OverlayAt ==
    ASSUME NEW c, NEW s, DOMAIN c = Field
    PROVE  /\ DOMAIN Overlay(c, s) = Field
           /\ Overlay(c, s) = [f \in Field |-> Overlay(c, s)[f]]
           /\ \A f \in DOMAIN s \cap Field : Overlay(c, s)[f] = s[f]
           /\ \A f \in Field \ DOMAIN s : Overlay(c, s)[f] = c[f]
BY DEF Overlay

\* Of several sources that set a field the last counts: one more source is
\* an overlay over what the others amount to.
LEMMA OneMoreSource ==
    ASSUME NEW ss, NEW tt, NEW n \in 0..3, DOMAIN ss = 1..n, DOMAIN tt = 1..(n + 1),
           \A i \in 1..n : tt[i] = ss[i]
    PROVE  ByPrecedence(tt) = Overlay(ByPrecedence(ss), tt[n + 1])
<1> DEFINE set(q, f) == {i \in DOMAIN q : f \in DOMAIN q[i]}
           last(q, f) == CHOOSE i \in set(q, f) : \A j \in set(q, f) : j <= i
           value(q, f) == IF set(q, f) = {} THEN Defaults[f] ELSE q[last(q, f)][f]
<1>1. \A q : ByPrecedence(q) = [f \in Field |-> value(q, f)]
  BY DEF ByPrecedence
<1>2. ASSUME NEW f \in Field, f \in DOMAIN tt[n + 1]
      PROVE  value(tt, f) = tt[n + 1][f]
  <2>1. n + 1 \in set(tt, f) /\ \A j \in set(tt, f) : j <= n + 1 /\ j \in Nat
    BY <1>2
  <2>2. last(tt, f) = n + 1
    <3>1. \A i \in set(tt, f) : (\A j \in set(tt, f) : j <= i) => i = n + 1
      BY <2>1
    <3> HIDE DEF set
    <3> QED BY <2>1, <3>1
  <2> HIDE DEF set, last
  <2> QED BY <2>1, <2>2
<1>3. ASSUME NEW f \in Field, f \notin DOMAIN tt[n + 1]
      PROVE  value(tt, f) = value(ss, f)
  <2>1. \A i \in 1..(n + 1) : i \in 1..n \/ i = n + 1
    OBVIOUS
  <2>2. \A i \in 1..n : i \in 1..(n + 1)
    OBVIOUS
  <2>3. set(tt, f) = set(ss, f)
    BY <1>3, <2>1, <2>2
  <2>4. last(tt, f) = last(ss, f)
    <3> HIDE DEF set
    <3> QED BY <2>3
  <2>5. CASE set(ss, f) = {}
    <3> HIDE DEF set, last
    <3> QED BY <2>3, <2>5
  <2>6. CASE set(ss, f) # {}
    <3>1. \A i \in set(ss, f) : i \in 1..n
      OBVIOUS
    <3>2. \E i \in set(ss, f) : \A j \in set(ss, f) : j <= i
      <4>1. \A i \in set(ss, f) : i = 1 \/ i = 2 \/ i = 3
        BY <3>1
      <4> HIDE DEF set
      <4>2. CASE 3 \in set(ss, f)
        BY <4>1, <4>2
      <4>3. CASE 3 \notin set(ss, f) /\ 2 \in set(ss, f)
        BY <4>1, <4>3
      <4>4. CASE 3 \notin set(ss, f) /\ 2 \notin set(ss, f)
        BY <2>6, <4>1, <4>4
      <4> QED BY <4>2, <4>3, <4>4
    <3>3. last(ss, f) \in 1..n
      <4> HIDE DEF set
      <4> QED BY <3>1, <3>2
    <3> HIDE DEF set, last
    <3> QED BY <2>3, <2>4, <2>6, <3>3
  <2> QED
    BY <2>5, <2>6
<1>4. DOMAIN ByPrecedence(ss) = Field
  BY DEF ByPrecedence
<1> HIDE DEF value
<1>5. \A f \in Field : value(tt, f) = Overlay(ByPrecedence(ss), tt[n + 1])[f]
  <2> TAKE f \in Field
  <2>1. ByPrecedence(ss)[f] = value(ss, f)
    BY <1>1
  <2> QED
    BY <1>2, <1>3, <1>4, <2>1, OverlayAt
<1> QED
  BY <1>1, <1>4, <1>5, OverlayAt

\* With no source at all, the defaults are left.
LEMMA NoMoreSources == ByPrecedence(<< >>) = Defaults
<1>1. DOMAIN << >> = {}
  OBVIOUS
<1> QED
  BY <1>1 DEF ByPrecedence, Defaults

\* Applying the sources one after the other keeps the documented precedence,
\* and what serve's own flags set counts more than everything before.
LEMMA SourcesInOrder ==
    ASSUME NEW a, NEW b, NEW c, NEW d
    PROVE  /\ Loaded(a, b, c) = ByPrecedence(<<a, b, c>>)
           /\ Overlay(Loaded(a, b, c), d) = ByPrecedence(<<a, b, c, d>>)
<1>1. ByPrecedence(<<a>>) = Overlay(Defaults, a)
  BY NoMoreSources, OneMoreSource
<1>2. ByPrecedence(<<a, b>>) = Overlay(Overlay(Defaults, a), b)
  BY <1>1, OneMoreSource
<1>3. ByPrecedence(<<a, b, c>>) = Loaded(a, b, c)
  BY <1>2, OneMoreSource DEF Loaded
<1>4. ByPrecedence(<<a, b, c, d>>) = Overlay(Loaded(a, b, c), d)
  BY <1>3, OneMoreSource
<1> QED
  BY <1>3, <1>4

----------------------------------------------------------------------------
\* Flags that set nothing but the address can make nothing but the address
\* invalid.
LEMMA FlagsAreLocal ==
    ASSUME NEW c, NEW s \in ServeFlags, DOMAIN c = Field, InvalidFields(c) = {}
    PROVE  InvalidFields(Overlay(c, s)) \subseteq DOMAIN s
<1> DEFINE o == Overlay(c, s)
<1>1. \A f \in Field \ DOMAIN s : o[f] = c[f]
  BY OverlayAt
<1>2. {f \in Field : Rejected(f, c[f])} = {} /\ Incomplete(c) = {}
  BY DEF InvalidFields
<1>3. o["server.tls_cert_file"] = c["server.tls_cert_file"]
      /\ o["server.tls_key_file"] = c["server.tls_key_file"]
      /\ o["auth.enabled"] = c["auth.enabled"] /\ o["auth.token"] = c["auth.token"]
  <2>1. DOMAIN s \subseteq {"server.addr", "server.port"}
    BY SourcesAssumption
  <2>2. {"server.tls_cert_file", "server.tls_key_file", "auth.enabled", "auth.token"}
          \subseteq Field \ {"server.addr", "server.port"}
    BY DEF Field, Numbers, Durations, Counts, Required, Optional, Checked
  <2> HIDE DEF o
  <2> QED BY <1>1, <2>1, <2>2
<1> HIDE DEF o
<1>4. Incomplete(o) = {}
  BY <1>2, <1>3 DEF Incomplete
<1>5. \A f \in Field \ DOMAIN s : ~ Rejected(f, o[f])
  BY <1>1, <1>2
<1> QED
  BY <1>4, <1>5 DEF InvalidFields, o

\* The parts of the sources that were given.
LEMMA FourParts ==
    ASSUME sources \in Files \X Environments \X Flags \X ServeFlags
    PROVE  /\ sources[1] \in Files /\ sources[2] \in Environments
           /\ sources[3] \in Flags /\ sources[4] \in ServeFlags
           /\ sources = <<sources[1], sources[2], sources[3], sources[4]>>
OBVIOUS

----------------------------------------------------------------------------
\* The configuration.  A step that leaves it alone need only not go back to
\* preparing it.
LEMMA ConfigFrame ==
    ASSUME ConfigInv, UNCHANGED <<sources, config>>,
           main' = main \/ main' \notin {"load", "validate", "flags", "start"}
    PROVE  ConfigInv'
<1>1. CASE main' = main
  BY <1>1 DEF ConfigInv, ConfigTypeOK, Preparing, PrecedenceKept, OnlyServeFlagsEscape
<1>2. CASE main' \notin {"load", "validate", "flags", "start"}
  BY <1>2 DEF ConfigInv, ConfigTypeOK, Preparing, PrecedenceKept, OnlyServeFlagsEscape
<1> QED
  BY <1>1, <1>2

\* Loading: what the sources' texts mean becomes a typed configuration of the
\* documented precedence.
LEMMA LoadConfig == ConfigInv /\ LoadConfiguration => ConfigInv'
<1> SUFFICES ASSUME ConfigInv, LoadConfiguration PROVE ConfigInv'
  OBVIOUS
<1>1. main = "load" /\ sources \in Files \X Environments \X Flags \X ServeFlags
      /\ sources' = sources
  BY DEF LoadConfiguration, ConfigInv, Preparing
<1>2. CASE Parses(sources[1]) /\ Parses(sources[2])
  <2>1. config' = Loaded(sources[1], sources[2], sources[3]) /\ main' = "validate"
    BY <1>2 DEF LoadConfiguration
  <2>2. DOMAIN config' = Field /\ \A f \in Field : config'[f] \in Class[f]
    BY <1>1, <1>2, <2>1, LoadedTyped, FourParts
  <2>3. config' = ByPrecedence(<<sources'[1], sources'[2], sources'[3]>>)
    BY <1>1, <2>1, SourcesInOrder
  <2> QED
    BY <1>1, <2>1, <2>2, <2>3
       DEF ConfigInv, ConfigTypeOK, Preparing, PrecedenceKept, OnlyServeFlagsEscape
<1>3. CASE ~ (Parses(sources[1]) /\ Parses(sources[2]))
  BY <1>1, <1>3, ConfigFrame DEF LoadConfiguration, Return
<1> QED
  BY <1>2, <1>3

\* Validation lets only a valid configuration through.
LEMMA ValidateConfig == ConfigInv /\ ValidateConfiguration => ConfigInv'
<1> SUFFICES ASSUME ConfigInv, ValidateConfiguration PROVE ConfigInv'
  OBVIOUS
<1>1. main = "validate" /\ UNCHANGED <<sources, config>>
  BY DEF ValidateConfiguration, configVars
<1>2. CASE Acceptable
  <2>1. main' = "flags" /\ InvalidFields(config) = {}
    BY <1>2 DEF ValidateConfiguration, Acceptable
  <2> QED
    BY <1>1, <2>1 DEF ConfigInv, ConfigTypeOK, Preparing, PrecedenceKept, OnlyServeFlagsEscape
<1>3. CASE ~ Acceptable
  BY <1>1, <1>3, ConfigFrame DEF ValidateConfiguration, Return
<1> QED
  BY <1>2, <1>3

\* serve's own flags count most, and can spoil the address alone.
LEMMA ServeFlagsConfig == ConfigInv /\ ApplyServeFlags => ConfigInv'
<1> SUFFICES ASSUME ConfigInv, ApplyServeFlags PROVE ConfigInv'
  OBVIOUS
<1>1. /\ main = "flags" /\ main' = "start" /\ sources' = sources
      /\ config' = Overlay(config, sources[4])
      /\ DOMAIN config = Field
      /\ sources \in Files \X Environments \X Flags \X ServeFlags
      /\ InvalidFields(config) = {}
      /\ config = ByPrecedence(<<sources[1], sources[2], sources[3]>>)
      /\ \A f \in Field : config[f] \in Class[f]
  BY DEF ApplyServeFlags, ConfigInv, ConfigTypeOK, Preparing, PrecedenceKept
<1>2. sources[4] \in ServeFlags
  BY <1>1, FourParts
<1>3. DOMAIN config' = Field /\ \A f \in Field : config'[f] \in Class[f]
  <2>1. \A f \in DOMAIN sources[4] : sources[4][f] \in Class[f]
    BY <1>2, SourcesAssumption
  <2> QED
    BY <1>1, <2>1, OverlayTyped
<1>4. config' = ByPrecedence(sources')
  BY <1>1, FourParts, SourcesInOrder
<1>5. InvalidFields(config') \subseteq DOMAIN sources'[4]
  BY <1>1, <1>2, FlagsAreLocal
<1> QED
  BY <1>1, <1>3, <1>4, <1>5
     DEF ConfigInv, ConfigTypeOK, Preparing, PrecedenceKept, OnlyServeFlagsEscape

\* Once a server or a watch starts, little of the configuration is read.
LEMMA StartConfig == ConfigInv /\ (StartHistory \/ StartWatch) => ConfigInv'
<1> SUFFICES ASSUME ConfigInv, StartHistory \/ StartWatch PROVE ConfigInv'
  OBVIOUS
<1>1. /\ DOMAIN config = Field /\ \A f \in Field : config[f] \in Class[f]
      /\ config' = [f \in ServedFields |-> config[f]]
      /\ sources' = NoSources
      /\ main' \in {"history", "spawn", "probing"}
  BY DEF ConfigInv, ConfigTypeOK, Preparing, StartHistory, StartWatch
<1>2. DOMAIN config' = ServedFields /\ \A f \in ServedFields : config'[f] \in Class[f]
  BY <1>1 DEF ServedFields, Field, Numbers, Optional
<1> QED
  BY <1>1, <1>2 DEF ConfigInv, ConfigTypeOK, Preparing, PrecedenceKept, OnlyServeFlagsEscape

LEMMA NextConfig == ConfigInv /\ [Next]_vars => ConfigInv'
<1> SUFFICES ASSUME ConfigInv, [Next]_vars PROVE ConfigInv'
  OBVIOUS
<1> USE DEF configVars, Return
<1>1. CASE LoadConfiguration \/ ValidateConfiguration \/ ApplyServeFlags
  BY <1>1, LoadConfig, ValidateConfig, ServeFlagsConfig
<1>2. CASE StartHistory \/ StartWatch
  BY <1>2, StartConfig
<1>3. CASE HistoryReturns \/ SpawnListener \/ ListenerErrorReceived \/ BeginShutdown
           \/ ShutdownCompletes \/ ShutdownTimesOut
  BY <1>3, ConfigFrame DEF HistoryReturns, SpawnListener, ListenerErrorReceived,
     BeginShutdown, ShutdownCompletes, ShutdownTimesOut, ExitAfterTimeout
<1>4. CASE WatchRunEnds \/ WatchRunsAgain \/ WatchStops \/ WatchTicks
  BY <1>4, ConfigFrame DEF WatchRunEnds, WatchRunsAgain, WatchStops, WatchTicks
<1>5. CASE Bind \/ ListenerFails \/ Signal \/ \E c \in Client : Accept(c) \/ Answer(c)
  BY <1>5, ConfigFrame DEF Bind, ListenerFails, Signal, Accept, Answer
<1>6. CASE UNCHANGED vars
  BY <1>6, ConfigFrame DEF vars
<1> QED
  BY <1>1, <1>2, <1>3, <1>4, <1>5, <1>6 DEF Next, MainStep

----------------------------------------------------------------------------
\* The process.  It may end where no request is in flight, or with an exit
\* code that says so.
LEMMA ReturnProcess ==
    ASSUME ProcessInv, NEW code \in {0, 1, Killed}, Return(code),
           UNCHANGED <<command, listener, errCh>>,
           signalled' \in BOOLEAN, ticker' \in {"armed", "fired", "stopped"},
           main # "returned", code = 0 => Active = {}
    PROVE  ProcessInv'
<1>1. main' = "returned" /\ exit' = code
  BY DEF Return
<1>2. code # NoExit
  BY DEF NoExit, Killed
<1>3. conn' \in [Client -> {"away", "active", "answered", "cut"}]
  BY DEF Return, ProcessInv, ProcessTypeOK
<1>4. listener' = "none" => \A c \in Client : conn'[c] = "away"
  BY DEF Return, ProcessInv
<1>5. exit' = 0 => \A c \in Client : conn'[c] # "cut"
  BY <1>1 DEF Return, ProcessInv, Active
<1> QED
  BY <1>1, <1>2, <1>3, <1>4, <1>5
     DEF ProcessInv, ProcessTypeOK, GracefulLosesNothing, Preparing

\* A signal before NotifyContext kills the process, later it is a flag.
LEMMA SignalProcess == ProcessInv /\ Signal => ProcessInv'
<1> SUFFICES ASSUME ProcessInv, Signal PROVE ProcessInv'
  OBVIOUS
<1>1. CASE main \in {"load", "validate", "flags"}
  <2>1. Return(Killed) /\ UNCHANGED <<command, listener, errCh, ticker>> /\ signalled' = TRUE
        /\ main # "returned"
    BY <1>1 DEF Signal, configVars
  <2>2. Killed # 0
    BY DEF Killed
  <2> QED
    BY <2>1, <2>2, ReturnProcess DEF ProcessInv, ProcessTypeOK
<1>2. CASE main \notin {"load", "validate", "flags"}
  BY <1>2 DEF Signal, configVars, ProcessInv, ProcessTypeOK, GracefulLosesNothing, Preparing
<1> QED
  BY <1>1, <1>2

LEMMA NextProcess == ProcessInv /\ [Next]_vars => ProcessInv'
<1> SUFFICES ASSUME ProcessInv, [Next]_vars PROVE ProcessInv'
  OBVIOUS
<1> USE DEF configVars
<1>1. CASE \/ LoadConfiguration /\ ~ (Parses(sources[1]) /\ Parses(sources[2]))
           \/ ValidateConfiguration /\ ~ Acceptable
           \/ ListenerErrorReceived \/ ShutdownTimesOut
  <2>1. Return(1) /\ UNCHANGED <<command, listener, errCh, signalled, ticker>>
        /\ main # "returned"
    BY <1>1 DEF LoadConfiguration, ValidateConfiguration, ListenerErrorReceived, ShutdownTimesOut, ExitAfterTimeout
  <2>2. signalled' \in BOOLEAN /\ ticker' \in {"armed", "fired", "stopped"}
    BY <2>1 DEF ProcessInv, ProcessTypeOK
  <2> QED
    BY <2>1, <2>2, ReturnProcess
<1>2. CASE ShutdownCompletes \/ WatchStops
  <2>1. Return(0) /\ UNCHANGED <<command, listener, errCh, signalled>>
        /\ ticker' \in {"armed", "fired", "stopped"} /\ main # "returned"
    BY <1>2 DEF ShutdownCompletes, WatchStops, ProcessInv, ProcessTypeOK
  <2>2. Active = {}
    BY <1>2 DEF ShutdownCompletes, WatchStops, Quiescent, Active, ProcessInv
  <2> QED
    BY <2>1, <2>2, ReturnProcess DEF ProcessInv, ProcessTypeOK
<1>3. CASE \/ LoadConfiguration /\ Parses(sources[1]) /\ Parses(sources[2])
           \/ ValidateConfiguration /\ Acceptable
           \/ ApplyServeFlags \/ StartHistory \/ StartWatch
  BY <1>3 DEF LoadConfiguration, ValidateConfiguration, ApplyServeFlags, StartHistory,
     StartWatch, ProcessInv, ProcessTypeOK, GracefulLosesNothing, Preparing
<1>4. CASE HistoryReturns \/ SpawnListener \/ BeginShutdown
  BY <1>4 DEF HistoryReturns, SpawnListener, BeginShutdown, ProcessInv, ProcessTypeOK,
     GracefulLosesNothing, Preparing
<1>5. CASE WatchRunEnds \/ WatchRunsAgain \/ WatchTicks
  BY <1>5 DEF WatchRunEnds, WatchRunsAgain, WatchTicks, TickerAfterTick, ProcessInv,
     ProcessTypeOK, GracefulLosesNothing, Preparing
<1>6. CASE Bind \/ ListenerFails
  BY <1>6 DEF Bind, ListenerFails, ProcessInv, ProcessTypeOK, GracefulLosesNothing, Preparing
<1>7. CASE \E c \in Client : Accept(c) \/ Answer(c)
  BY <1>7 DEF Accept, Answer, ProcessInv, ProcessTypeOK, GracefulLosesNothing, Preparing
<1>8. CASE UNCHANGED vars
  <2>1. /\ command' = command /\ main' = main /\ ticker' = ticker /\ listener' = listener
        /\ errCh' = errCh /\ signalled' = signalled /\ conn' = conn /\ exit' = exit
    BY <1>8 DEF vars
  <2>2. ProcessTypeOK'
    BY <2>1 DEF ProcessInv, ProcessTypeOK
  <2> QED
    BY <2>1, <2>2 DEF ProcessInv, GracefulLosesNothing, Preparing
<1> QED
  <2>1. ASSUME LoadConfiguration \/ ValidateConfiguration PROVE ProcessInv'
    BY <1>1, <1>3, <2>1
  <2> QED
    BY <1>1, <1>2, <1>3, <1>4, <1>5, <1>6, <1>7, <1>8, <2>1, SignalProcess DEF Next, MainStep

----------------------------------------------------------------------------
LEMMA InitInv == Init => IInv
<1> SUFFICES ASSUME Init PROVE IInv
  OBVIOUS
<1>1. sources \in Files \X Environments \X Flags \X ServeFlags
  BY SourcesAssumption DEF Init
<1>2. DOMAIN config = Field /\ \A f \in Field : config[f] \in Class[f]
  BY DefaultsTyped DEF Init, Defaults
<1>3. ConfigInv
  BY <1>1, <1>2 DEF Init, ConfigInv, ConfigTypeOK, PrecedenceKept, OnlyServeFlagsEscape
<1>4. ProcessInv
  BY DEF Init, ProcessInv, ProcessTypeOK, Preparing, GracefulLosesNothing, NoExit
<1> QED
  BY <1>3, <1>4 DEF IInv

LEMMA InvHolds == Spec => []IInv
BY InitInv, NextConfig, NextProcess, PTL DEF Spec, IInv

----------------------------------------------------------------------------
\* Every variable keeps its type: whatever the sources set, what reaches the
\* commands is of the class its field has (load.go:47-66).
THEOREM TypeCorrect == Spec => []TypeOK
<1>1. IInv => TypeOK
  BY DEF IInv, TypeOK, ConfigInv, ProcessInv
<1> QED BY <1>1, InvHolds, PTL

\* Overlaying the defaults with file, environment and flags in that order
\* (load.go:47-66), and with serve's own flags at the end (serve.go:39-45), is
\* the precedence that is documented, for any sources.
THEOREM PrecedenceIsKept == Spec => []PrecedenceKept
<1>1. IInv => PrecedenceKept
  BY DEF IInv, ConfigInv
<1> QED BY <1>1, InvHolds, PTL

\* A configuration Validate accepted (validate.go:13-141) is valid still when
\* it is used, except for an address serve was told on its command line.
THEOREM OnlyAddressEscapes == Spec => []OnlyServeFlagsEscape
<1>1. IInv => OnlyServeFlagsEscape
  BY DEF IInv, ConfigInv
<1> QED BY <1>1, InvHolds, PTL

\* Exit code 0 means that no request was cut off (serve.go:105-114), for any
\* number of requests in flight and whatever the goroutines do first.
THEOREM GracefulIsHonest == Spec => []GracefulLosesNothing
<1>1. IInv => GracefulLosesNothing
  BY DEF IInv, ProcessInv
<1> QED BY <1>1, InvHolds, PTL
=============================================================================
