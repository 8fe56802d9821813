------------------------------- MODULE Config -------------------------------
(***************************************************************************)
(* From command-line options to a running daemon: options.config,          *)
(* ParseNetworks, ParseDuration and Validate (command/root.go, config.go,  *)
(* duration.go), then daemon.New's own validateConfig (daemon/daemon.go).  *)
(* One action per iteration or check, in the order the code performs them. *)
(*                                                                         *)
(* A string is a word with or without white space around it.  A duration   *)
(* is written in Go's syntax ("go"), as a number of days ("days") or in    *)
(* neither ("other").  A duration is an int64: MaxInt is its largest value *)
(* and sums and products wrap around.                                      *)
(***************************************************************************)
EXTENDS Integers, Sequences

CONSTANTS
  Words,        \* what is left of a string between its outer white space
  Blank,        \* the word that is nothing
  Saltbox,      \* the network preferred as the default
  Broken,       \* words with white space, a control character or "#" inside
  Literals,     \* words that are IP addresses
  Paths, NoPath, BlankPaths,   \* paths, "" and the paths of only white space
  Clean,        \* filepath.Clean
  MaxInt,       \* math.MaxInt64
  Day,          \* 24 * time.Hour
  Options       \* the command lines considered

Text == [word : Words, pad : BOOLEAN]
RawDuration == [kind : {"go", "days", "other"}, value : Int]

ASSUME WordAssumption ==
  /\ {Blank, Saltbox} \subseteq Words \ Broken /\ Blank # Saltbox
  /\ Broken \subseteq Words /\ Literals \subseteq Words \ {Blank}
ASSUME PathAssumption ==
  /\ NoPath \in BlankPaths /\ BlankPaths \subseteq Paths
  /\ Clean \in [Paths -> Paths] /\ \A p \in Paths : Clean[Clean[p]] = Clean[p]
ASSUME WidthAssumption == MaxInt \in Nat \ {0} /\ Day \in 1..MaxInt

ASSUME OptionAssumption == \A o \in Options :
  /\ o.command \in {"run", "regenerate"}
  /\ o.networks \in Seq(Text) /\ o.defaultNetwork \in Text /\ o.defaultSet \in BOOLEAN
  /\ {o.interval, o.debounceDelay, o.maxDebounceDelay} \subseteq RawDuration
  /\ {o.hostsFile, o.backupFile} \subseteq Paths
  /\ o.sectionName \in {"line", "lines", "blank"}
  /\ o.healthAddr \in Text /\ o.healthPort \in Int
  \* a count of days has digits only, and time.ParseDuration returns an int64
  /\ \A r \in {o.interval, o.debounceDelay, o.maxDebounceDelay} :
       /\ r.kind = "days" => r.value >= 0
       /\ r.kind = "go" => r.value \in (-MaxInt - 1)..MaxInt

VARIABLES
  opts,    \* the options of this invocation
  pc,      \* what is done next, or how it ended
  next,    \* the next element of the network list
  cfg      \* the configuration built so far

vars == <<opts, pc, next, cfg>>

----------------------------------------------------------------------------
\* Strings.
TrimSpace(s) == [s EXCEPT !.pad = FALSE]
Empty == [word |-> Blank, pad |-> FALSE]

\* strings.IndexFunc(s, invalidNetworkRune) >= 0: white space outside counts too.
hasInvalidRune(s) == s.pad \/ s.word \in Broken

cleanPath(p) == IF p \in BlankPaths THEN NoPath ELSE Clean[p]

validateCleanPath(p) == p \notin BlankPaths /\ Clean[p] = p

validateFileConfig(hosts, backup, section) ==
  /\ validateCleanPath(hosts) /\ validateCleanPath(backup)
  /\ hosts # backup /\ section = "line"

----------------------------------------------------------------------------
\* Durations.  The product is computed in an int64.
Wrap(n) == ((n + MaxInt + 1) % (2 * (MaxInt + 1))) - (MaxInt + 1)

Refused == [ok |-> FALSE, value |-> 0]

ParseDurationUnlimited(raw) ==
  CASE raw.kind = "go" -> IF raw.value > 0 THEN [ok |-> TRUE, value |-> raw.value] ELSE Refused
    [] raw.kind = "days" -> IF raw.value \in 1..(2 * MaxInt + 1)
                            THEN [ok |-> TRUE, value |-> Wrap(raw.value * Day)] ELSE Refused
    [] OTHER -> Refused

ParseDuration(raw) ==
  CASE raw.kind = "go" -> IF raw.value > 0 THEN [ok |-> TRUE, value |-> raw.value] ELSE Refused
    [] raw.kind = "days" -> IF raw.value \in 1..(MaxInt \div Day)
                            THEN [ok |-> TRUE, value |-> Wrap(raw.value * Day)] ELSE Refused
    [] OTHER -> Refused

----------------------------------------------------------------------------
\* Validation, once in package command and once more in package daemon.
Distinct(networks) ==
  \A i, j \in DOMAIN networks : networks[i] = networks[j] => i = j

Normalized(s) == s # Empty /\ TrimSpace(s) = s /\ ~hasInvalidRune(s)

Monitored(network, networks) == \E i \in DOMAIN networks : networks[i] = network

validateNetworks(networks, defaultNetwork) ==
  /\ networks # <<>> /\ Distinct(networks)
  /\ \A i \in DOMAIN networks : Normalized(networks[i])
  /\ Monitored(defaultNetwork, networks)

DelaysPositive(c) == c.interval > 0 /\ c.debounceDelay > 0 /\ c.maxDebounceDelay > 0

Port == 1..65535

validateHealth(c) ==
  /\ c.healthAddr # Empty /\ TrimSpace(c.healthAddr) = c.healthAddr
  /\ c.healthAddr.word \in Literals /\ c.healthPort \in Port

Validate(c) ==
  /\ validateNetworks(c.networks, c.defaultNetwork)
  /\ validateFileConfig(c.hostsFile, c.backupFile, c.sectionName)
  /\ DelaysPositive(c) /\ c.maxDebounceDelay >= c.debounceDelay
  /\ validateHealth(c)

validateConfig(c) ==
  /\ validateNetworks(c.networks, c.defaultNetwork)
  /\ DelaysPositive(c) /\ c.maxDebounceDelay >= c.debounceDelay

----------------------------------------------------------------------------
Init ==
  /\ opts \in Options /\ next = 1
  /\ pc = IF opts.command = "run" THEN "default" ELSE "regenerate"
  /\ cfg = [networks |-> <<>>, defaultNetwork |-> Empty,
            interval |-> 0, debounceDelay |-> 0, maxDebounceDelay |-> 0,
            hostsFile |-> cleanPath(opts.hostsFile), backupFile |-> cleanPath(opts.backupFile),
            sectionName |-> opts.sectionName, healthAddr |-> TrimSpace(opts.healthAddr),
            healthPort |-> opts.healthPort]

\* Go on with then, or return the error.
Check(ok, then) == pc' = IF ok THEN then ELSE "rejected"

\* --default-network given but blank.
CheckDefault ==
  /\ pc = "default"
  /\ Check(~(opts.defaultSet /\ TrimSpace(opts.defaultNetwork) = Empty), "networks")
  /\ UNCHANGED <<opts, next, cfg>>

\* An iteration of ParseNetworks.
ReadNetworkToBlank ==
  /\ pc = "networks" /\ next <= Len(opts.networks)
  /\ LET network == TrimSpace(opts.networks[next]) IN
     \/ /\ network = Empty
        /\ next' = Len(opts.networks) + 1 /\ UNCHANGED <<pc, cfg>>
     \/ /\ network # Empty
        /\ Check(~hasInvalidRune(network), pc)
        /\ next' = next + 1
        /\ cfg' = IF hasInvalidRune(network) \/ Monitored(network, cfg.networks) THEN cfg
                  ELSE [cfg EXCEPT !.networks = Append(@, network)]
  /\ UNCHANGED opts

ReadNetwork ==
  /\ pc = "networks" /\ next <= Len(opts.networks)
  /\ next' = next + 1
  /\ LET network == TrimSpace(opts.networks[next]) IN
     \/ /\ network = Empty
        /\ UNCHANGED <<pc, cfg>>
     \/ /\ network # Empty /\ hasInvalidRune(network)
        /\ pc' = "rejected" /\ UNCHANGED cfg
     \/ /\ network # Empty /\ ~hasInvalidRune(network) /\ Monitored(network, cfg.networks)
        /\ UNCHANGED <<pc, cfg>>
     \/ /\ network # Empty /\ ~hasInvalidRune(network) /\ ~Monitored(network, cfg.networks)
        /\ cfg' = [cfg EXCEPT !.networks = Append(@, network)] /\ UNCHANGED pc
  /\ UNCHANGED opts

\* The end of ParseNetworks.
ResolveDefaultFirst ==
  /\ pc = "networks" /\ next > Len(opts.networks)
  /\ LET requested == TrimSpace(opts.defaultNetwork)
         default   == IF requested # Empty THEN requested ELSE cfg.networks[1] IN
     \/ /\ cfg.networks # <<>> /\ (requested # Empty => Monitored(requested, cfg.networks))
        /\ pc' = "interval" /\ cfg' = [cfg EXCEPT !.defaultNetwork = default]
     \/ /\ cfg.networks = <<>> \/ (requested # Empty /\ ~Monitored(requested, cfg.networks))
        /\ pc' = "rejected" /\ UNCHANGED cfg
  /\ UNCHANGED <<opts, next>>

ResolveDefault ==
  /\ pc = "networks" /\ next > Len(opts.networks)
  /\ LET requested == TrimSpace(opts.defaultNetwork)
         saltbox   == [word |-> Saltbox, pad |-> FALSE]
         default   == IF requested # Empty THEN requested
                      ELSE IF Monitored(saltbox, cfg.networks) THEN saltbox
                      ELSE cfg.networks[1] IN
     \/ /\ cfg.networks # <<>> /\ (requested # Empty => Monitored(requested, cfg.networks))
        /\ pc' = "interval" /\ cfg' = [cfg EXCEPT !.defaultNetwork = default]
     \/ /\ cfg.networks = <<>> \/ (requested # Empty /\ ~Monitored(requested, cfg.networks))
        /\ pc' = "rejected" /\ UNCHANGED cfg
  /\ UNCHANGED <<opts, next>>

ParseInterval ==
  /\ pc = "interval"
  /\ Check(ParseDuration(opts.interval).ok, "debounceDelay")
  /\ cfg' = [cfg EXCEPT !.interval = ParseDuration(opts.interval).value]
  /\ UNCHANGED <<opts, next>>

ParseDebounceDelay ==
  /\ pc = "debounceDelay"
  /\ Check(ParseDuration(opts.debounceDelay).ok, "maxDebounceDelay")
  /\ cfg' = [cfg EXCEPT !.debounceDelay = ParseDuration(opts.debounceDelay).value]
  /\ UNCHANGED <<opts, next>>

ParseMaxDebounceDelay ==
  /\ pc = "maxDebounceDelay"
  /\ Check(ParseDuration(opts.maxDebounceDelay).ok, "validate")
  /\ cfg' = [cfg EXCEPT !.maxDebounceDelay = ParseDuration(opts.maxDebounceDelay).value]
  /\ UNCHANGED <<opts, next>>

ValidateConfig ==
  pc = "validate" /\ Check(Validate(cfg), "construct") /\ UNCHANGED <<opts, next, cfg>>

\* daemon.New with the configuration just validated.
New ==
  /\ pc = "construct" /\ pc' = IF validateConfig(cfg) THEN "running" ELSE "unconstructed"
  /\ UNCHANGED <<opts, next, cfg>>

RegenerateConfig ==
  /\ pc = "regenerate"
  /\ Check(validateFileConfig(cfg.hostsFile, cfg.backupFile, cfg.sectionName), "regenerating")
  /\ UNCHANGED <<opts, next, cfg>>

Next ==
  \/ CheckDefault \/ ReadNetwork \/ ResolveDefault
  \/ ParseInterval \/ ParseDebounceDelay \/ ParseMaxDebounceDelay
  \/ ValidateConfig \/ New \/ RegenerateConfig

Spec == Init /\ [][Next]_vars

----------------------------------------------------------------------------
\* What the options mean, without regard to how they are parsed.
Listed == {t.word : t \in {opts.networks[i] : i \in DOMAIN opts.networks}} \ {Blank}

\* The number of nanoseconds a duration stands for; 0 if it stands for none.
Meaning(raw) == CASE raw.kind = "go" -> raw.value
                  [] raw.kind = "days" -> raw.value * Day
                  [] OTHER -> 0

SoundNetworks ==
  /\ Listed # {} /\ Listed \cap Broken = {}
  /\ IF opts.defaultNetwork.word = Blank THEN ~opts.defaultSet
     ELSE opts.defaultNetwork.word \in Listed

SoundDurations ==
  /\ \A raw \in {opts.interval, opts.debounceDelay, opts.maxDebounceDelay} :
       Meaning(raw) \in 1..MaxInt
  /\ Meaning(opts.debounceDelay) <= Meaning(opts.maxDebounceDelay)

SoundFiles ==
  /\ {opts.hostsFile, opts.backupFile} \cap BlankPaths = {}
  /\ {Clean[opts.hostsFile], Clean[opts.backupFile]} \cap BlankPaths = {}
  /\ Clean[opts.hostsFile] # Clean[opts.backupFile] /\ opts.sectionName = "line"

SoundHealth == opts.healthAddr.word \in Literals /\ opts.healthPort \in Port

Sound == IF opts.command = "regenerate" THEN SoundFiles
         ELSE SoundNetworks /\ SoundDurations /\ SoundFiles /\ SoundHealth

(***************************************************************************)
(* The staged parsing, its early returns and its repeated validations      *)
(* accept exactly the options that are sound, whatever their spelling; and *)
(* what package command accepts, package daemon accepts: daemon.New's copy *)
(* of the validation never refuses, after lock and Docker client exist.    *)
(***************************************************************************)
AcceptsExactlySound ==
  /\ pc \in {"running", "regenerating"} => Sound
  /\ pc = "rejected" => ~Sound
  /\ pc # "unconstructed"

(***************************************************************************)
(* A running daemon monitors each listed network once, in the order of     *)
(* first mention, and its default network is one of them: the one          *)
(* requested, else saltbox, else the first.                                *)
(***************************************************************************)
NetworksAsWritten == pc = "running" =>
  LET word(i)  == opts.networks[i].word
      firsts   == {i \in DOMAIN opts.networks :
                     word(i) # Blank /\ \A j \in 1..(i - 1) : word(j) # word(i)}
      names    == cfg.networks
      default  == opts.defaultNetwork.word
  IN  /\ {names[k].word : k \in DOMAIN names} = Listed
      /\ \A k, l \in DOMAIN names : k < l =>
           \E i, j \in firsts : i < j /\ names[k].word = word(i) /\ names[l].word = word(j)
      /\ CASE default # Blank -> cfg.defaultNetwork.word = default
           [] default = Blank /\ Saltbox \in Listed -> cfg.defaultNetwork.word = Saltbox
           [] OTHER -> cfg.defaultNetwork = names[1]

(***************************************************************************)
(* A duration in use is the one that was written: the product with a day   *)
(* never wraps around, up to the largest number of days that fits.  The    *)
(* timers of the loop are positive and ordered.                            *)
(***************************************************************************)
DurationsExact == pc = "running" =>
  /\ cfg.interval = Meaning(opts.interval)
  /\ cfg.debounceDelay = Meaning(opts.debounceDelay)
  /\ cfg.maxDebounceDelay = Meaning(opts.maxDebounceDelay)
  /\ cfg.interval > 0 /\ 0 < cfg.debounceDelay /\ cfg.debounceDelay <= cfg.maxDebounceDelay
=============================================================================
