---------------------------- MODULE ConfigProofs ----------------------------
(***************************************************************************)
(* The configuration is accepted exactly when the options are sound, and   *)
(* then means what was written: for any list of networks, any strings and  *)
(* paths, any width of the integers and any length of a day.               *)
(***************************************************************************)
EXTENDS Config, SequenceTheorems, TLAPS

(***************************************************************************)
(* Durations.                                                              *)
(***************************************************************************)

\* A product that fits is left alone by the wrap-around.
LEMMA WrapFits ==
  ASSUME NEW n \in 0..MaxInt
  PROVE  Wrap(n) = n
<1> DEFINE w == 2 * (MaxInt + 1)
<1>1. /\ MaxInt \in Nat /\ n \in Int /\ w \in Int /\ w > 0
      /\ 0 <= n + MaxInt + 1 /\ n + MaxInt + 1 < w
  BY WidthAssumption
<1> HIDE DEF w
<1>2. ASSUME NEW m \in Int, 0 <= m, m < w PROVE m % w = m
  BY <1>1, <1>2
<1>3. (n + MaxInt + 1) % w = n + MaxInt + 1
  BY <1>1, <1>2
<1> QED
  BY <1>1, <1>3 DEF Wrap, w

\* The limit on the number of days is the last one whose product fits.
LEMMA DaysFit ==
  ASSUME NEW n \in Nat
  PROVE  n \in 1..(MaxInt \div Day) <=> n * Day \in 1..MaxInt
<1> DEFINE q == MaxInt \div Day
<1>1. MaxInt \in Nat /\ Day \in Nat /\ Day > 0
  BY WidthAssumption
<1>2. q \in Int /\ q * Day <= MaxInt /\ MaxInt < (q + 1) * Day
  BY <1>1
<1> HIDE DEF q
<1>3. CASE n <= q
  <2>1. n * Day <= q * Day
    BY <1>1, <1>2, <1>3
  <2>2. n >= 1 <=> n * Day >= 1
    BY <1>1
  <2> QED
    BY <1>1, <1>2, <1>3, <2>1, <2>2 DEF q
<1>4. CASE n > q
  <2>1. n * Day >= (q + 1) * Day
    BY <1>1, <1>2, <1>4
  <2> QED
    BY <1>1, <1>2, <1>4, <2>1 DEF q
<1> QED
  BY <1>1, <1>2, <1>3, <1>4

\* The durations an option may hold.
LegalDuration(raw) ==
  /\ raw.kind \in {"go", "days", "other"} /\ raw.value \in Int
  /\ raw.kind = "days" => raw.value >= 0
  /\ raw.kind = "go" => raw.value \in (-MaxInt - 1)..MaxInt

\* ParseDuration accepts the durations that are positive and fit, and returns them.
LEMMA ParseExact ==
  ASSUME NEW raw, LegalDuration(raw)
  PROVE  /\ ParseDuration(raw).ok <=> Meaning(raw) \in 1..MaxInt
         /\ ParseDuration(raw).ok => ParseDuration(raw).value = Meaning(raw)
         /\ ParseDuration(raw).value \in Int
<1>1. MaxInt \in Nat /\ raw.value \in Int
  BY WidthAssumption DEF LegalDuration
<1>2. CASE raw.kind = "go"
  <2>1. ParseDuration(raw) = IF raw.value > 0 THEN [ok |-> TRUE, value |-> raw.value] ELSE Refused
    BY <1>2 DEF ParseDuration
  <2>2. Meaning(raw) = raw.value /\ raw.value <= MaxInt
    BY <1>1, <1>2 DEF Meaning, LegalDuration
  <2> QED
    BY <1>1, <2>1, <2>2 DEF Refused
<1>3. CASE raw.kind = "days"
  <2>1. ParseDuration(raw) = IF raw.value \in 1..(MaxInt \div Day)
                             THEN [ok |-> TRUE, value |-> Wrap(raw.value * Day)] ELSE Refused
    BY <1>3 DEF ParseDuration
  <2>2. Meaning(raw) = raw.value * Day /\ raw.value \in Nat
    BY <1>1, <1>3 DEF Meaning, LegalDuration
  <2>3. raw.value \in 1..(MaxInt \div Day) <=> Meaning(raw) \in 1..MaxInt
    BY <2>2, DaysFit
  <2>4. Meaning(raw) \in 1..MaxInt => Wrap(raw.value * Day) = Meaning(raw)
    <3> SUFFICES ASSUME Meaning(raw) \in 1..MaxInt PROVE Wrap(Meaning(raw)) = Meaning(raw)
      BY <2>2
    <3> QED
      BY <1>1, WrapFits
  <2> QED
    BY <1>1, <2>1, <2>3, <2>4 DEF Refused
<1>4. CASE raw.kind = "other"
  <2>1. ParseDuration(raw) = Refused /\ Meaning(raw) = 0
    BY <1>4 DEF ParseDuration, Meaning
  <2> QED
    BY <1>1, <2>1 DEF Refused
<1> QED
  BY <1>2, <1>3, <1>4 DEF LegalDuration

-----------------------------------------------------------------------------
(***************************************************************************)
(* Strings and paths.                                                      *)
(***************************************************************************)

\* Texts are their words and their white space.
LEMMA Texts ==
  /\ \A s \in Text : /\ s.word \in Words /\ s.pad \in BOOLEAN
                     /\ TrimSpace(s) \in Text /\ TrimSpace(s).word = s.word
                     /\ ~TrimSpace(s).pad
  /\ \A s, t \in Text : s.word = t.word /\ ~s.pad /\ ~t.pad => s = t
  /\ \A w \in Words : /\ [word |-> w, pad |-> FALSE] \in Text
                      /\ [word |-> w, pad |-> FALSE].word = w
                      /\ ~[word |-> w, pad |-> FALSE].pad
  /\ Empty \in Text /\ Empty.word = Blank /\ ~Empty.pad
<1>1. \A s \in Text : s.word \in Words /\ s.pad \in BOOLEAN
  BY DEF Text
<1>2. ASSUME NEW s \in Text
      PROVE  TrimSpace(s) \in Text /\ TrimSpace(s).word = s.word /\ ~TrimSpace(s).pad
  BY DEF Text, TrimSpace
<1>3. ASSUME NEW s \in Text, NEW t \in Text, s.word = t.word, ~s.pad, ~t.pad
      PROVE  s = t
  <2>1. s = [word |-> s.word, pad |-> s.pad] /\ t = [word |-> t.word, pad |-> t.pad]
    BY DEF Text
  <2>2. s.pad = FALSE /\ t.pad = FALSE
    BY <1>1, <1>3
  <2> QED
    BY <1>3, <2>1, <2>2
<1>4. ASSUME NEW w \in Words
      PROVE  /\ [word |-> w, pad |-> FALSE] \in Text
             /\ [word |-> w, pad |-> FALSE].word = w
             /\ ~[word |-> w, pad |-> FALSE].pad
  BY DEF Text
<1>5. Blank \in Words
  BY WordAssumption
<1> QED
  BY <1>1, <1>2, <1>3, <1>4, <1>5 DEF Empty

\* The two paths pass validateFileConfig exactly when they are sound.
LEMMA FilesExact ==
  ASSUME NEW h \in Paths, NEW b \in Paths, NEW section
  PROVE  validateFileConfig(cleanPath(h), cleanPath(b), section)
         <=> /\ {h, b} \cap BlankPaths = {}
             /\ {Clean[h], Clean[b]} \cap BlankPaths = {}
             /\ Clean[h] # Clean[b] /\ section = "line"
<1>1. ASSUME NEW p \in Paths
      PROVE  validateCleanPath(cleanPath(p)) <=> p \notin BlankPaths /\ Clean[p] \notin BlankPaths
  BY PathAssumption DEF validateCleanPath, cleanPath
<1>2. \A p \in Paths : p \notin BlankPaths => cleanPath(p) = Clean[p]
  BY DEF cleanPath
<1> QED
  BY <1>1, <1>2 DEF validateFileConfig

-----------------------------------------------------------------------------
(***************************************************************************)
(* The inductive invariant.  A rejection happens at some stage of the      *)
(* pipeline and must be traced to the options; so what is known of the     *)
(* configuration is stated stage by stage.  Between two iterations of      *)
(* ParseNetworks the list holds the words read so far, each once, at the   *)
(* place of its first mention (ReadInv); past ParseNetworks the default is *)
(* the one that was meant (ResolvedInv); past a ParseDuration its result   *)
(* is the duration written (ParsedInv).                                    *)
(***************************************************************************)
Word(i) == opts.networks[i].word

FirstMention(i) == Word(i) # Blank /\ \A j \in 1..(i - 1) : Word(j) # Word(i)

Parsing == {"interval", "debounceDelay", "maxDebounceDelay"}
Resolved == Parsing \cup {"validate", "construct", "running"}
Pipeline == {"default", "networks"} \cup Resolved

CfgType ==
  [networks : Seq(Text), defaultNetwork : Text,
   interval : Int, debounceDelay : Int, maxDebounceDelay : Int,
   hostsFile : Paths, backupFile : Paths, sectionName : {"line", "lines", "blank"},
   healthAddr : Text, healthPort : Int]

TypeInv ==
  /\ opts \in Options /\ cfg \in CfgType
  /\ pc \in Pipeline \cup {"rejected", "regenerate", "regenerating"}
  /\ next \in 1..(Len(opts.networks) + 1)

StageInv ==
  /\ pc \in Pipeline => opts.command = "run"
  /\ pc \in {"regenerate", "regenerating"} => opts.command = "regenerate"
  /\ pc = "default" => next = 1
  /\ pc \in Resolved => next = Len(opts.networks) + 1
  /\ pc \in {"networks"} \cup Resolved => ~(opts.defaultSet /\ opts.defaultNetwork.word = Blank)

\* Set when the configuration is made, never changed.
FixedInv ==
  /\ cfg.hostsFile = cleanPath(opts.hostsFile) /\ cfg.backupFile = cleanPath(opts.backupFile)
  /\ cfg.sectionName = opts.sectionName
  /\ cfg.healthAddr = TrimSpace(opts.healthAddr) /\ cfg.healthPort = opts.healthPort

ReadSoFar(names, n) ==
  /\ \A k \in DOMAIN names :
       /\ ~names[k].pad /\ names[k].word \notin Broken
       /\ \E i \in 1..n : FirstMention(i) /\ names[k].word = Word(i)
  /\ \A i \in 1..n : Word(i) # Blank => \E k \in DOMAIN names : names[k].word = Word(i)
  /\ \A k, l \in DOMAIN names : k < l =>
       \E i, j \in 1..n : /\ i < j /\ FirstMention(i) /\ FirstMention(j)
                          /\ names[k].word = Word(i) /\ names[l].word = Word(j)

ReadInv == pc \in Pipeline => ReadSoFar(cfg.networks, next - 1)

DefaultAsWritten ==
  LET default == opts.defaultNetwork.word IN
  CASE default # Blank -> cfg.defaultNetwork.word = default
    [] default = Blank /\ Saltbox \in Listed -> cfg.defaultNetwork.word = Saltbox
    [] OTHER -> cfg.defaultNetwork = cfg.networks[1]

ResolvedInv == pc \in Resolved =>
  /\ SoundNetworks /\ DefaultAsWritten
  /\ cfg.networks # <<>> /\ Monitored(cfg.defaultNetwork, cfg.networks)

Parsed(raw, value) == Meaning(raw) \in 1..MaxInt /\ value = Meaning(raw)

ParsedInv ==
  /\ pc \in Resolved \ {"interval"} => Parsed(opts.interval, cfg.interval)
  /\ pc \in Resolved \ {"interval", "debounceDelay"} =>
       Parsed(opts.debounceDelay, cfg.debounceDelay)
  /\ pc \in Resolved \ Parsing => Parsed(opts.maxDebounceDelay, cfg.maxDebounceDelay)

\* How it ended.
EndInv ==
  /\ pc = "construct" => validateConfig(cfg) /\ Sound
  /\ pc \in {"running", "regenerating"} => Sound
  /\ pc = "rejected" => ~Sound

IInv ==
  /\ TypeInv /\ StageInv /\ FixedInv /\ ReadInv /\ ResolvedInv /\ ParsedInv /\ EndInv

\* What OptionAssumption says of the options of this invocation.
LEMMA OptionTypes ==
  ASSUME opts \in Options
  PROVE  /\ opts.command \in {"run", "regenerate"}
         /\ opts.networks \in Seq(Text) /\ Len(opts.networks) \in Nat
         /\ DOMAIN opts.networks = 1..Len(opts.networks)
         /\ \A i \in 1..Len(opts.networks) : opts.networks[i] \in Text /\ Word(i) \in Words
         /\ opts.defaultNetwork \in Text /\ opts.healthAddr \in Text
         /\ opts.healthPort \in Int
         /\ opts.hostsFile \in Paths /\ opts.backupFile \in Paths
         /\ opts.sectionName \in {"line", "lines", "blank"}
         /\ LegalDuration(opts.interval) /\ LegalDuration(opts.debounceDelay)
         /\ LegalDuration(opts.maxDebounceDelay)
<1>1. /\ opts.command \in {"run", "regenerate"} /\ opts.networks \in Seq(Text)
      /\ opts.defaultNetwork \in Text /\ opts.healthAddr \in Text /\ opts.healthPort \in Int
      /\ opts.hostsFile \in Paths /\ opts.backupFile \in Paths
      /\ opts.sectionName \in {"line", "lines", "blank"}
  BY OptionAssumption
<1>2. /\ Len(opts.networks) \in Nat /\ DOMAIN opts.networks = 1..Len(opts.networks)
      /\ \A i \in 1..Len(opts.networks) : opts.networks[i] \in Text
  BY <1>1, LenProperties
<1>3. ASSUME NEW raw \in {opts.interval, opts.debounceDelay, opts.maxDebounceDelay}
      PROVE  LegalDuration(raw)
  <2>1. raw \in RawDuration
    BY OptionAssumption
  <2>2. /\ raw.kind = "days" => raw.value >= 0
        /\ raw.kind = "go" => raw.value \in (-MaxInt - 1)..MaxInt
    BY OptionAssumption
  <2> QED
    BY <2>1, <2>2 DEF RawDuration, LegalDuration
<1> QED
  BY <1>1, <1>2, <1>3, Texts DEF Word

\* No two networks of the list are equal, and each is normalized.
LEMMA ReadDistinct ==
  ASSUME opts \in Options, NEW names \in Seq(Text), NEW n \in 0..Len(opts.networks),
         ReadSoFar(names, n)
  PROVE  Distinct(names) /\ \A k \in DOMAIN names : Normalized(names[k])
<1>1. Len(names) \in Nat /\ DOMAIN names = 1..Len(names) /\ \A k \in DOMAIN names : names[k] \in Text
  BY LenProperties
<1>2. ASSUME NEW k \in DOMAIN names, NEW l \in DOMAIN names, k < l
      PROVE  names[k] # names[l]
  <2>1. PICK i, j \in 1..n : /\ i < j /\ FirstMention(i) /\ FirstMention(j)
                             /\ names[k].word = Word(i) /\ names[l].word = Word(j)
    BY <1>2 DEF ReadSoFar
  <2>2. Word(i) # Word(j)
    BY <2>1, OptionTypes DEF FirstMention
  <2> QED
    BY <2>1, <2>2
<1>3. Distinct(names)
  <2> SUFFICES ASSUME NEW k \in DOMAIN names, NEW l \in DOMAIN names, names[k] = names[l], k # l
               PROVE  FALSE
    BY DEF Distinct
  <2>1. k < l \/ l < k
    BY <1>1
  <2> QED
    BY <1>2, <2>1
<1>4. ASSUME NEW k \in DOMAIN names PROVE Normalized(names[k])
  <2>1. names[k] \in Text /\ ~names[k].pad /\ names[k].word \notin Broken /\ names[k].word # Blank
    BY <1>1 DEF ReadSoFar, FirstMention
  <2>2. names[k] # Empty /\ TrimSpace(names[k]) = names[k]
    BY <2>1, Texts
  <2> QED
    BY <2>1, <2>2 DEF Normalized, hasInvalidRune
<1> QED
  BY <1>3, <1>4

\* Once every option is read the list has exactly the words listed.
LEMMA ReadListed ==
  ASSUME opts \in Options, NEW names \in Seq(Text), ReadSoFar(names, Len(opts.networks))
  PROVE  /\ \A k \in DOMAIN names : names[k].word \in Listed
         /\ \A w \in Listed : \E k \in DOMAIN names : names[k].word = w
         /\ Listed \cap Broken = {}
         /\ (names = <<>> <=> Listed = {})
         /\ \A t \in Text : ~t.pad => (Monitored(t, names) <=> t.word \in Listed)
<1>1. Len(names) \in Nat /\ DOMAIN names = 1..Len(names) /\ \A k \in DOMAIN names : names[k] \in Text
  BY LenProperties
<1>2. Listed = {Word(i) : i \in 1..Len(opts.networks)} \ {Blank}
  BY OptionTypes DEF Listed, Word
<1>3. ASSUME NEW k \in DOMAIN names PROVE names[k].word \in Listed
  BY <1>2 DEF ReadSoFar, FirstMention
<1>4. ASSUME NEW w \in Listed PROVE \E k \in DOMAIN names : names[k].word = w
  BY <1>2 DEF ReadSoFar
<1>5. Listed \cap Broken = {}
  BY <1>4 DEF ReadSoFar
<1>6. names = <<>> <=> Listed = {}
  <2>1. names = <<>> => DOMAIN names = {}
    OBVIOUS
  <2>2. names # <<>> => 1 \in DOMAIN names
    BY <1>1, EmptySeq
  <2> QED
    BY <1>3, <1>4, <2>1, <2>2
<1>7. ASSUME NEW t \in Text, ~t.pad PROVE Monitored(t, names) <=> t.word \in Listed
  <2>1. \A k \in DOMAIN names : ~names[k].pad
    BY DEF ReadSoFar
  <2>2. \A k \in DOMAIN names : names[k].word = t.word => names[k] = t
    BY <1>1, <1>7, <2>1, Texts
  <2> QED
    BY <1>3, <1>4, <2>2 DEF Monitored
<1> QED
  BY <1>3, <1>4, <1>5, <1>6, <1>7

\* One more iteration that keeps the list: the word is blank or known.
LEMMA ReadKnown ==
  ASSUME opts \in Options, NEW names \in Seq(Text), NEW n \in 0..(Len(opts.networks) - 1),
         ReadSoFar(names, n),
         Word(n + 1) # Blank => \E k \in DOMAIN names : names[k].word = Word(n + 1)
  PROVE  ReadSoFar(names, n + 1)
<1>1. /\ \A i \in 1..n : i \in 1..(n + 1)
      /\ \A i \in 1..(n + 1) : i \in 1..n \/ i = n + 1
  BY OptionTypes
<1>2. ASSUME NEW k \in DOMAIN names
      PROVE  /\ ~names[k].pad /\ names[k].word \notin Broken
             /\ \E i \in 1..(n + 1) : FirstMention(i) /\ names[k].word = Word(i)
  BY <1>1 DEF ReadSoFar
<1>3. ASSUME NEW i \in 1..(n + 1), Word(i) # Blank
      PROVE  \E k \in DOMAIN names : names[k].word = Word(i)
  BY <1>1, <1>3 DEF ReadSoFar
<1>4. ASSUME NEW k \in DOMAIN names, NEW l \in DOMAIN names, k < l
      PROVE  \E i, j \in 1..(n + 1) : /\ i < j /\ FirstMention(i) /\ FirstMention(j)
                                      /\ names[k].word = Word(i) /\ names[l].word = Word(j)
  <2>1. PICK i, j \in 1..n : /\ i < j /\ FirstMention(i) /\ FirstMention(j)
                             /\ names[k].word = Word(i) /\ names[l].word = Word(j)
    BY <1>4 DEF ReadSoFar
  <2> QED
    BY <1>1, <2>1
<1> QED
  BY <1>2, <1>3, <1>4 DEF ReadSoFar

\* One more iteration that appends a word not met before.
LEMMA ReadNew ==
  ASSUME opts \in Options, NEW names \in Seq(Text), NEW n \in 0..(Len(opts.networks) - 1),
         ReadSoFar(names, n), NEW t \in Text, ~t.pad, t.word = Word(n + 1),
         t.word \notin Broken, t.word # Blank,
         \A k \in DOMAIN names : names[k].word # t.word
  PROVE  ReadSoFar(Append(names, t), n + 1)
<1> DEFINE new == Append(names, t)
<1>1. /\ Len(names) \in Nat /\ DOMAIN names = 1..Len(names)
      /\ DOMAIN new = 1..(Len(names) + 1) /\ new[Len(names) + 1] = t
      /\ \A k \in DOMAIN names : new[k] = names[k]
  BY LenProperties, AppendProperties
<1> HIDE DEF new
<1>2. n \in Nat /\ n + 1 \in 1..(n + 1) /\ \A i \in 1..n : i \in 1..(n + 1) /\ i < n + 1
  BY OptionTypes
<1>3. FirstMention(n + 1)
  <2>1. \A j \in 1..n : Word(j) # t.word
    BY DEF ReadSoFar
  <2> QED
    BY <1>2, <2>1 DEF FirstMention
<1>4. ASSUME NEW k \in DOMAIN new
      PROVE  /\ ~new[k].pad /\ new[k].word \notin Broken
             /\ \E i \in 1..(n + 1) : FirstMention(i) /\ new[k].word = Word(i)
  <2>1. CASE k \in DOMAIN names
    BY <1>1, <1>2, <2>1 DEF ReadSoFar
  <2>2. CASE k = Len(names) + 1
    BY <1>1, <1>2, <1>3, <2>2
  <2> QED
    BY <1>1, <2>1, <2>2
<1>5. ASSUME NEW i \in 1..(n + 1), Word(i) # Blank
      PROVE  \E k \in DOMAIN new : new[k].word = Word(i)
  <2>1. CASE i = n + 1
    <3>1. Len(names) + 1 \in DOMAIN new
      BY <1>1
    <3> QED
      BY <1>1, <2>1, <3>1
  <2>2. CASE i # n + 1
    <3>1. i \in 1..n
      BY <1>2, <2>2
    <3>2. PICK k \in DOMAIN names : names[k].word = Word(i)
      BY <1>5, <3>1 DEF ReadSoFar
    <3> QED
      BY <1>1, <3>2
  <2> QED
    BY <2>1, <2>2
<1>6. ASSUME NEW k \in DOMAIN new, NEW l \in DOMAIN new, k < l
      PROVE  \E i, j \in 1..(n + 1) : /\ i < j /\ FirstMention(i) /\ FirstMention(j)
                                      /\ new[k].word = Word(i) /\ new[l].word = Word(j)
  <2>0. k \in DOMAIN names
    BY <1>1, <1>6
  <2>1. CASE l \in DOMAIN names
    <3>1. PICK i, j \in 1..n : /\ i < j /\ FirstMention(i) /\ FirstMention(j)
                               /\ names[k].word = Word(i) /\ names[l].word = Word(j)
      BY <1>6, <2>0, <2>1 DEF ReadSoFar
    <3> QED
      BY <1>1, <1>2, <2>0, <2>1, <3>1
  <2>2. CASE l = Len(names) + 1
    <3>1. PICK i \in 1..n : FirstMention(i) /\ names[k].word = Word(i)
      BY <2>0 DEF ReadSoFar
    <3> QED
      BY <1>1, <1>2, <1>3, <2>0, <2>2, <3>1
  <2> QED
    BY <1>1, <2>1, <2>2
<1> QED
  BY <1>4, <1>5, <1>6 DEF ReadSoFar, new

\* The invariant holds at the start.
LEMMA InitInv == Init => IInv
<1> SUFFICES ASSUME Init PROVE IInv
  OBVIOUS
<1>1. /\ opts \in Options /\ next = 1
      /\ pc = IF opts.command = "run" THEN "default" ELSE "regenerate"
  BY DEF Init
<1>2. \A p \in Paths : cleanPath(p) \in Paths
  BY PathAssumption DEF cleanPath
<1>3. /\ cleanPath(opts.hostsFile) \in Paths /\ cleanPath(opts.backupFile) \in Paths
      /\ TrimSpace(opts.healthAddr) \in Text /\ Empty \in Text
      /\ opts.sectionName \in {"line", "lines", "blank"} /\ opts.healthPort \in Int
  BY <1>1, <1>2, OptionTypes, Texts
<1>4. cfg \in CfgType /\ cfg.networks = <<>>
  BY <1>3 DEF Init, CfgType
<1>5. TypeInv /\ StageInv
  BY <1>1, <1>4, OptionTypes DEF TypeInv, StageInv, Pipeline, Resolved, Parsing
<1>6. FixedInv
  BY DEF Init, FixedInv
<1>7. ReadInv
  BY <1>1, <1>4 DEF ReadInv, ReadSoFar
<1>8. ResolvedInv /\ ParsedInv /\ EndInv
  BY <1>1 DEF ResolvedInv, ParsedInv, EndInv, Resolved, Parsing
<1> QED
  BY <1>5, <1>6, <1>7, <1>8 DEF IInv

\* The options stay, and with them whether they are sound.
LEMMA SoundKept ==
  ASSUME UNCHANGED opts
  PROVE  /\ Sound <=> Sound'
         /\ SoundNetworks <=> SoundNetworks'
         /\ Listed = Listed'
<1>1. Listed = Listed'
  BY DEF Listed
<1>2. SoundNetworks <=> SoundNetworks'
  BY <1>1 DEF SoundNetworks
<1>3. SoundDurations <=> SoundDurations'
  BY DEF SoundDurations, Meaning
<1>4. (SoundFiles <=> SoundFiles') /\ (SoundHealth <=> SoundHealth')
  BY DEF SoundFiles, SoundHealth
<1> QED
  BY <1>1, <1>2, <1>3, <1>4 DEF Sound

\* The steps that leave the list of networks and what is fixed alone.
SameList ==
  /\ UNCHANGED <<opts, next>> /\ cfg' \in CfgType /\ cfg'.networks = cfg.networks
  /\ cfg'.hostsFile = cfg.hostsFile /\ cfg'.backupFile = cfg.backupFile
  /\ cfg'.sectionName = cfg.sectionName
  /\ cfg'.healthAddr = cfg.healthAddr /\ cfg'.healthPort = cfg.healthPort

\* They keep the facts about both.
LEMMA ListKept ==
  ASSUME IInv, SameList, pc \in Pipeline \/ pc' \notin Pipeline,
         pc' \in Pipeline \cup {"rejected", "regenerate", "regenerating"}
  PROVE  TypeInv' /\ FixedInv' /\ ReadInv'
<1>1. TypeInv'
  BY DEF IInv, TypeInv, SameList
<1>2. FixedInv'
  BY DEF IInv, FixedInv, SameList, cleanPath
<1>3. ReadInv'
  BY DEF IInv, ReadInv, SameList, ReadSoFar, FirstMention, Word
<1> QED
  BY <1>1, <1>2, <1>3

\* The default stays resolved while durations are parsed and the result is checked.
LEMMA DefaultKept ==
  ASSUME IInv, SameList, cfg'.defaultNetwork = cfg.defaultNetwork,
         pc \in Resolved \/ pc' \notin Resolved
  PROVE  ResolvedInv'
<1>1. opts' = opts /\ cfg'.networks = cfg.networks
  BY DEF SameList
<1>2. (SoundNetworks => SoundNetworks') /\ Listed' = Listed
  BY <1>1, SoundKept
<1>3. DefaultAsWritten => DefaultAsWritten'
  BY <1>1, <1>2 DEF DefaultAsWritten
<1>4. Monitored(cfg.defaultNetwork, cfg.networks) => Monitored(cfg.defaultNetwork, cfg.networks)'
  BY <1>1 DEF Monitored
<1> QED
  BY <1>1, <1>2, <1>3, <1>4 DEF IInv, ResolvedInv

\* The check of a blank --default-network.
LEMMA CheckDefaultInv ==
  ASSUME IInv, CheckDefault
  PROVE  IInv'
<1> DEFINE blank == opts.defaultSet /\ opts.defaultNetwork.word = Blank
<1>1. /\ UNCHANGED <<opts, next, cfg>> /\ pc = "default"
      /\ opts \in Options /\ cfg \in CfgType /\ opts.command = "run"
  BY DEF CheckDefault, IInv, TypeInv, StageInv, Pipeline
<1>2. TrimSpace(opts.defaultNetwork) = Empty <=> opts.defaultNetwork.word = Blank
  BY <1>1, OptionTypes, Texts
<1>3. pc' = IF ~blank THEN "networks" ELSE "rejected"
  BY <1>2 DEF CheckDefault, Check
<1>4. TypeInv' /\ FixedInv' /\ ReadInv'
  BY <1>1, <1>3, ListKept DEF SameList, Pipeline
<1>5. StageInv'
  BY <1>1, <1>3 DEF StageInv, Pipeline, Resolved, Parsing
<1>6. ResolvedInv' /\ ParsedInv'
  BY <1>3 DEF ResolvedInv, ParsedInv, Resolved, Parsing
<1>7. blank => ~Sound
  BY <1>1 DEF Sound, SoundNetworks
<1>8. EndInv'
  BY <1>1, <1>3, <1>7, SoundKept DEF EndInv
<1> QED
  BY <1>4, <1>5, <1>6, <1>8 DEF IInv

\* An iteration of ParseNetworks.
LEMMA ReadNetworkInv ==
  ASSUME IInv, ReadNetwork
  PROVE  IInv'
<1> DEFINE network == TrimSpace(opts.networks[next])
<1>1. /\ UNCHANGED opts /\ opts \in Options /\ cfg \in CfgType /\ pc = "networks"
      /\ next \in 1..Len(opts.networks) /\ next' = next + 1 /\ next - 1 + 1 = next
      /\ next - 1 \in 0..(Len(opts.networks) - 1) /\ next' - 1 = next
      /\ opts.command = "run" /\ next' \in 1..(Len(opts.networks) + 1)
      /\ ReadSoFar(cfg.networks, next - 1) /\ cfg.networks \in Seq(Text)
  <2>1. /\ UNCHANGED opts /\ opts \in Options /\ pc = "networks" /\ cfg \in CfgType
        /\ next <= Len(opts.networks) /\ next' = next + 1
        /\ next \in 1..(Len(opts.networks) + 1)
    BY DEF ReadNetwork, IInv, TypeInv
  <2>2. Len(opts.networks) \in Nat
    BY <2>1, OptionTypes
  <2>3. opts.command = "run" /\ ReadSoFar(cfg.networks, next - 1)
    BY <2>1 DEF IInv, StageInv, ReadInv, Pipeline
  <2>4. cfg.networks \in Seq(Text)
    BY <2>1 DEF CfgType
  <2> QED
    BY <2>1, <2>2, <2>3, <2>4
<1>2. network \in Text /\ network.word = Word(next) /\ ~network.pad
  BY <1>1, OptionTypes, Texts DEF Word
<1>3. (network = Empty <=> Word(next) = Blank) /\ (hasInvalidRune(network) <=> Word(next) \in Broken)
  BY <1>2, Texts DEF hasInvalidRune
<1>4. Monitored(network, cfg.networks)
      <=> \E k \in DOMAIN cfg.networks : cfg.networks[k].word = Word(next)
  <2>1. \A k \in DOMAIN cfg.networks : cfg.networks[k] \in Text
    BY <1>1, LenProperties
  <2>2. \A k \in DOMAIN cfg.networks : ~cfg.networks[k].pad
    BY <1>1 DEF ReadSoFar
  <2> QED
    BY <1>2, <2>1, <2>2, Texts DEF Monitored
<1>5. \/ /\ UNCHANGED <<pc, cfg>>
         /\ network = Empty \/ Monitored(network, cfg.networks)
      \/ pc' = "rejected" /\ UNCHANGED cfg /\ network # Empty /\ hasInvalidRune(network)
      \/ /\ UNCHANGED pc /\ cfg' = [cfg EXCEPT !.networks = Append(cfg.networks, network)]
         /\ network # Empty /\ ~hasInvalidRune(network) /\ ~Monitored(network, cfg.networks)
  BY DEF ReadNetwork
<1> HIDE DEF network
<1>6. /\ cfg' \in CfgType /\ pc' \in {"networks", "rejected"}
      /\ cfg'.hostsFile = cfg.hostsFile /\ cfg'.backupFile = cfg.backupFile
      /\ cfg'.sectionName = cfg.sectionName
      /\ cfg'.healthAddr = cfg.healthAddr /\ cfg'.healthPort = cfg.healthPort
  <2>1. Append(cfg.networks, network) \in Seq(Text)
    BY <1>1, <1>2, AppendProperties
  <2> QED
    BY <1>1, <1>5, <2>1 DEF CfgType
<1>7. TypeInv' /\ StageInv'
  BY <1>1, <1>6 DEF IInv, TypeInv, StageInv, Pipeline, Resolved, Parsing
<1>8. FixedInv'
  BY <1>1, <1>6 DEF IInv, FixedInv, cleanPath
<1>9. ReadInv'
  <2> SUFFICES ASSUME pc' = "networks" PROVE ReadSoFar(cfg'.networks, next)
    BY <1>1, <1>6 DEF ReadInv, Pipeline, Resolved, Parsing, ReadSoFar, FirstMention, Word
  <2>1. CASE UNCHANGED cfg /\ (network = Empty \/ Monitored(network, cfg.networks))
    <3>1. ReadSoFar(cfg.networks, (next - 1) + 1)
      BY <1>1, <1>3, <1>4, <2>1, ReadKnown
    <3> QED
      BY <1>1, <2>1, <3>1
  <2>2. CASE /\ cfg' = [cfg EXCEPT !.networks = Append(cfg.networks, network)]
             /\ network # Empty /\ ~hasInvalidRune(network)
             /\ ~Monitored(network, cfg.networks)
    <3>1. ReadSoFar(Append(cfg.networks, network), (next - 1) + 1)
      BY <1>1, <1>2, <1>3, <1>4, <2>2, ReadNew
    <3>2. cfg'.networks = Append(cfg.networks, network)
      BY <1>1, <2>2 DEF CfgType
    <3> QED
      BY <1>1, <3>1, <3>2
  <2> QED
    BY <1>1, <1>5, <2>1, <2>2
<1>10. ResolvedInv' /\ ParsedInv'
  BY <1>6 DEF ResolvedInv, ParsedInv, Resolved, Parsing
<1>11. EndInv'
  <2>1. pc' = "rejected" => ~Sound
    <3> SUFFICES ASSUME pc' = "rejected" PROVE ~SoundNetworks
      BY <1>1 DEF Sound
    <3>1. Word(next) \in Broken /\ Word(next) # Blank
      BY <1>1, <1>3, <1>5
    <3>2. Word(next) \in Listed
      BY <1>1, <3>1, OptionTypes DEF Listed, Word
    <3> QED
      BY <3>1, <3>2 DEF SoundNetworks
  <2> QED
    BY <1>1, <1>6, <2>1, SoundKept DEF EndInv
<1> QED
  BY <1>7, <1>8, <1>9, <1>10, <1>11 DEF IInv

\* The end of ParseNetworks.
LEMMA ResolveDefaultInv ==
  ASSUME IInv, ResolveDefault
  PROVE  IInv'
<1> DEFINE requested == TrimSpace(opts.defaultNetwork)
           saltbox   == [word |-> Saltbox, pad |-> FALSE]
           names     == cfg.networks
           default   == IF requested # Empty THEN requested
                        ELSE IF Monitored(saltbox, names) THEN saltbox ELSE names[1]
           ok        == names # <<>> /\ (requested # Empty => Monitored(requested, names))
<1>1. /\ UNCHANGED <<opts, next>> /\ opts \in Options /\ cfg \in CfgType /\ pc = "networks"
      /\ next = Len(opts.networks) + 1 /\ next - 1 = Len(opts.networks)
  <2>1. /\ UNCHANGED <<opts, next>> /\ opts \in Options /\ cfg \in CfgType /\ pc = "networks"
        /\ next > Len(opts.networks) /\ next \in 1..(Len(opts.networks) + 1)
    BY DEF ResolveDefault, IInv, TypeInv
  <2> QED
    BY <2>1, OptionTypes
<1>2. /\ opts.command = "run" /\ ~(opts.defaultSet /\ opts.defaultNetwork.word = Blank)
      /\ ReadSoFar(names, Len(opts.networks))
  BY <1>1 DEF IInv, StageInv, ReadInv, Pipeline
<1>3. names \in Seq(Text) /\ \A k \in DOMAIN names : names[k] \in Text
  BY <1>1, LenProperties DEF CfgType
<1>4. /\ requested \in Text /\ ~requested.pad /\ requested.word = opts.defaultNetwork.word
      /\ (requested = Empty <=> opts.defaultNetwork.word = Blank)
      /\ saltbox \in Text /\ ~saltbox.pad /\ saltbox.word = Saltbox
  BY <1>1, OptionTypes, Texts, WordAssumption
<1>5. /\ Listed \cap Broken = {} /\ (names = <<>> <=> Listed = {})
      /\ (Monitored(requested, names) <=> opts.defaultNetwork.word \in Listed)
      /\ (Monitored(saltbox, names) <=> Saltbox \in Listed)
  BY <1>1, <1>2, <1>3, <1>4, ReadListed
<1>6. ok <=> SoundNetworks
  BY <1>2, <1>4, <1>5 DEF SoundNetworks
<1>7. \/ ok /\ pc' = "interval" /\ cfg' = [cfg EXCEPT !.defaultNetwork = default]
      \/ ~ok /\ pc' = "rejected" /\ UNCHANGED cfg
  BY DEF ResolveDefault
<1>8. names # <<>> => 1 \in DOMAIN names
  BY <1>3, LenProperties, EmptySeq
<1>9. ok => /\ default \in Text /\ Monitored(default, names)
            /\ opts.defaultNetwork.word # Blank => default.word = opts.defaultNetwork.word
            /\ opts.defaultNetwork.word = Blank /\ Saltbox \in Listed => default.word = Saltbox
            /\ opts.defaultNetwork.word = Blank /\ Saltbox \notin Listed => default = names[1]
  <2>1. CASE requested # Empty
    BY <1>4, <1>5, <2>1
  <2>2. CASE requested = Empty /\ Saltbox \in Listed
    BY <1>4, <1>5, <2>2
  <2>3. CASE requested = Empty /\ Saltbox \notin Listed
    <3>1. default = names[1]
      BY <1>5, <2>3
    <3>2. ok => names[1] \in Text /\ Monitored(names[1], names)
      BY <1>3, <1>8 DEF Monitored
    <3> QED
      BY <1>4, <2>3, <3>1, <3>2
  <2> QED
    BY <2>1, <2>2, <2>3
<1> HIDE DEF ok, default, requested, saltbox
<1>10. SameList /\ (ok => cfg'.defaultNetwork = default)
  BY <1>1, <1>7, <1>9 DEF SameList, CfgType
<1>11. TypeInv' /\ FixedInv' /\ ReadInv'
  BY <1>1, <1>7, <1>10, ListKept DEF Pipeline, Resolved, Parsing
<1>12. StageInv'
  BY <1>1, <1>2, <1>7 DEF StageInv, Pipeline, Resolved, Parsing
<1>13. ResolvedInv'
  <2> SUFFICES ASSUME pc' \in Resolved PROVE ResolvedInv'
    BY DEF ResolvedInv
  <2>1. ok /\ cfg'.defaultNetwork = default /\ cfg'.networks = names /\ opts' = opts
    BY <1>7, <1>10 DEF SameList, Resolved, Parsing
  <2>2. SoundNetworks' /\ Listed' = Listed
    BY <1>6, <2>1, SoundKept
  <2>3. DefaultAsWritten'
    BY <1>9, <2>1, <2>2 DEF DefaultAsWritten
  <2>4. Monitored(cfg.defaultNetwork, cfg.networks)'
    BY <1>9, <2>1 DEF Monitored
  <2>5. cfg'.networks # <<>>
    BY <2>1 DEF ok
  <2> QED
    BY <2>2, <2>3, <2>4, <2>5 DEF ResolvedInv
<1>14. ParsedInv'
  BY <1>7 DEF ParsedInv, Resolved, Parsing
<1>15. EndInv'
  <2>1. ~ok => ~Sound
    BY <1>2, <1>6 DEF Sound
  <2> QED
    BY <1>1, <1>7, <2>1, SoundKept DEF EndInv
<1> QED
  BY <1>11, <1>12, <1>13, <1>14, <1>15 DEF IInv

\* The three calls of ParseDuration.
LEMMA ParseInv ==
  ASSUME IInv, ParseInterval \/ ParseDebounceDelay \/ ParseMaxDebounceDelay
  PROVE  IInv'
<1>1. /\ UNCHANGED <<opts, next>> /\ opts \in Options /\ cfg \in CfgType /\ pc \in Parsing
  BY DEF ParseInterval, ParseDebounceDelay, ParseMaxDebounceDelay, IInv, TypeInv, Parsing
<1>2. /\ LegalDuration(opts.interval) /\ LegalDuration(opts.debounceDelay)
      /\ LegalDuration(opts.maxDebounceDelay) /\ opts.command = "run"
      /\ ~(opts.defaultSet /\ opts.defaultNetwork.word = Blank)
      /\ next = Len(opts.networks) + 1
  BY <1>1, OptionTypes DEF IInv, StageInv, Pipeline, Resolved, Parsing
<1>3. /\ ParseDuration(opts.interval).value \in Int
      /\ ParseDuration(opts.debounceDelay).value \in Int
      /\ ParseDuration(opts.maxDebounceDelay).value \in Int
  BY <1>2, ParseExact
<1>4. SameList /\ cfg'.defaultNetwork = cfg.defaultNetwork
  BY <1>1, <1>3 DEF ParseInterval, ParseDebounceDelay, ParseMaxDebounceDelay, SameList, CfgType
<1>5. \/ /\ pc = "interval" /\ Parsed(opts.interval, cfg'.interval) /\ pc' = "debounceDelay"
      \/ /\ pc = "debounceDelay" /\ cfg'.interval = cfg.interval
         /\ Parsed(opts.debounceDelay, cfg'.debounceDelay) /\ pc' = "maxDebounceDelay"
      \/ /\ pc = "maxDebounceDelay" /\ cfg'.interval = cfg.interval
         /\ cfg'.debounceDelay = cfg.debounceDelay
         /\ Parsed(opts.maxDebounceDelay, cfg'.maxDebounceDelay) /\ pc' = "validate"
      \/ pc' = "rejected" /\ ~SoundDurations
  <2>1. CASE ParseInterval
    <3>1. /\ pc = "interval" /\ cfg'.interval = ParseDuration(opts.interval).value
          /\ pc' = IF ParseDuration(opts.interval).ok THEN "debounceDelay" ELSE "rejected"
      BY <1>1, <2>1 DEF ParseInterval, Check, CfgType
    <3> QED
      BY <1>2, <3>1, ParseExact DEF Parsed, SoundDurations
  <2>2. CASE ParseDebounceDelay
    <3>1. /\ pc = "debounceDelay" /\ cfg'.interval = cfg.interval
          /\ cfg'.debounceDelay = ParseDuration(opts.debounceDelay).value
          /\ pc' = IF ParseDuration(opts.debounceDelay).ok THEN "maxDebounceDelay" ELSE "rejected"
      BY <1>1, <2>2 DEF ParseDebounceDelay, Check, CfgType
    <3> QED
      BY <1>2, <3>1, ParseExact DEF Parsed, SoundDurations
  <2>3. CASE ParseMaxDebounceDelay
    <3>1. /\ pc = "maxDebounceDelay" /\ cfg'.interval = cfg.interval
          /\ cfg'.debounceDelay = cfg.debounceDelay
          /\ cfg'.maxDebounceDelay = ParseDuration(opts.maxDebounceDelay).value
          /\ pc' = IF ParseDuration(opts.maxDebounceDelay).ok THEN "validate" ELSE "rejected"
      BY <1>1, <2>3 DEF ParseMaxDebounceDelay, Check, CfgType
    <3> QED
      BY <1>2, <3>1, ParseExact DEF Parsed, SoundDurations
  <2> QED
    BY <2>1, <2>2, <2>3
<1>6. TypeInv' /\ FixedInv' /\ ReadInv' /\ ResolvedInv'
  BY <1>1, <1>4, <1>5, ListKept, DefaultKept DEF Pipeline, Resolved, Parsing
<1>7. StageInv'
  BY <1>1, <1>2, <1>5 DEF StageInv, Pipeline, Resolved, Parsing
<1>8. ParsedInv'
  <2>1. opts' = opts
    BY <1>1
  <2> QED
    BY <1>5, <2>1 DEF IInv, ParsedInv, Parsed, Meaning, Resolved, Parsing
<1>9. EndInv'
  <2>1. pc' = "rejected" => ~Sound
    BY <1>2, <1>5 DEF Sound
  <2> QED
    BY <1>1, <1>5, <2>1, SoundKept DEF EndInv
<1> QED
  BY <1>6, <1>7, <1>8, <1>9 DEF IInv

\* What the parsers produced passes Validate exactly when the options are sound.
LEMMA ValidateExact ==
  ASSUME IInv, pc = "validate"
  PROVE  (Validate(cfg) <=> Sound) /\ (Validate(cfg) => validateConfig(cfg))
<1>1. /\ opts \in Options /\ cfg \in CfgType /\ opts.command = "run"
      /\ next = Len(opts.networks) + 1 /\ next - 1 = Len(opts.networks)
      /\ Len(opts.networks) \in 0..Len(opts.networks)
  <2>1. /\ opts \in Options /\ cfg \in CfgType /\ opts.command = "run"
        /\ next = Len(opts.networks) + 1
    BY DEF IInv, TypeInv, StageInv, Pipeline, Resolved, Parsing
  <2> QED
    BY <2>1, OptionTypes
<1>2. validateNetworks(cfg.networks, cfg.defaultNetwork) /\ SoundNetworks
  <2>1. ReadSoFar(cfg.networks, Len(opts.networks)) /\ cfg.networks \in Seq(Text)
    BY <1>1 DEF IInv, ReadInv, Pipeline, Resolved, CfgType
  <2>2. Distinct(cfg.networks) /\ \A k \in DOMAIN cfg.networks : Normalized(cfg.networks[k])
    BY <1>1, <2>1, ReadDistinct
  <2> QED
    BY <2>2 DEF IInv, ResolvedInv, Resolved, validateNetworks
<1>3. validateFileConfig(cfg.hostsFile, cfg.backupFile, cfg.sectionName) <=> SoundFiles
  <2>1. opts.hostsFile \in Paths /\ opts.backupFile \in Paths
    BY <1>1, OptionTypes
  <2> QED
    BY <2>1, FilesExact DEF IInv, FixedInv, SoundFiles
<1>4. (DelaysPositive(cfg) /\ cfg.maxDebounceDelay >= cfg.debounceDelay) <=> SoundDurations
  <2>1. /\ Parsed(opts.interval, cfg.interval) /\ Parsed(opts.debounceDelay, cfg.debounceDelay)
        /\ Parsed(opts.maxDebounceDelay, cfg.maxDebounceDelay)
    BY DEF IInv, ParsedInv, Resolved, Parsing
  <2> QED
    BY <2>1, WidthAssumption DEF Parsed, DelaysPositive, SoundDurations
<1>5. validateHealth(cfg) <=> SoundHealth
  <2>1. opts.healthAddr \in Text /\ cfg.healthAddr = TrimSpace(opts.healthAddr)
        /\ cfg.healthPort = opts.healthPort
    BY <1>1, OptionTypes DEF IInv, FixedInv
  <2>2. /\ cfg.healthAddr \in Text /\ cfg.healthAddr.word = opts.healthAddr.word
        /\ ~cfg.healthAddr.pad
    BY <2>1, Texts
  <2>3. TrimSpace(cfg.healthAddr) = cfg.healthAddr
    BY <2>2, Texts
  <2>4. opts.healthAddr.word \in Literals => cfg.healthAddr # Empty
    BY <2>2, Texts, WordAssumption
  <2>5. ASSUME SoundHealth PROVE validateHealth(cfg)
    BY <2>1, <2>2, <2>3, <2>4, <2>5 DEF validateHealth, SoundHealth
  <2>6. ASSUME validateHealth(cfg) PROVE SoundHealth
    BY <2>1, <2>2, <2>6 DEF validateHealth, SoundHealth
  <2> QED
    BY <2>5, <2>6
<1> QED
  BY <1>1, <1>2, <1>3, <1>4, <1>5 DEF Validate, validateConfig, Sound

\* The checks at the end, and the step of regenerate.
LEMMA EndStep ==
  ASSUME IInv, ValidateConfig \/ New \/ RegenerateConfig
  PROVE  IInv'
<1>1. UNCHANGED <<opts, next, cfg>> /\ opts \in Options /\ cfg \in CfgType
  BY DEF ValidateConfig, New, RegenerateConfig, IInv, TypeInv
<1>2. \/ pc = "validate" /\ pc' = "construct" /\ Sound /\ validateConfig(cfg)
      \/ pc = "construct" /\ pc' = "running" /\ Sound
      \/ pc = "regenerate" /\ pc' = "regenerating" /\ Sound
      \/ pc' = "rejected" /\ ~Sound
  <2>1. CASE ValidateConfig
    <3>1. pc = "validate" /\ pc' = IF Validate(cfg) THEN "construct" ELSE "rejected"
      BY <2>1 DEF ValidateConfig, Check
    <3> QED
      BY <3>1, ValidateExact
  <2>2. CASE New
    <3>1. pc = "construct" /\ pc' = IF validateConfig(cfg) THEN "running" ELSE "unconstructed"
      BY <2>2 DEF New
    <3> QED
      BY <3>1 DEF IInv, EndInv
  <2>3. CASE RegenerateConfig
    <3>1. /\ pc = "regenerate" /\ opts.command = "regenerate"
          /\ pc' = IF validateFileConfig(cfg.hostsFile, cfg.backupFile, cfg.sectionName)
                   THEN "regenerating" ELSE "rejected"
      BY <2>3 DEF RegenerateConfig, Check, IInv, StageInv
    <3>2. validateFileConfig(cfg.hostsFile, cfg.backupFile, cfg.sectionName) <=> SoundFiles
      <4>1. opts.hostsFile \in Paths /\ opts.backupFile \in Paths
        BY <1>1, OptionTypes
      <4> QED
        BY <4>1, FilesExact DEF IInv, FixedInv, SoundFiles
    <3> QED
      BY <3>1, <3>2 DEF Sound
  <2> QED
    BY <2>1, <2>2, <2>3
<1>3. SameList /\ cfg'.defaultNetwork = cfg.defaultNetwork
  BY <1>1 DEF SameList
<1>4. TypeInv' /\ FixedInv' /\ ReadInv' /\ ResolvedInv'
  BY <1>2, <1>3, ListKept, DefaultKept DEF Pipeline, Resolved, Parsing
<1>5. StageInv'
  BY <1>1, <1>2 DEF IInv, StageInv, Pipeline, Resolved, Parsing
<1>6. ParsedInv'
  BY <1>1, <1>2 DEF IInv, ParsedInv, Parsed, Meaning, Resolved, Parsing
<1>7. EndInv'
  <2>1. validateConfig(cfg) => validateConfig(cfg)'
    BY <1>1
  <2> QED
    BY <1>1, <1>2, <2>1, SoundKept DEF EndInv
<1> QED
  BY <1>4, <1>5, <1>6, <1>7 DEF IInv

\* Every step preserves the invariant.
LEMMA NextInv == IInv /\ [Next]_vars => IInv'
<1> SUFFICES ASSUME IInv, [Next]_vars PROVE IInv'
  OBVIOUS
<1>1. CASE UNCHANGED vars
  <2>1. UNCHANGED <<opts, pc, next, cfg>>
    BY <1>1 DEF vars
  <2>2. SameList /\ pc \in Pipeline \cup {"rejected", "regenerate", "regenerating"}
    BY <2>1 DEF IInv, TypeInv, SameList
  <2>3. TypeInv' /\ FixedInv' /\ ReadInv' /\ ResolvedInv'
    BY <2>1, <2>2, ListKept, DefaultKept
  <2>4. StageInv' /\ ParsedInv'
    BY <2>1 DEF IInv, StageInv, ParsedInv, Parsed, Meaning
  <2>5. EndInv'
    <3>1. validateConfig(cfg) => validateConfig(cfg)'
      BY <2>1
    <3> QED
      BY <2>1, <3>1, SoundKept DEF IInv, EndInv
  <2> QED
    BY <2>3, <2>4, <2>5 DEF IInv
<1> QED
  BY <1>1, CheckDefaultInv, ReadNetworkInv, ResolveDefaultInv, ParseInv, EndStep DEF Next

\* So it always holds.
LEMMA Invariance == Spec => []IInv
<1>1. Init => IInv
  BY InitInv
<1>2. IInv /\ [Next]_vars => IInv'
  BY NextInv
<1> QED
  BY <1>1, <1>2, PTL DEF Spec

-----------------------------------------------------------------------------
(***************************************************************************)
(* The pipeline of options.config and daemon.New accepts the sound options *)
(* and no others, and daemon.New never refuses what Validate accepted.     *)
(***************************************************************************)
THEOREM SoundIsAccepted == Spec => []AcceptsExactlySound
<1>1. IInv => AcceptsExactlySound
  <2> SUFFICES ASSUME IInv PROVE AcceptsExactlySound
    OBVIOUS
  <2>1. pc # "unconstructed"
    BY DEF IInv, TypeInv, Pipeline, Resolved, Parsing
  <2> QED
    BY <2>1 DEF IInv, EndInv, AcceptsExactlySound
<1> QED
  BY <1>1, Invariance, PTL

(***************************************************************************)
(* ParseDuration's product of days never wraps around: a running daemon    *)
(* has the durations that were written, positive and ordered.              *)
(***************************************************************************)
THEOREM DurationsAreExact == Spec => []DurationsExact
<1>1. IInv => DurationsExact
  <2> SUFFICES ASSUME IInv, pc = "running" PROVE DurationsExact
    BY DEF DurationsExact
  <2>1. /\ Parsed(opts.interval, cfg.interval) /\ Parsed(opts.debounceDelay, cfg.debounceDelay)
        /\ Parsed(opts.maxDebounceDelay, cfg.maxDebounceDelay)
    BY DEF IInv, ParsedInv, Resolved, Parsing
  <2>2. SoundDurations
    BY DEF IInv, EndInv, Sound, StageInv, Pipeline, Resolved
  <2> QED
    BY <2>1, <2>2, WidthAssumption DEF Parsed, SoundDurations, DurationsExact
<1> QED
  BY <1>1, Invariance, PTL

(***************************************************************************)
(* ParseNetworks: a running daemon monitors each listed network once, in   *)
(* the order of first mention, and its default is the one that was meant.  *)
(***************************************************************************)
THEOREM NetworksAreAsWritten == Spec => []NetworksAsWritten
<1>1. IInv => NetworksAsWritten
  <2> SUFFICES ASSUME IInv, pc = "running" PROVE NetworksAsWritten
    BY DEF NetworksAsWritten
  <2> DEFINE names == cfg.networks
             firsts == {i \in DOMAIN opts.networks : FirstMention(i)}
  <2>1. /\ opts \in Options /\ cfg \in CfgType /\ next = Len(opts.networks) + 1
        /\ ReadSoFar(names, next - 1) /\ DefaultAsWritten
    BY DEF IInv, TypeInv, StageInv, ReadInv, ResolvedInv, Pipeline, Resolved
  <2>2. ReadSoFar(names, Len(opts.networks)) /\ names \in Seq(Text)
    BY <2>1, OptionTypes DEF CfgType
  <2>3. {names[k].word : k \in DOMAIN names} = Listed
    BY <2>1, <2>2, ReadListed
  <2>4. \A k, l \in DOMAIN names : k < l =>
          \E i, j \in firsts : i < j /\ names[k].word = Word(i) /\ names[l].word = Word(j)
    <3> SUFFICES ASSUME NEW k \in DOMAIN names, NEW l \in DOMAIN names, k < l
                 PROVE  \E i, j \in firsts : /\ i < j /\ names[k].word = Word(i)
                                             /\ names[l].word = Word(j)
      OBVIOUS
    <3>1. PICK i, j \in 1..Len(opts.networks) :
            /\ i < j /\ FirstMention(i) /\ FirstMention(j)
            /\ names[k].word = Word(i) /\ names[l].word = Word(j)
      BY <2>2 DEF ReadSoFar
    <3>2. i \in firsts /\ j \in firsts
      BY <2>1, <3>1, OptionTypes
    <3> QED
      BY <3>1, <3>2
  <2> QED
    BY <2>1, <2>3, <2>4 DEF NetworksAsWritten, FirstMention, Word, DefaultAsWritten
<1> QED
  BY <1>1, Invariance, PTL
=============================================================================
