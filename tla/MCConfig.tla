------------------------------ MODULE MCConfig ------------------------------
(***************************************************************************)
(* Config with lists of up to four networks, and with durations around the *)
(* largest day count of a 7-bit signed integer and a day of ten.           *)
(***************************************************************************)
EXTENDS Config

MCClean == [p \in Paths |-> CASE p \in {"/h", "/./h"} -> "/h" [] p \in {"", "."} -> "."
                              [] p \in {" ", "./ "} -> " " [] OTHER -> p]

Str(w)  == [word |-> w, pad |-> FALSE]
Days(n) == [kind |-> "days", value |-> n]
Go(n)   == [kind |-> "go", value |-> n]

Default == [command |-> "run", networks |-> <<Str("saltbox")>>,
            defaultNetwork |-> Str(""), defaultSet |-> FALSE,
            interval |-> Go(5), debounceDelay |-> Go(1), maxDebounceDelay |-> Go(5),
            hostsFile |-> "/h", backupFile |-> "/b", sectionName |-> "line",
            healthAddr |-> Str("127.0.0.1"), healthPort |-> 8080]

Names == {"", "saltbox", "web", "bad#"}
Lists == {<<>>} \cup UNION {[1..n -> {Str(w) : w \in Names} \cup {[word |-> "web", pad |-> TRUE],
                                                     [word |-> "db", pad |-> TRUE]}] : n \in 1..4}

NetworkOptions ==
  {[Default EXCEPT !.networks = l, !.defaultNetwork = d, !.defaultSet = s] :
     l \in Lists, d \in {Str(""), [word |-> "", pad |-> TRUE], [word |-> "web", pad |-> TRUE]},
     s \in BOOLEAN}

Durations == {Go(n) : n \in {-64, 0, 1, 60, 63}} \cup {Days(n) : n \in {0, 1, 6, 7, 12, 13, 25, 26}}
             \cup {[kind |-> "other", value |-> 3]}

DurationOptions ==
  {[Default EXCEPT !.interval = i, !.debounceDelay = d, !.maxDebounceDelay = m] :
     i, d, m \in Durations}

FileOptions ==
  {[Default EXCEPT !.command = c, !.hostsFile = h, !.backupFile = b, !.sectionName = s] :
     c \in {"run", "regenerate"}, h, b \in Paths, s \in {"line", "lines", "blank"}}

HealthOptions ==
  {[Default EXCEPT !.healthAddr = [word |-> w, pad |-> p], !.healthPort = n] :
     w \in {"", "127.0.0.1", "web"}, p \in BOOLEAN, n \in {-1, 0, 1, 65535, 65536}}

MCOptions == NetworkOptions \cup DurationOptions \cup FileOptions \cup HealthOptions
=============================================================================
