------------------------------ MODULE Resolver ------------------------------
(***************************************************************************)
(* __get_resolv_conf of the musl the SDK is built with                     *)
(* (network/resolvconf.c).  A line of /etc/resolv.conf is a record of what *)
(* the parser can tell about it; a number is NULL when its keyword is      *)
(* missing or has no digit after it, and a search list when it is empty.   *)
(***************************************************************************)
EXTENDS Integers, SequencesExt

CONSTANTS
  NULL,
  MAXNS  \* the name servers a struct resolvconf has room for

ASSUME MaxnsAssumption == MAXNS \in Nat \ {0}

Capped(x, most, old) == IF x = NULL THEN old ELSE IF x > most THEN most ELSE x

ReadOptions(conf, line) ==
  [conf EXCEPT !.ndots = Capped(line.ndots, 15, @),
               !.attempts = Capped(line.attempts, 10, @),
               !.timeout = Capped(line.timeout, 60, @)]

\* Mutant: the bound is looked at after the name server is stored.
ReadNameserverPast(conf, line) ==
  IF Len(conf.ns) > MAXNS \/ line.address = NULL
  THEN conf
  ELSE [conf EXCEPT !.ns = Append(@, line.address)]

\* An address that is no literal leaves its place to the next one.
ReadNameserver(conf, line) ==
  IF Len(conf.ns) >= MAXNS \/ line.address = NULL
  THEN conf
  ELSE [conf EXCEPT !.ns = Append(@, line.address)]

\* room is the size of the caller's buffer for the list, and 0 of a caller
\* that gives none.
ReadSearch(conf, line, room) ==
  IF line.length < room THEN [conf EXCEPT !.search = line.list] ELSE conf

ReadLine(conf, line, room) ==
  CASE ~line.whole -> conf
    [] line.whole /\ line.kind = "options" -> ReadOptions(conf, line)
    [] line.whole /\ line.kind = "nameserver" -> ReadNameserver(conf, line)
    [] line.whole /\ line.kind = "search" -> ReadSearch(conf, line, room)
    [] OTHER -> conf

Defaults == [ns |-> <<>>, ndots |-> 1, timeout |-> 5, attempts |-> 2, search |-> NULL]

\* A file has its lines and the error of fopen; there is none without one.
Absent == {"ENOENT", "ENOTDIR", "EACCES"}

\* The loop: what is known after i lines.
ReadLines(lines, room) ==
  LET conf[i \in 0..Len(lines)] == IF i = 0 THEN Defaults ELSE ReadLine(conf[i - 1], lines[i], room)
  IN conf

GetResolvConf(android, file, room) ==
  LET conf == ReadLines(file.lines, room)[Len(file.lines)]
  IN CASE android -> [Defaults EXCEPT !.ns = <<"8.8.8.8", "1.1.1.1">>]
       [] ~android /\ file.error \notin Absent \cup {NULL} -> NULL
       [] OTHER -> IF conf.ns = <<>> THEN [conf EXCEPT !.ns = <<"127.0.0.1">>] ELSE conf

(***************************************************************************)
(* What the same file says, read as a whole: the last number of each       *)
(* option, the first name servers, the last search list there is room for. *)
(* A line that does not fit fgets's buffer says nothing: that is musl's    *)
(* decision, and no manual's.                                              *)
(***************************************************************************)

\* The r-th of a set of places.
Rank(places, i) == Cardinality({j \in places : j <= i})
Nth(places, r) == Min({i \in places : Rank(places, i) = r})

\* The lines of that kind with something in the field.
Given(lines, kind, field) ==
  {i \in DOMAIN lines : lines[i].whole /\ lines[i].kind = kind /\ lines[i][field] # NULL}

\* The search lists that fit into the caller's buffer.
Fitting(lines, room) ==
  {i \in DOMAIN lines : lines[i].whole /\ lines[i].kind = "search" /\ lines[i].length < room}

\* What the last line of a set of places says.
LastOf(lines, places, field, default) == IF places = {} THEN default ELSE lines[Max(places)][field]

\* The last number an option is given.
Option(lines, field, default) == LastOf(lines, Given(lines, "options", field), field, default)

AtMost(x, most) == IF x > most THEN most ELSE x

ResolvConf(file, room) ==
  LET lines == file.lines
      servers == Given(lines, "nameserver", "address")
  IN [ns |-> IF servers = {} THEN <<"127.0.0.1">>
             ELSE [r \in 1..AtMost(Cardinality(servers), MAXNS) |-> lines[Nth(servers, r)].address],
      ndots |-> Option(lines, "ndots", 1),
      timeout |-> Option(lines, "timeout", 5),
      attempts |-> Option(lines, "attempts", 2),
      search |-> LastOf(lines, Fitting(lines, room), "list", NULL)]

\* Numbers past the limits of resolv.conf(5), 15, 30 and 5, are as good as
\* those limits.  musl's own are not lower.
Limited(conf) ==
  [ns |-> conf.ns, ndots |-> AtMost(conf.ndots, 15), timeout |-> AtMost(conf.timeout, 30),
   attempts |-> AtMost(conf.attempts, 5), search |-> conf.search]

=============================================================================
