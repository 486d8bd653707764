---------------------------- MODULE MCLibcShims ----------------------------
(* The calls of LibcShims that TLC makes. *)
EXTENDS LibcShims

CONSTANTS r1, r2, r3

SomeChars == {"a", "b", ",", "=", "\n"}

SomeMedia ==
  [n \in {"em", "idle", "lo", "tun", "wlan"} |->
     CASE n = "em" -> "ethernet" [] n = "wlan" -> "wifi" [] n = "idle" -> "inactive" [] OTHER -> NULL]

Words(chars, most) == UNION {[1..n -> chars] : n \in 0..most}

Options(ndots, attempts, timeout) ==
  [kind |-> "options", whole |-> TRUE, ndots |-> ndots, attempts |-> attempts, timeout |-> timeout]

Nameserver(address) == [kind |-> "nameserver", whole |-> TRUE, address |-> address]

Search(list, length) == [kind |-> "search", whole |-> TRUE, list |-> list, length |-> length]

Lines ==
  { Options(16, NULL, 61), Options(0, 11, 29), [Options(2, 2, 2) EXCEPT !.whole = FALSE],
    Nameserver("a"), Nameserver("b"), Nameserver(NULL), [Nameserver("c") EXCEPT !.whole = FALSE],
    Search("s", 1), Search(NULL, 0), Search("long", 4) }

Entry(name, running, family, address, deprecated) ==
  [name |-> name, running |-> running, family |-> family, address |-> address,
   netmask |-> << <<1, 1>>, <<1, 0>> >>, deprecated |-> deprecated]

Entries ==
  { Entry("em", TRUE, "link", "m1", FALSE), Entry("em", TRUE, "link", "m2", FALSE),
    Entry("em", TRUE, "in", "a", FALSE), Entry("em", TRUE, "in6", "b", FALSE),
    Entry("em", TRUE, "in6", "c", TRUE), Entry("em", FALSE, "in", "d", FALSE),
    Entry("wlan", TRUE, NULL, "e", FALSE), Entry("wlan", TRUE, "in", "f", FALSE),
    Entry("lo", TRUE, "in", "g", FALSE), Entry("tun", TRUE, "in", "h", FALSE),
    Entry("idle", TRUE, "in", "i", FALSE),
    [Entry("em", TRUE, "in", "j", FALSE) EXCEPT !.netmask = << <<1, 0>>, <<0, 1>> >>],
    [Entry("idle", TRUE, "in", "k", FALSE) EXCEPT !.netmask = << <<0, 1>>, <<0, 0>> >>] }

SomeCalls ==
  [fn : {"fork"}]
  \cup [fn : {"resolvconf"}, android : {FALSE}, room : {0, 4},
      file : [error : {NULL}, lines : Words(Lines, 4)]]
  \cup [fn : {"resolvconf"}, android : {TRUE}, room : {4},
      file : [error : {NULL}, lines : Words(Lines, 1)]]
  \cup [fn : {"resolvconf"}, android : BOOLEAN, room : {4},
      file : [error : Absent \cup {"EIO"}, lines : {<<>>}]]
  \cup [fn : {"interfaces"}, entries : Words(Entries, 3)]
  \cup [fn : {"prefix"}, netmask : [1..3 -> [1..2 -> {0, 1}]]]
  \cup [fn : {"strlcpy"}, src : Words({"a", "b"}, 4), dsize : 0..5]
  \cup [fn : {"strlcat"}, src : Words({"a", "b"}, 3), dst : Words({"a", NUL}, 4)]
  \cup [fn : {"hasmntopt"}, opts : Words({"a", "b", ",", "="}, 5), opt : {<<"a">>, <<"a", "a">>, <<"a", "b">>}]
  \cup [fn : {"getline"}, stream : Words({"a", "\n"}, 6), n : 0..4, fails : BOOLEAN]
  \cup {c \in [fn : {"faccessat"}, flags : SUBSET {"AT_EACCESS", "AT_SYMLINK_NOFOLLOW"}, android : BOOLEAN,
               has2 : BOOLEAN, same : BOOLEAN, real : {"0", "EACCES"}, effective : {"0", "EACCES"},
               fails : {"none", "pipe2", "clone", "setregid"}] : c.same => c.real = c.effective}

============================================================================
