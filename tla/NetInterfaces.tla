--------------------------- MODULE NetInterfaces ---------------------------
(***************************************************************************)
(* openscreen's GetAllInterfaces on the BSDs,                              *)
(* patches/sources/openscreen_network_interface_bsd.cc: what getifaddrs    *)
(* lists, an entry per address, becomes a list of interfaces with their    *)
(* addresses and the lengths of their prefixes.                            *)
(***************************************************************************)
EXTENDS Resolver

CONSTANTS
  Width,     \* the bits of a byte, the highest first
  Media,     \* [names -> "wifi", "ethernet", "other", "inactive" or NULL]:
             \* what SIOCGIFMEDIA says of an interface, NULL when it fails
  Loopbacks  \* the names with IFF_LOOPBACK

ASSUME WidthAssumption == Width \in Nat \ {0}

(***************************************************************************)
(* ToPrefixLength; NULL when an OSP_CHECK fails                            *)
(***************************************************************************)

Byte == [1..Width -> {0, 1}]

\* How often the byte is shifted before its highest bit is zero.
Shifts(byte) == Min({b \in 0..Width : b = Width \/ byte[b + 1] = 0})

ToPrefixLength(netmask) ==
  LET size == Len(netmask)
      i == Min({j \in 0..size : j = size \/ \E b \in 1..Width : netmask[j + 1][b] = 0})
      ones == IF i < size THEN Shifts(netmask[i + 1]) ELSE 0
  IN IF /\ i < size => \A b \in ones + 1..Width : netmask[i + 1][b] = 0
        /\ \A j \in i + 2..size, b \in 1..Width : netmask[j][b] = 0
     THEN Width * i + ones
     ELSE NULL

\* The leading ones of a mask, when nothing but zeros follows them.
PrefixOf(netmask) ==
  LET lengths == {n \in 0..Width * Len(netmask) :
                    \A j \in DOMAIN netmask, b \in 1..Width :
                      netmask[j][b] = 1 <=> Width * (j - 1) + b <= n}
  IN IF lengths = {} THEN NULL ELSE Min(lengths)

(***************************************************************************)
(* GetAllInterfaces.  An entry has a name, whether IFF_RUNNING is set, the *)
(* family of its address (NULL without one), the address, its netmask and  *)
(* whether its IPv6 flags cannot be read or say deprecated.                *)
(***************************************************************************)

\* What the entry's interface is listed as; NULL when it is passed over.
TypeOf(name) ==
  CASE Media[name] = "inactive" -> NULL
    [] Media[name] \in {"wifi", "ethernet", "other"} -> Media[name]
    [] OTHER -> IF name \in Loopbacks THEN "loopback" ELSE NULL

AddAddress(info, cur) ==
  CASE cur.family = "link" -> [info EXCEPT !.hardware = cur.address]
    [] cur.family \in {"in", "in6"} /\ ~(cur.family = "in6" /\ cur.deprecated) ->
         [info EXCEPT !.addresses = Append(@, <<cur.address, ToPrefixLength(cur.netmask)>>)]
    [] OTHER -> info

AddEntry(results, cur) ==
  LET known == {i \in DOMAIN results : results[i].name = cur.name}
      new == [name |-> cur.name, type |-> TypeOf(cur.name), hardware |-> NULL, addresses |-> <<>>]
  IN CASE ~cur.running \/ cur.family = NULL -> results
       [] cur.running /\ cur.family # NULL /\ known # {} ->
            [i \in DOMAIN results |-> IF i \in known THEN AddAddress(results[i], cur) ELSE results[i]]
       [] OTHER -> IF TypeOf(cur.name) = NULL THEN results ELSE Append(results, AddAddress(new, cur))

\* The loop: what is listed after i entries.
AddEntries(entries) ==
  LET results[i \in 0..Len(entries)] == IF i = 0 THEN <<>> ELSE AddEntry(results[i - 1], entries[i])
  IN results

\* A failed OSP_CHECK ends the process: there is no list then, NULL.
Checked(results) ==
  IF \E i \in DOMAIN results : \E j \in DOMAIN results[i].addresses : results[i].addresses[j][2] = NULL
  THEN NULL
  ELSE results

GetAllInterfaces(entries) == Checked(AddEntries(entries)[Len(entries)])

(***************************************************************************)
(* What openscreen is to know: the interfaces that are up and active, in   *)
(* the order getifaddrs has them, each with its last hardware address and  *)
(* every address of it that is not deprecated.  There is no list where a   *)
(* mask of these is none.                                                  *)
(***************************************************************************)
Up(entries) ==
  {i \in DOMAIN entries : /\ entries[i].running /\ entries[i].family # NULL
                          /\ TypeOf(entries[i].name) # NULL}

Named(entries, name) == {i \in Up(entries) : entries[i].name = name}

Links(entries, name) == {i \in Named(entries, name) : entries[i].family = "link"}

Addresses(entries, name) ==
  {i \in Named(entries, name) : \/ entries[i].family = "in"
                                \/ entries[i].family = "in6" /\ ~entries[i].deprecated}

Firsts(entries) == {i \in Up(entries) : \A j \in Named(entries, entries[i].name) : i <= j}

InfoOf(entries, name) ==
  LET links == Links(entries, name)
      addresses == Addresses(entries, name)
  IN [name |-> name, type |-> TypeOf(name),
      hardware |-> IF links = {} THEN NULL ELSE entries[Max(links)].address,
      addresses |-> [r \in 1..Cardinality(addresses) |->
                       LET e == entries[Nth(addresses, r)] IN <<e.address, PrefixOf(e.netmask)>>]]

Interfaces(entries) ==
  [r \in 1..Cardinality(Firsts(entries)) |-> InfoOf(entries, entries[Nth(Firsts(entries), r)].name)]

============================================================================
