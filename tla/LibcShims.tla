----------------------------- MODULE LibcShims -----------------------------
(***************************************************************************)
(* The functions that stand in for those of a libc or a kernel: a program  *)
(* that makes one call of a pure one, or that lives with the emulated      *)
(* MADV_WIPEONFORK.  faccessat is here, the others have their modules.     *)
(***************************************************************************)
EXTENDS NetInterfaces, CStrings, WipeOnFork

CONSTANTS Calls, \* the calls made: records with fn and the arguments
          First  \* the size getline's first buffer gets

IsSeq(s) == s \in Seq(Range(s))

\* The names of options, without the characters that separate them.
Names == Seq(Chars \ {Comma, Equals}) \ {<<>>}

\* What the callers of the C functions give them: strings, buffers and sizes;
\* what getifaddrs gives with an IP address: a netmask of bytes.  An option is
\* a number.
\* A file says the same to the real and the effective ids if they are the same.
ASSUME CallsAssumption ==
  /\ First \in Nat \ {0}
  /\ \A c \in Calls :
       /\ c.fn = "resolvconf" =>
            /\ IsSeq(c.file.lines)
            /\ \A line \in Range(c.file.lines) :
                 line.kind = "options" =>
                   \A x \in {line.ndots, line.timeout, line.attempts} : x = NULL \/ x \in Nat
       /\ c.fn = "interfaces" =>
            IsSeq(c.entries) /\ \A e \in Range(c.entries) : e.family \in {"in", "in6"} => e.netmask \in Seq(Byte)
       /\ c.fn = "prefix" => c.netmask \in Seq(Byte)
       /\ c.fn = "strlcpy" => c.src \in Seq(Chars) /\ c.dsize \in Nat
       /\ c.fn = "strlcat" => c.src \in Seq(Chars) /\ c.dst \in Seq(Chars \cup {NUL})
       /\ c.fn = "hasmntopt" => c.opts \in Seq(Chars) /\ c.opt \in Names
       /\ c.fn = "getline" => c.stream \in Seq(Chars \cup {NUL}) /\ c.n \in Nat /\ c.fails \in BOOLEAN
       /\ c.fn = "faccessat" => c.android \in BOOLEAN /\ (c.same => c.real = c.effective)

VARIABLES call, returned, result

vars == <<call, returned, result, wipeVars>>

(***************************************************************************)
(* musl's faccessat, unistd/faccessat.c.  A call has the flags, whether    *)
(* ANDROID_DATA is set, whether the kernel has faccessat2, whether the     *)
(* real and effective ids are the same, what the file says to each of      *)
(* them, and what fails: pipe2, clone or the child's setregid.             *)
(***************************************************************************)

\* The child's answer: under Android the ids are left as they are.
Checker(c) ==
  IF ~c.android /\ c.fails = "setregid" THEN "EBUSY" ELSE IF c.android THEN c.real ELSE c.effective

Faccessat(c) ==
  CASE ~c.android /\ c.flags # {} /\ c.has2 -> IF "AT_EACCESS" \in c.flags THEN c.effective ELSE c.real
    [] (c.android \/ c.flags = {} \/ ~c.has2) /\ c.flags \ {"AT_EACCESS"} # {} -> "EINVAL"
    [] c.flags = {} \/ (c.flags = {"AT_EACCESS"} /\ c.same /\ (c.android \/ ~c.has2)) -> c.real
    [] OTHER -> IF c.fails \in {"pipe2", "clone"} THEN "EBUSY" ELSE Checker(c)

(***************************************************************************)
(* Specification                                                           *)
(***************************************************************************)
Answer(c) ==
  CASE c.fn = "resolvconf" -> GetResolvConf(c.android, c.file, c.room)
    [] c.fn = "interfaces" -> GetAllInterfaces(c.entries)
    [] c.fn = "prefix" -> ToPrefixLength(c.netmask)
    [] c.fn = "strlcpy" -> Strlcpy(c.src, c.dsize)
    [] c.fn = "strlcat" -> Strlcat(c.dst, c.src)
    [] c.fn = "hasmntopt" -> Hasmntopt(c.opts, c.opt)
    [] c.fn = "getline" -> Getline(c.stream, c.n, First, c.fails)
    [] c.fn = "faccessat" -> Faccessat(c)

Init ==
  /\ call \in Calls
  /\ returned = FALSE /\ result = NULL
  /\ WipeInit

Return ==
  /\ call.fn # "fork" /\ ~returned
  /\ returned' = TRUE
  /\ result' = Answer(call)
  /\ UNCHANGED <<call, wipeVars>>

Live == call.fn = "fork" /\ WipeNext /\ UNCHANGED <<call, returned, result>>

Next == Return \/ Live

Spec == Init /\ [][Next]_vars

(***************************************************************************)
(* Properties                                                              *)
(***************************************************************************)
Returned(fn) == call.fn = fn /\ returned

\* musl's resolver and openscreen learn of the network what is configured:
\* the resolver, off Android, what the whole file says, whatever the order of
\* its lines and however many there are, and its options as far as the limits
\* of resolv.conf(5) go; openscreen the active interfaces with their addresses
\* and prefixes, and no interface twice, unless a mask stops it.
NetworkAsConfigured ==
  /\ Returned("resolvconf") /\ ~call.android /\ result # NULL =>
       Limited(result) = Limited(ResolvConf(call.file, call.room))
  /\ Returned("interfaces") => result = Checked(Interfaces(call.entries))
  /\ Returned("prefix") => result = PrefixOf(call.netmask)

\* The first line of a stream, with its newline.
FirstLine(stream) ==
  LET ends == {i \in DOMAIN stream : stream[i] = Newline}
  IN IF ends = {} THEN stream ELSE SubSeq(stream, 1, Min(ends))

\* The options of a mount entry: where each begins, up to its = or comma.
OptionStarts(opts) == {i \in 1..Len(opts) : i = 1 \/ opts[i - 1] = Comma}

OptionAt(opts, i) ==
  LET ends == {j \in i..Len(opts) : opts[j] \in {Comma, Equals}}
  IN SubSeq(opts, i, IF ends = {} THEN Len(opts) ELSE Min(ends) - 1)

\* The calls do what their manual pages say: strlcpy and strlcat fill the
\* buffer as far as it goes, end it with NUL (strlcat leaves one alone that
\* has none) and say how long the whole would be; hasmntopt finds the first
\* option of that name and not a part of another; getline returns the line
\* with room for its NUL in a buffer of the size it reports, or -1 if it
\* cannot grow it; faccessat answers for the ids it is asked about (on
\* Android only where they do not differ), or fails.
CallsAgree ==
  /\ Returned("strlcpy") =>
       LET n == AtMost(Len(call.src), call.dsize - 1)
       IN /\ result.ret = Len(call.src)
          /\ result.dst = IF call.dsize = 0 THEN <<>> ELSE Append(SubSeq(call.src, 1, n), NUL)
  /\ Returned("strlcat") =>
       LET ends == {i \in DOMAIN call.dst : call.dst[i] = NUL}
           dlen == IF ends = {} THEN Len(call.dst) ELSE Min(ends) - 1
           whole == SubSeq(call.dst, 1, dlen) \o call.src
           n == AtMost(Len(whole), Len(call.dst) - 1)
       IN /\ result.ret = Len(whole)
          /\ Len(result.dst) = Len(call.dst)
          /\ IF ends = {} THEN result.dst = call.dst
             ELSE SubSeq(result.dst, 1, n + 1) = Append(SubSeq(whole, 1, n), NUL)
  /\ Returned("hasmntopt") =>
       LET at == {i \in OptionStarts(call.opts) : OptionAt(call.opts, i) = call.opt}
       IN IF at = {} THEN result = 0 ELSE result \in at /\ \A i \in at : result <= i
  /\ Returned("getline") =>
       LET line == FirstLine(call.stream)
       IN \/ call.fails /\ result.ret = -1
          \/ line = <<>> /\ result.ret = -1
          \/ result.ret = Len(line) /\ result.used = Len(line)
             /\ Len(line) < result.size /\ result.size = result.n
  /\ Returned("faccessat") =>
       \/ result = IF "AT_EACCESS" \in call.flags THEN call.effective ELSE call.real
       \/ call.flags \ {"AT_EACCESS"} # {} /\ result = "EINVAL"
       \/ call.fails # "none" /\ result = "EBUSY"
       \/ call.android /\ ~call.same

=============================================================================
