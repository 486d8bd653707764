------------------------------ MODULE CStrings ------------------------------
(***************************************************************************)
(* The string functions that misc/strl_compat.h and misc/host_compat.h     *)
(* supply where a libc has none.  A string is a sequence of characters     *)
(* without its NUL; a buffer is a sequence that NUL may occur in.  A loop  *)
(* that only advances is the first place where it stops.                   *)
(***************************************************************************)
EXTENDS Integers, SequencesExt

CONSTANTS Chars, \* the characters of strings
          NUL

Comma == ","
Equals == "="
Newline == "\n"

ASSUME NulAssumption == NUL \notin Chars

(***************************************************************************)
(* strlcpy, strlcat                                                        *)
(***************************************************************************)

\* Where the string that has its i-th character here has its NUL.
End(buf, i) == Min({j \in i..Len(buf) : buf[j] = NUL})

\* The loops leave src behind the last character they read.  The first one
\* copies until it has copied NUL, or until dst has room for one more only.
Strlcpy(src, dsize) ==
  LET osrc == Append(src, NUL)
      i == Min({j \in DOMAIN osrc : j = dsize \/ osrc[j] = NUL})
  IN CASE dsize = 0 -> [dst |-> <<>>, ret |-> End(osrc, 1) - 1]
       [] dsize # 0 /\ i = dsize ->
            [dst |-> Append(SubSeq(osrc, 1, i - 1), NUL), ret |-> End(osrc, i) - 1]
       [] OTHER -> [dst |-> SubSeq(osrc, 1, i), ret |-> i - 1]

\* dst is a buffer of dsize characters, with or without a NUL: dlen before it,
\* and n characters fit behind them.
Strlcat(dst, src) ==
  LET dsize == Len(dst)
      dlen == Min({i \in 0..dsize : i = dsize \/ dst[i + 1] = NUL})
      n == Min({Len(src), dsize - dlen - 1})
      joined == [i \in 1..dsize |-> CASE i \in dlen + 1..dlen + n -> src[i - dlen]
                                      [] i = dlen + n + 1 -> NUL
                                      [] OTHER -> dst[i]]
  IN [dst |-> IF dlen = dsize THEN dst ELSE joined, ret |-> dlen + Len(src)]

(***************************************************************************)
(* hasmntopt                                                               *)
(***************************************************************************)

At(s, i) == IF i \in DOMAIN s THEN s[i] ELSE NUL

\* strstr and strchr look from the i-th character.
Occurrences(s, t, i) == {p \in i..Len(s) - Len(t) + 1 : SubSeq(s, p, p + Len(t) - 1) = t}

Commas(s, i) == {p \in i..Len(s) : s[p] = Comma}

\* Where rest may be: at the first character, or behind a comma.
Rests(opts) == {1} \cup {p + 1 : p \in Commas(opts, 1)}

\* The loop, from rest on: the position of the option, or 0.
FindOption(opts, opt) ==
  LET find[rest \in Rests(opts)] ==
        LET hits == Occurrences(opts, opt, rest)
            p == Min(hits)
        IN CASE hits = {} -> 0
             [] hits # {} /\ (p = 1 \/ At(opts, p - 1) = Comma)
                /\ At(opts, p + Len(opt)) \in {NUL, Comma, Equals} -> p
             [] OTHER -> IF Commas(opts, p) = {} THEN 0 ELSE find[Min(Commas(opts, p)) + 1]
  IN find

Hasmntopt(opts, opt) == FindOption(opts, opt)[1]

(***************************************************************************)
(* getline, for a buffer of n bytes (0 when there is none).  The size a    *)
(* first buffer gets and the allocations that fail are parameters.         *)
(***************************************************************************)

\* Mutant: no room is kept for the NUL.
FullTight(pos, n) == pos >= n

\* The buffer has no room for one character more and the NUL.
Full(pos, n) == pos + 1 >= n

\* *n after pos characters: doubled for each that the buffer was full at.
Room(stream, n) ==
  LET room[pos \in 0..Len(stream)] ==
        IF pos = 0 THEN n
        ELSE IF Full(pos - 1, room[pos - 1]) THEN 2 * room[pos - 1] ELSE room[pos - 1]
  IN room

\* size is the buffer's real size beside the one *n gives, used what is read.
Getline(stream, n, first, fails) ==
  LET room == Room(stream, IF n = 0 THEN first ELSE n)
      Read(pos) == pos = Len(stream) \/ (pos > 0 /\ stream[pos] = Newline)
      pos == Min({i \in 0..Len(stream) : Read(i) \/ (fails /\ Full(i, room[i]))})
  IN CASE n = 0 /\ fails -> [ret |-> -1, n |-> first, size |-> 0, used |-> 0]
       [] ~(n = 0 /\ fails) /\ Read(pos) ->
            [ret |-> IF pos = 0 THEN -1 ELSE pos, n |-> room[pos], size |-> room[pos], used |-> pos]
       [] OTHER -> [ret |-> -1, n |-> 2 * room[pos], size |-> room[pos], used |-> pos + 1]

=============================================================================
