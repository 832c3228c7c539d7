------------------------------ MODULE BString ------------------------------
(***************************************************************************)
(* The string library (src/myriad/bstring/bstrlib.c): a bstring is a       *)
(* buffer of mlen cells of which the first slen are the string, and a      *)
(* terminator follows them.  Every function works in place on that buffer, *)
(* grows it through balloc, and must cope with arguments that share it.    *)
(*                                                                         *)
(* Cells nobody has written hold JUNK.  A store past the buffer adds a     *)
(* cell to `data' that the buffer does not have, so it is there to be      *)
(* seen.  `mem' says whether the allocator serves this call.               *)
(***************************************************************************)
EXTENDS Integers, Sequences, FiniteSets, SequencesExt

CONSTANTS
    Names,          \* the bstring variables of the callers
    Chars,          \* the characters texts are made of
    Spaces,         \* those of them wspace() accepts
    FILL,           \* the fill character callers pass
    Texts,          \* the C strings, blocks and file contents callers pass
    Positions,      \* the offsets callers pass
    Lengths,        \* the lengths callers pass
    MIN_SIZE,       \* 8 in snapUpSize
    INT_BITS,       \* the width of int
    START_VSNBUFF,  \* 16, the first size bformata tries
    READ_STEP,      \* 16, the first size breada tries
    BS_BUFF_SZ,     \* 1024, the largest step of breada
    MaxLen,         \* bound: no call makes a longer string
    MaxCalls        \* bound: calls in a behaviour

VARIABLES str,      \* [Names -> bstrings], NULL where there is none
          call,     \* the last call and what it returned
          torn,     \* strings a failed bcatcstr left without a terminator
          calls     \* how many calls have been made

vars == <<str, call, torn, calls>>

NUL  == "nul"
JUNK == "junk"

(* bdestroy's parting marks. *)
NULL == [mlen |-> -1, slen |-> -1, data |-> <<>>]

-----------------------------------------------------------------------------
(* Memory *)

Fresh(m) == [mlen |-> m, slen |-> 0, data |-> [i \in 0 .. m - 1 |-> JUNK]]

(* The n cells from offset `at' on; what lies outside the buffer is junk. *)
Block(b, at, n) ==
    [i \in 1 .. n |-> IF at + i - 1 \in DOMAIN b.data THEN b.data[at + i - 1]
                                                      ELSE JUNK]

Put(b, at, cells) ==
    LET to == at .. at + Len(cells) - 1
    IN  [b EXCEPT !.data = [i \in DOMAIN @ \union to |->
                               IF i \in to THEN cells[i - at + 1] ELSE @[i]]]

(* b->slen = n; b->data[n] = '\0' *)
End(b, n) == Put([b EXCEPT !.slen = n], n, <<NUL>>)

Content(b) == Block(b, 0, b.slen)

Fills(n) == [i \in 1 .. n |-> FILL]

Ok(b)  == [ret |-> "ok", b |-> b]
Err(b) == [ret |-> "err", b |-> b]

(* The least power of two greater than i, or i when that is no int. *)
snapUpSize(i) ==
    LET greater == {p \in {2 ^ k : k \in 0 .. INT_BITS - 2} : p > i}
    IN  IF i < MIN_SIZE THEN MIN_SIZE
        ELSE IF greater = {} THEN i ELSE Min(greater)

Roomy(b, len) == len < b.mlen \/ snapUpSize(len) <= b.mlen

balloc_fails(b, len, mem) == len <= 0 \/ (~Roomy(b, len) /\ ~mem)

balloc(b, len) ==
    IF Roomy(b, len) THEN b
    ELSE End(Put(Fresh(snapUpSize(len)), 0, Content(b)), b.slen)

(* A function that starts by making room for len cells. *)
Grown(b, len, mem, Then(_)) ==
    IF balloc_fails(b, len, mem) THEN Err(b) ELSE Ok(Then(balloc(b, len)))

(* bstrcpy of an argument that shares the destination's buffer. *)
AliasFails(same, mem) == same /\ ~mem

-----------------------------------------------------------------------------
(* Making strings *)

Made(m, s) == End(Put(Fresh(m), 0, s), Len(s))

bfromcstr(s) == Made(snapUpSize(IF s = <<>> THEN 2 ELSE Len(s) + 1), s)

bfromcstralloc(m, s) ==
    Made(Max({m, snapUpSize(IF s = <<>> THEN 2 ELSE Len(s) + 1)}), s)

blk2bstr(s) == Made(snapUpSize(IF s = <<>> THEN 2 ELSE Len(s) + 1), s)

(* The second attempt asks for the bare minimum. *)
bstrcpy(b, snug) ==
    Made(IF snug THEN b.slen + 1 ELSE snapUpSize(b.slen + 1), Content(b))

bmidstr(b, left, len) ==
    LET from == Max({left, 0})
        n    == Min({len + Min({left, 0}), b.slen - from})
    IN  IF n <= 0 THEN bfromcstr(<<>>) ELSE blk2bstr(Block(b, from, n))

-----------------------------------------------------------------------------
(* Appending *)

bconcat(b0, b1, same, mem) ==
    LET d   == b0.slen
        len == b1.slen
        r   == IF b0.mlen <= d + len + 1 THEN balloc(b0, d + len + 1) ELSE b0
    IN  IF b0.mlen <= d + len + 1 /\ (AliasFails(same, mem)
                                      \/ balloc_fails(b0, d + len + 1, mem))
        THEN Err(b0)
        ELSE Ok(End(Put(r, d, Content(b1)), d + len))

bconchar(b, c, mem) ==
    Grown(b, b.slen + 2, mem, LAMBDA r : End(Put(r, b.slen, c), b.slen + 1))

(* The tail goes through bconcat, which may fail after the buffer has been  *)
(* filled to the brim.                                                      *)
bcatcstr(b, s, mem) ==
    LET l    == b.mlen - b.slen
        full == [Put(b, b.slen, SubSeq(s, 1, l)) EXCEPT !.slen = b.mlen]
    IN  IF Len(s) < l THEN Ok(End(Put(b, b.slen, s), b.slen + Len(s)))
        ELSE bconcat(full, Made(Len(s) + 1, SubSeq(s, l + 1, Len(s))), FALSE, mem)

bcatblk(b, s, mem) ==
    LET nl == b.slen + Len(s)
    IN  IF nl < b.mlen THEN Ok(End(Put(b, b.slen, s), nl))
        ELSE bconcat(b, Made(Len(s) + 1, s), FALSE, mem)

(* The buffer of vsnprintf, enlarged until the output leaves a cell over. *)
RECURSIVE Formatted(_, _, _)
Formatted(buff, n, out) ==
    LET l == Min({Len(out), n})
        w == Put(Put(buff, 0, SubSeq(out, 1, l) \o <<NUL>>), n, <<NUL>>)
        m == IF Len(out) > n THEN Len(out) ELSE n + n
    IN  IF l < n THEN [w EXCEPT !.slen = l]
        ELSE Formatted(balloc([w EXCEPT !.slen = l], m + 2), m, out)

(* The second attempt starts with a buffer for one character. *)
bformat(out, snug) ==
    LET n == IF snug THEN 1 ELSE START_VSNBUFF
    IN  Formatted(bfromcstralloc(n + 2, <<>>), n, out)

bformata(b, out, snug, mem) ==
    IF ~mem THEN Err(b) ELSE bconcat(b, bformat(out, snug), FALSE, mem)

(* The file is read into the room behind the string, n - i cells at a time. *)
RECURSIVE Reading(_, _, _)
Reading(b, n, file) ==
    LET i    == b.slen
        room == balloc(b, n + 1)
        l    == Min({Len(file), n - i})
        got  == [Put(room, i, SubSeq(file, 1, l)) EXCEPT !.slen = i + l]
    IN  IF i + l < n THEN End(got, i + l)
        ELSE Reading(got, n + Min({n, BS_BUFF_SZ}), SubSeq(file, l + 1, Len(file)))

breada(b, file) == Reading(b, b.slen + READ_STEP, file)

bread(file) == breada(bfromcstr(<<>>), file)

-----------------------------------------------------------------------------
(* Changing strings in place *)

bassign(a, b, mem) ==
    IF b.slen = 0 THEN Ok(End(a, 0))
    ELSE Grown(a, b.slen, mem, LAMBDA r : End(Put(r, 0, Content(b)), b.slen))

bassignmidstr(a, b, left, len, mem) ==
    LET from == Max({left, 0})
        n    == Min({len + Min({left, 0}), b.slen - from})
    IN  IF n <= 0 THEN Ok(End(a, 0))
        ELSE Grown(a, n, mem, LAMBDA r : End(Put(r, 0, Block(b, from, n)), n))

btrunc(b, n) ==
    IF n < 0 THEN Err(b) ELSE Ok(IF b.slen > n THEN End(b, n) ELSE b)

bdelete(b, at, n) ==
    LET pos == Max({at, 0})
        len == n + Min({at, 0})
    IN  IF len < 0 THEN Err(b)
        ELSE IF len = 0 \/ pos >= b.slen THEN Ok(b)
        ELSE IF pos + len >= b.slen THEN Ok(End(b, pos))
        ELSE Ok(End(Put(b, pos, Block(b, pos + len, b.slen - (pos + len))),
                    b.slen - len))

(* The offsets below slen that are no white space. *)
Solid(b) == {i \in 0 .. b.slen - 1 : b.data[i] \notin Spaces}

bltrimws(b) == IF Solid(b) = {} THEN Ok(End(b, 0)) ELSE bdelete(b, 0, Min(Solid(b)))

brtrimws(b) == Ok(End(b, IF Solid(b) = {} THEN 0 ELSE Max(Solid(b)) + 1))

btrimws(b) ==
    IF Solid(b) = {} THEN Ok(End(b, 0))
    ELSE bdelete(End(b, Max(Solid(b)) + 1), 0, Min(Solid(b)))

(* aux is b1's content, copied first when b1 shares b0's buffer. *)
bsetstr(b0, pos, b1, same, mem) ==
    LET d        == pos + b1.slen
        filled(r) == Put(r, r.slen, Fills(pos - r.slen))
    IN  IF pos < 0 \/ AliasFails(same, mem) THEN Err(b0)
        ELSE Grown(b0, d + 1, mem,
                   LAMBDA r : End(Put(filled(r), pos, Content(b1)),
                                  Max({d, r.slen})))

(* Mutant: no private copy of b2, whose slen then grows with b1's. *)
binsert_Unaliased(b1, pos, b2, same, mem) ==
    LET d    == b1.slen + b2.slen
        l    == pos + b2.slen
        past(r) == Put([r EXCEPT !.slen = l], r.slen, Fills(pos - r.slen))
        amid(r) == Put([r EXCEPT !.slen = d], l, Block(r, pos, d - l))
    IN  IF pos < 0 THEN Err(b1)
        ELSE Grown(b1, Max({l, d}) + 1, mem,
                   LAMBDA r : LET s == IF l > d THEN past(r) ELSE amid(r)
                              IN  End(Put(s, pos, Content(IF same THEN s ELSE b2)),
                                      s.slen))

binsert(b1, pos, b2, same, mem) ==
    LET aux  == Content(b2)
        d    == b1.slen + b2.slen
        l    == pos + b2.slen
        past(r) == Put([r EXCEPT !.slen = l], r.slen, Fills(pos - r.slen))
        amid(r) == Put([r EXCEPT !.slen = d], l, Block(r, pos, d - l))
    IN  IF pos < 0 \/ AliasFails(same, mem) THEN Err(b1)
        ELSE Grown(b1, Max({l, d}) + 1, mem,
                   LAMBDA r : LET s == IF l > d THEN past(r) ELSE amid(r)
                              IN  End(Put(s, pos, aux), s.slen))

binsertch(b, pos, len, mem) ==
    LET d == b.slen + len
        l == pos + len
        past(r) == Put(r, r.slen, Fills(l - r.slen))
        amid(r) == Put(Put(r, l, Block(r, pos, d - l)), pos, Fills(len))
    IN  IF pos < 0 \/ len < 0 THEN Err(b)
        ELSE Grown(b, Max({l, d}) + 1, mem,
                   LAMBDA r : End(IF l > d THEN past(r) ELSE amid(r), Max({l, d})))

(* Mutant: b2 is copied in before the tail has moved out of its way. *)
breplace_CopiesFirst(b1, pos, len, b2, same, mem) ==
    LET set  == bsetstr(b1, pos, b2, same, mem)
        n    == b1.slen + b2.slen - len
        r    == Put(IF b2.slen > len THEN balloc(b1, n) ELSE b1, pos, Content(b2))
        tail == Block(r, pos + len, b1.slen - (pos + len))
    IN  IF pos < 0 \/ len < 0 THEN Err(b1)
        ELSE IF pos + len >= b1.slen
        THEN IF set.ret = "ok" THEN Ok(End(set.b, pos + b2.slen)) ELSE set
        ELSE IF AliasFails(same, mem)
                \/ (b2.slen > len /\ balloc_fails(b1, n, mem)) THEN Err(b1)
        ELSE Ok(End(Put(r, pos + b2.slen, tail), n))

(* In the first branch b2->slen is read after bsetstr, which has changed it  *)
(* when b2 is b1.                                                            *)
breplace(b1, pos, len, b2, same, mem) ==
    LET set  == bsetstr(b1, pos, b2, same, mem)
        end  == pos + (IF same THEN set.b.slen ELSE b2.slen)
        n    == b1.slen + b2.slen - len
        r    == IF b2.slen > len THEN balloc(b1, n) ELSE b1
        tail == Block(b1, pos + len, b1.slen - (pos + len))
    IN  IF pos < 0 \/ len < 0 THEN Err(b1)
        ELSE IF pos + len >= b1.slen
        THEN IF set.ret = "ok" /\ end < set.b.slen THEN Ok(End(set.b, end)) ELSE set
        ELSE IF AliasFails(same, mem)
                \/ (b2.slen > len /\ balloc_fails(b1, n, mem)) THEN Err(b1)
        ELSE Ok(End(Put(Put(r, pos + b2.slen, tail), pos, Content(b2)), n))

bpattern(b, len, mem) ==
    LET d == b.slen
    IN  IF d <= 0 \/ len < 0 THEN Err(b)
        ELSE Grown(b, len + 1, mem,
                   LAMBDA r : End(Put(r, d, [i \in 1 .. len - d |->
                                                r.data[(d + i - 1) % d]]), len))

-----------------------------------------------------------------------------
(* Finding and replacing *)

binstr(b, pos, f) == {i \in pos .. b.slen - Len(f) : Block(b, i, Len(f)) = f}

(* delta = 0: the occurrences are overwritten where they stand. *)
RECURSIVE Overwritten(_, _, _, _)
Overwritten(b, pos, f, r) ==
    LET at == binstr(b, pos, f)
    IN  IF at = {} THEN b
        ELSE Overwritten(Put(b, Min(at), r), Min(at) + Len(f), f, r)

(* delta > 0: what lies between two occurrences moves back by acc. *)
RECURSIVE Shrunk(_, _, _, _, _)
Shrunk(b, pos, acc, f, r) ==
    LET at  == binstr(b, pos, f)
        i   == IF at = {} THEN b.slen ELSE Min(at)
        gap == Put(b, pos - acc, Block(b, pos, i - pos))
    IN  IF at # {}
        THEN Shrunk(Put(gap, i - acc, r), i + Len(f), acc + Len(f) - Len(r), f, r)
        ELSE IF acc = 0 THEN b ELSE End(gap, b.slen - acc)

(* delta < 0: the occurrences d are collected first, then spread out from   *)
(* the last to the first; `end' is where the text after d[k] stops.         *)
RECURSIVE Occurrences(_, _, _)
Occurrences(b, pos, f) ==
    LET at == binstr(b, pos, f)
    IN  IF at = {} THEN <<>>
        ELSE <<Min(at)>> \o Occurrences(b, Min(at) + Len(f), f)

RECURSIVE Spread(_, _, _, _, _, _)
Spread(b, d, k, acc, f, r) ==
    LET s   == d[k] + Len(f)
        gap == Put(b, s + acc, Block(b, s, d[k + 1] - s))
    IN  IF k = 0 THEN b
        ELSE Spread(Put(gap, s + acc - Len(r), r), d, k - 1,
                    acc + Len(f) - Len(r), f, r)

(* bsStatic: a literal as an argument. *)
bsStatic(s) == Made(Len(s) + 1, s)

bfindreplace(b, find, repl, pos, same, mem) ==
    LET f   == Content(find)
        r   == Content(repl)
        d   == Occurrences(b, pos, f)
        acc == Len(d) * (Len(r) - Len(f))
        n   == b.slen + acc
    IN  IF pos < 0 \/ Len(f) = 0 THEN Err(b)
        ELSE IF pos > b.slen - Len(f) THEN Ok(b)
        ELSE IF AliasFails(same, mem) THEN Err(b)
        ELSE IF Len(f) = Len(r) THEN Ok(Overwritten(b, pos, f, r))
        ELSE IF Len(f) > Len(r) THEN Ok(Shrunk(b, pos, 0, f, r))
        ELSE Grown(b, n + 1, mem, LAMBDA g :
                   End(Spread(g, Append(d, b.slen), Len(d), acc, f, r), n))

-----------------------------------------------------------------------------
(* The calls *)

Live == {n \in Names : str[n] # NULL}

(* A caller goes on with a torn string only to append or to destroy, which   *)
(* is what Info_list (src/hub/info.c) does without looking at the result.    *)
Usable == Live \ torn

NoCall == [op |-> "none"]

Record(op, dst, src, rep, pos, len, arg, mem, ret) ==
    [op |-> op, dst |-> dst, src |-> src, rep |-> rep, pos |-> pos, len |-> len,
     arg |-> arg, mem |-> mem, ret |-> ret]

(* dst becomes the result of the call. *)
Return(dst, c, b) ==
    /\ b.slen <= MaxLen
    /\ str' = [str EXCEPT ![dst] = b]
    /\ torn' = IF c.ret = "ok" THEN torn \ {dst}
               ELSE IF c.op = "bcatcstr" THEN torn \union {dst} ELSE torn
    /\ call' = c
    /\ calls' = calls + 1

Make(op, dst, src, pos, len, arg, mem, b) ==
    /\ dst \notin Live
    /\ Return(dst, Record(op, dst, src, src, pos, len, arg, mem,
                          IF mem THEN "ok" ELSE "err"),
              IF mem THEN b ELSE NULL)

CreateFromText ==
    /\ calls < MaxCalls
    /\ \E dst \in Names, s \in Texts, mem \in BOOLEAN :
           \/ Make("bfromcstr", dst, dst, 0, 0, s, mem, bfromcstr(s))
           \/ \E m \in Lengths :
                 Make("bfromcstralloc", dst, dst, 0, m, s, mem, bfromcstralloc(m, s))
           \/ Make("blk2bstr", dst, dst, 0, 0, s, mem, blk2bstr(s))
           \/ \E snug \in BOOLEAN :
                 Make("bformat", dst, dst, 0, 0, s, mem, bformat(s, snug))
           \/ Make("bread", dst, dst, 0, 0, s, mem, bread(s))

CreateFromString ==
    /\ calls < MaxCalls
    /\ \E dst \in Names, src \in Usable, mem \in BOOLEAN :
           \/ \E snug \in BOOLEAN :
                 Make("bstrcpy", dst, src, 0, 0, <<>>, mem, bstrcpy(str[src], snug))
           \/ \E p \in Positions, n \in Lengths :
                 Make("bmidstr", dst, src, p, n, <<>>, mem, bmidstr(str[src], p, n))

Did(op, dst, src, rep, pos, len, arg, mem, r) ==
    Return(dst, Record(op, dst, src, rep, pos, len, arg, mem, r.ret), r.b)

AppendText ==
    /\ calls < MaxCalls
    /\ \E b \in Live, s \in Texts, mem \in BOOLEAN :
           \/ Did("bcatcstr", b, b, b, 0, 0, s, mem, bcatcstr(str[b], s, mem))
           \/ /\ b \in Usable
              /\ Did("bcatblk", b, b, b, 0, 0, s, mem, bcatblk(str[b], s, mem))
           \/ /\ b \in Usable
              /\ \E snug \in BOOLEAN :
                    Did("bformata", b, b, b, 0, 0, s, mem, bformata(str[b], s, snug, mem))

AppendChar ==
    /\ calls < MaxCalls
    /\ \E b \in Live, c \in Chars, mem \in BOOLEAN :
           Did("bconchar", b, b, b, 0, 0, <<c>>, mem, bconchar(str[b], <<c>>, mem))

ChangeOne ==
    /\ calls < MaxCalls
    /\ \E b \in Usable, mem \in BOOLEAN :
           \/ Did("bltrimws", b, b, b, 0, 0, <<>>, TRUE, bltrimws(str[b]))
           \/ Did("brtrimws", b, b, b, 0, 0, <<>>, TRUE, brtrimws(str[b]))
           \/ Did("btrimws", b, b, b, 0, 0, <<>>, TRUE, btrimws(str[b]))
           \/ \E n \in Lengths :
                 \/ Did("btrunc", b, b, b, 0, n, <<>>, TRUE, btrunc(str[b], n))
                 \/ Did("bpattern", b, b, b, 0, n, <<>>, mem, bpattern(str[b], n, mem))
                 \/ \E p \in Positions :
                       \/ Did("bdelete", b, b, b, p, n, <<>>, TRUE, bdelete(str[b], p, n))
                       \/ Did("binsertch", b, b, b, p, n, <<>>, mem,
                              binsertch(str[b], p, n, mem))

ChangeByAnother ==
    /\ calls < MaxCalls
    /\ \E b \in Usable, s \in Usable, mem \in BOOLEAN :
           \/ Did("bconcat", b, s, s, 0, 0, <<>>, mem,
                  bconcat(str[b], str[s], b = s, mem))
           \/ Did("bassign", b, s, s, 0, 0, <<>>, mem, bassign(str[b], str[s], mem))
           \/ \E p \in Positions :
                 \/ Did("bsetstr", b, s, s, p, 0, <<>>, mem,
                        bsetstr(str[b], p, str[s], b = s, mem))
                 \/ Did("binsert", b, s, s, p, 0, <<>>, mem,
                        binsert(str[b], p, str[s], b = s, mem))
                 \/ \E n \in Lengths :
                       \/ Did("bassignmidstr", b, s, s, p, n, <<>>, mem,
                              bassignmidstr(str[b], str[s], p, n, mem))
                       \/ Did("breplace", b, s, s, p, n, <<>>, mem,
                              breplace(str[b], p, n, str[s], b = s, mem))
                 \/ \E r \in Usable :
                       Did("bfindreplace", b, s, r, p, 0, <<>>, mem,
                           bfindreplace(str[b], str[s], str[r], p, b \in {s, r}, mem))
                 \/ \E q \in Texts :
                       Did("bfindreplace_static", b, s, s, p, 0, q, mem,
                           bfindreplace(str[b], str[s], bsStatic(q), p, b = s, mem))

bdestroy ==
    /\ calls < MaxCalls
    /\ \E b \in Live :
          Return(b, Record("bdestroy", b, b, b, 0, 0, <<>>, TRUE, "ok"), NULL)

Init == /\ str = [n \in Names |-> NULL]
        /\ call = NoCall
        /\ torn = {}
        /\ calls = 0

Next == CreateFromText \/ CreateFromString \/ AppendText \/ AppendChar
          \/ ChangeOne \/ ChangeByAnother \/ bdestroy

Spec == Init /\ [][Next]_vars

-----------------------------------------------------------------------------
(* InBounds: after every call each string's buffer has exactly the mlen     *)
(* cells that were allocated (no function has stored past it, whatever the  *)
(* offsets, lengths and shared arguments), the string is shorter than the   *)
(* buffer, every one of its characters has been written, and the terminator *)
(* bdata's users rely on follows it.  Only a bcatcstr that failed for want  *)
(* of memory leaves a full buffer without a terminator.                     *)
InBounds ==
    \A n \in Live :
        LET b == str[n]
        IN  /\ DOMAIN b.data = 0 .. b.mlen - 1
            /\ \A i \in 0 .. b.slen - 1 : b.data[i] \in Chars
            /\ IF n \in torn THEN b.slen = b.mlen
                             ELSE b.slen < b.mlen /\ b.data[b.slen] = NUL

Abstract == INSTANCE StringSpec
              WITH live <- Live,
                   text <- [n \in Names |-> Content(str[n])]

(* StringCalls: read as texts, the buffers behave as StringSpec: each call   *)
(* leaves in its destination the text its comment promises, also when the    *)
(* destination is an argument and when the buffer moves, changes no other    *)
(* string, fails only on arguments it refuses or without memory, and then    *)
(* changes nothing (bcatcstr excepted).                                      *)
StringCalls == Abstract!Spec
=============================================================================
