----------------------------- MODULE StringSpec -----------------------------
(***************************************************************************)
(* What the bstring library promises (bstrlib.h and the comment above each *)
(* function of bstrlib.c): named strings of characters, and one call after *)
(* another that replaces one string by a function of the strings and the   *)
(* arguments.  No buffers, no lengths, no terminators, no aliasing: an     *)
(* argument that is the destination itself is just its text.               *)
(*                                                                         *)
(* `call' is the last call and what it returned, so that an implementation *)
(* cannot pass off the effect of one call as that of another.              *)
(***************************************************************************)
EXTENDS Integers, Sequences, SequencesExt

CONSTANTS Names, Spaces, FILL

VARIABLES live,   \* the strings that exist
          text,   \* [Names -> Seq(Chars)]
          call    \* the last call and its outcome

(* The len characters of t from offset left, as far as t has them. *)
Mid(t, left, len) == SubSeq(t, Max({left, 0}) + 1, Min({left + len, Len(t)}))

Take(t, n) == SubSeq(t, 1, Min({n, Len(t)}))
Drop(t, n) == SubSeq(t, n + 1, Len(t))

Fills(n) == [i \in 1 .. n |-> FILL]

(* t brought to at least n characters with the fill character. *)
Padded(t, n) == t \o Fills(Max({n - Len(t), 0}))

LTrim(t) == LET kept == {i \in DOMAIN t : t[i] \notin Spaces}
            IN  IF kept = {} THEN <<>> ELSE Drop(t, Min(kept) - 1)
RTrim(t) == LET kept == {i \in DOMAIN t : t[i] \notin Spaces}
            IN  IF kept = {} THEN <<>> ELSE Take(t, Max(kept))

(* Every occurrence of find in t, left to right from offset pos and without  *)
(* overlaps, becomes repl.                                                   *)
RECURSIVE Replaced(_, _, _, _)
Replaced(t, find, repl, pos) ==
    LET at == {i \in pos .. Len(t) - Len(find) : Mid(t, i, Len(find)) = find}
    IN  IF at = {} THEN t
        ELSE LET i == Min(at)
             IN  Replaced(Take(t, i) \o repl \o Drop(t, i + Len(find)),
                          find, repl, i + Len(repl))

(* bfindreplace, with a string or with a literal as the replacement. *)
Replaces == {"bfindreplace", "bfindreplace_static"}

(* The arguments the functions refuse.  A negative length for bpattern is   *)
(* one by its code, not by its comment.                                     *)
Refused(c) ==
    \/ c.op \in {"bsetstr", "binsert", "binsertch", "breplace"} \union Replaces
       /\ c.pos < 0
    \/ c.op \in {"btrunc", "binsertch", "breplace", "bpattern"} /\ c.len < 0
    \/ c.op = "bdelete" /\ c.len + Min({c.pos, 0}) < 0
    \/ c.op = "bpattern" /\ text[c.dst] = <<>>
    \/ c.op \in Replaces /\ text[c.src] = <<>>

(* The text that call c leaves in its destination. *)
Effect(c) ==
    LET t == text[c.dst]
        s == text[c.src]
        p == c.pos
        n == c.len
    IN  CASE c.op \in {"bfromcstr", "bfromcstralloc", "blk2bstr", "bformat",
                       "bread"}                      -> c.arg
          [] c.op \in {"bstrcpy", "bassign"}          -> s
          [] c.op \in {"bmidstr", "bassignmidstr"}    -> Mid(s, p, n)
          [] c.op = "bconcat"                         -> t \o s
          [] c.op \in {"bcatcstr", "bcatblk", "bconchar", "bformata"}
                                                      -> t \o c.arg
          [] c.op = "btrunc"                          -> Take(t, n)
          [] c.op = "bltrimws"                        -> LTrim(t)
          [] c.op = "brtrimws"                        -> RTrim(t)
          [] c.op = "btrimws"                         -> LTrim(RTrim(t))
          [] c.op = "bdelete"   -> Take(t, Max({p, 0})) \o Drop(t, Max({p + n, 0}))
          [] c.op = "bsetstr"   -> Take(Padded(t, p), p) \o s
                                       \o Drop(t, p + Len(s))
          [] c.op = "binsert"   -> Take(Padded(t, p), p) \o s \o Drop(t, p)
          [] c.op = "binsertch" -> Take(Padded(t, p), p) \o Fills(n) \o Drop(t, p)
          [] c.op = "breplace"  -> Take(Padded(t, p), p) \o s \o Drop(t, p + n)
          [] c.op = "bfindreplace" -> Replaced(t, s, text[c.rep], p)
          [] c.op = "bfindreplace_static" -> Replaced(t, s, c.arg, p)
          [] c.op = "bpattern"  -> [i \in 1 .. n |-> t[((i - 1) % Len(t)) + 1]]
          [] OTHER              -> <<>>

Creates == {"bfromcstr", "bfromcstralloc", "blk2bstr", "bformat", "bread",
            "bstrcpy", "bmidstr"}

Init == live = {} /\ text = [n \in Names |-> <<>>] /\ call = [op |-> "none"]

(* A call that succeeds has its effect and touches no other string. *)
Succeed ==
    /\ call'.ret = "ok"
    /\ ~Refused(call')
    /\ text' = [text EXCEPT ![call'.dst] = Effect(call')]
    /\ live' = CASE call'.op = "bdestroy" -> live \ {call'.dst}
                 [] call'.op \in Creates   -> live \union {call'.dst}
                 [] OTHER                  -> live

(* A call fails only on arguments it refuses or for want of memory, and    *)
(* changes nothing.  bcatcstr alone may already have appended a part.      *)
Fail ==
    /\ call'.ret = "err"
    /\ Refused(call') \/ ~call'.mem
    /\ UNCHANGED live
    /\ \E k \in 0 .. (IF call'.op = "bcatcstr" THEN Len(call'.arg) ELSE 0) :
          text' = [text EXCEPT ![call'.dst] = @ \o Take(call'.arg, k)]

Next == Succeed \/ Fail

Spec == Init /\ [][Next]_<<live, text, call>>
=============================================================================
